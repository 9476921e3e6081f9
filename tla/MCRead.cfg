\* A machine pulls from a prefix that is pushed to and pruned.
SPECIFICATION ReadSpec
CONSTANTS
    x = x
    y = y
    rw = rw
    ro = ro
    Path <- MCPath
    ManifestKey = mkey
    Content = {x, y}
    Torn = Torn
    Mode = {rw, ro}
    Nil = Nil
    Pusher = {q1}
    Trees <- MCReused
    Buckets <- MCUsedBuckets
    Hows = {"diff", "full", "adopt"}
    Exposed = {}
    MaxFaults = 1
    MaxKills = 0
    MaxDamage = 0
    MaxEdits = 1
    Reader = {r1}
    Attempts = 2
INVARIANT PruneTypeOK
INVARIANT ReadTypeOK
INVARIANT Present
PROPERTY SparesReferenced
PROPERTY MissingMeansStale
CONSTRAINT OneTrouble
CHECK_DEADLOCK FALSE
