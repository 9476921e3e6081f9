\* Two processes push to a prefix that others write to as well.
SPECIFICATION Spec
CONSTANTS
    x = x
    y = y
    rw = rw
    ro = ro
    Path <- MCPath
    ManifestKey = mkey
    Content = {x, y}
    Torn = Torn
    Mode = {rw, ro}
    Nil = Nil
    Pusher = {q1, q2}
    Trees <- MCTwoTrees
    Buckets <- MCBuckets
    Hows = {"diff"}
    Exposed <- MCExposed
    MaxFaults = 1
    MaxKills = 1
    MaxDamage = 1
    MaxEdits = 1
INVARIANT TypeOK
INVARIANT NothingMissing
INVARIANT ContentFirst
INVARIANT NoOp
INVARIANT OkIsPublished
CONSTRAINT TwoTroubles
SYMMETRY Pushers
CHECK_DEADLOCK FALSE
