\* A pull that begins after its objects have grown old, and a push that drops them.
SPECIFICATION RaceSpec
CONSTANTS
    x = x
    y = y
    rw = rw
    ro = ro
    Path <- MCPath
    ManifestKey = mkey
    Content = {x, y}
    Torn = Torn
    Mode = {rw, ro}
    Nil = Nil
    Pusher = {q1}
    Trees <- MCTwoTrees
    Buckets <- MCReadBuckets
    Hows = {"diff"}
    Exposed = {}
    MaxFaults = 0
    MaxKills = 0
    MaxDamage = 0
    MaxEdits = 0
    Reader = {r1}
    Attempts = 2
CHECK_DEADLOCK FALSE
PROPERTY ShortPullsAreSafe
