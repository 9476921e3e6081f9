\* A machine pulls again and again from a prefix that is pushed to and pruned.
SPECIFICATION ReadFairSpec
CONSTANTS
    x = x
    y = y
    rw = rw
    ro = ro
    Path <- MCPath
    ManifestKey = mkey
    Content = {x, y}
    Torn = Torn
    Mode = {rw, ro}
    Nil = Nil
    Pusher = {q1}
    Trees <- MCOneTree
    Buckets <- MCPruneBuckets
    Hows = {"diff"}
    Exposed <- MCSecond
    MaxFaults = 0
    MaxKills = 0
    MaxDamage = 1
    MaxEdits = 0
    Reader = {r1}
    Attempts = 2
CHECK_DEADLOCK FALSE
PROPERTY Mirrored
PROPERTY Heals
PROPERTY Collects
