\* A process pushes to a prefix while the prefix is pruned.
SPECIFICATION PruneSpec
CONSTANTS
    x = x
    y = y
    rw = rw
    ro = ro
    Path <- MCPath
    ManifestKey = mkey
    Content = {x, y}
    Torn = Torn
    Mode = {rw, ro}
    Nil = Nil
    Pusher = {q1}
    Trees <- MCTwoTrees
    Buckets <- MCPruneBuckets
    Hows = {"diff"}
    Exposed = {}
    MaxFaults = 0
    MaxKills = 0
    MaxDamage = 0
    MaxEdits = 0
PROPERTY WindowKept
CHECK_DEADLOCK FALSE
