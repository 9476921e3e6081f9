CONSTANTS
    x = x
    y = y
    rw = rw
    ro = ro
    Path <- MCPath
    Content = {x, y}
    Torn = torn
    Mode = {rw}
    Writable = rw
    ReadOnly = {}
    Windows = FALSE
    Inode <- MCInode
    Nil = Nil
    Absent = Absent
    Manifests <- FaultManifests
    Calls = {"pull", "recover"}
    Disks <- FaultDisks
    Attempts = 2
    MaxFsFaults = 0
    MaxNetFaults = 1
    MaxKills = 1
    MaxEdits = 0
SPECIFICATION Spec
INVARIANT TmpIsExpendable
