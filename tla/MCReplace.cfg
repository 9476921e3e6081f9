CONSTANTS
    x = x
    y = y
    rw = rw
    ro = ro
    Path <- MCPath
    Content = {x, y}
    Torn = torn
    Mode = {rw}
    Writable = rw
    ReadOnly = {}
    Windows = FALSE
    Inode <- MCInode
    Nil = Nil
    Absent = Absent
    Manifests <- FaultManifests
    Calls = {"pull", "recover", "directory"}
    Disks <- FaultDisks
    Attempts = 2
    MaxFsFaults = 2
    MaxNetFaults = 1
    MaxKills = 1
    MaxEdits = 0
SPECIFICATION Spec
INVARIANT SeparateFiles
INVARIANT NoSecondNames
INVARIANT RecoveryCleans
INVARIANT RollsBack
PROPERTY Implements
INVARIANT TypeOK
PROPERTY KeepsDownloads
