\* One failed operation, one kill and one edit of the live tree.
SPECIFICATION FairSpec
CONSTANTS
    x = x
    y = y
    rw = rw
    ro = ro
    Path <- MCPath
    Content = {x, y}
    Torn = torn
    Mode = {rw, ro}
    Writable = rw
    ReadOnly = {}
    Windows = FALSE
    Inode <- MCInode
    Nil = Nil
    Absent = Absent
    Manifests <- EditManifests
    Calls = {"pull"}
    Disks <- EditDisks
    Attempts = 2
    MaxFsFaults = 1
    MaxNetFaults = 0
    MaxKills = 1
    MaxEdits = 1
PROPERTY Implements
PROPERTY Converges
CHECK_DEADLOCK FALSE
