\* Read-only files on Windows, with a failed operation, a mismatch and a kill.
SPECIFICATION PreviewSpec
CONSTANTS
    x = x
    y = y
    rw = rw
    ro = ro
    Path <- MCPath
    Content = {x, y}
    Torn = torn
    Mode = {rw, ro}
    Writable = rw
    ReadOnly = {ro}
    Windows = TRUE
    Inode <- MCInode
    Nil = Nil
    Absent = Absent
    Manifests <- WindowsManifests
    Calls = {"pull"}
    Disks <- WindowsDisks
    Attempts = 1
    MaxFsFaults = 1
    MaxNetFaults = 1
    MaxKills = 1
    MaxEdits = 0
PROPERTY Implements
INVARIANT Foretold
CONSTRAINT FewTroubles
CHECK_DEADLOCK FALSE
