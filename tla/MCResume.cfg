\* One large object is pulled again and again over connections that are cut.
SPECIFICATION FairSpec
CONSTANTS
    a = a
    b = b
    e1 = e1
    e2 = e2
    Byte = {a, b}
    Tag = {e1, e2}
    Nil = Nil
    Want <- MCWant
    Objects <- MCObjects
    MaxTroubles = 4
INVARIANT ResumeTypeOK
INVARIANT StagedRight
INVARIANT NeverInItsOwnWay
INVARIANT OnlyFaultsStick
INVARIANT OneFaultIsCheap
PROPERTY KeepsPrefix
PROPERTY Arrives
CHECK_DEADLOCK FALSE
