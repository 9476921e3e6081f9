\* The largest limit an int64 can hold.
SPECIFICATION SessionSpec
CONSTANTS
    Lines <- MCLines
    Shelves <- MCShelves
    Lifetimes = {2, 3}
    Window = 1
    Request = {r1, r2}
    Options <- MCLargest
    Default <- MCDefault
    Manifests <- MCManifests
    Attempts = 2
    MaxInt = 3
    MaxTime = 5
SYMMETRY Alike
CHECK_DEADLOCK FALSE
INVARIANT CapIsACap
