\* A process whose credentials lapse while two requests are sent.
SPECIFICATION SessionSpec
CONSTANTS
    Lines <- MCLines
    Shelves <- MCShelves
    Lifetimes = {2, 3}
    Window = 1
    Request = {r1, r2, r3}
    Options <- MCOptions
    Default <- MCDefault
    Manifests <- MCManifests
    Attempts = 2
    MaxInt = 3
    MaxTime = 7
INVARIANT SessionTypeOK
INVARIANT HandlesBalanced
PROPERTY SignedAsAsked
PROPERTY SizesExact
SYMMETRY Alike
CHECK_DEADLOCK FALSE
