SPECIFICATION SpecPaths
CONSTANTS
    MaxPaths = 3
    Views = {v0, v1, v2}
    NoView = NoView
SYMMETRY ViewSymmetry
INVARIANTS
    PathsTypeOK
    GivesBack
    SuccessIsClean
    PresentsOnPath
PROPERTIES
    TurnedAsWanted
    ShownIsPresented
