SPECIFICATION Spec
CONSTANTS
    N = 2
    Keys = {k1, k2, k3}
    Sizes = {hd, uhd}
    BigSizes = {uhd}
    WindowKey = k1
    NoKey = noKey
    NoSize = noSize
    DefaultSize = default
INVARIANTS
    TypeOK
    LookupIsCurrent
PROPERTIES
    RoomForAll
    ImplementsMap
