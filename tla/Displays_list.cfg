SPECIFICATION SpecDisplays
CONSTANTS
    N = 2
    Keys = {k1, k2}
    Sizes = {2, 3}
    BigSizes = {3}
    WindowKey = k1
    NoKey = noKey
    NoSize = 0
    DefaultSize = 1
    Ports = {p1}
    NoPort = p1
    NoDisplay = noDisplay
    HDSize = 2
    FourKSize = 3
    Unset = {"INVALID"}
PROPERTIES
    RemovedByList
