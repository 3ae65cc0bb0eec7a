SPECIFICATION SpecDisplays
CONSTANTS
    N = 2
    Keys = {k1, k2}
    Sizes = {1, 2}
    BigSizes = {}
    WindowKey = k1
    NoKey = noKey
    NoSize = 0
    DefaultSize = 1
    Ports = {p1, p2}
    NoPort = p1
    NoDisplay = noDisplay
    HDSize = 2
    FourKSize = 3
    Unset = {"STATIC"}
INVARIANTS
    LookupsAgree
    FramebufferFits
    ConnectedHasDisplay
PROPERTIES
    LiveDisplayKept
