SPECIFICATION Spec
CONSTANTS
    Base <- MCBase
    Requests <- MCRequests
    HD <- MCHD
    FourK <- MCFourK
    DefaultDims <- MCDefault
    NoDims = NoDims
INVARIANTS
    OfferedFits
