SPECIFICATION Spec
CONSTANTS
    Displays = {d1, d2, d3, d4, d5}
    Null = Null
INVARIANTS
    TypeOK
    PresentTargetLives
    ConnectedIsMapped
    CrashNeedsOverlap
    VisibleIsLit
PROPERTIES
    FramebufferKept
\* A crash ends everything.
CHECK_DEADLOCK FALSE
