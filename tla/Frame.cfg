SPECIFICATION Spec
CONSTANTS
    Width = 3
    Height = 2
    Pitch = 4
    SourcePitch = 5
    Guard = 5
    MaxRects = 2
INVARIANTS
    CopiesTurn
    FrameInPlace
    OnlyScreenWritten
    HostShowsFrame
    BugcheckInPlace
\* A bugcheck ends everything.
CHECK_DEADLOCK FALSE
