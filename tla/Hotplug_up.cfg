SPECIFICATION FairSpec
CONSTANTS
    N = 2
    Threads = {t1, t2}
    MultiProcessor = FALSE
    EarlyPlug = FALSE
INVARIANTS
    TypeOK
    PendingHasDpc
    Settled
PROPERTIES
    KeepsView
