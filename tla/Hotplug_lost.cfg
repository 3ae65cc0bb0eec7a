SPECIFICATION Spec
CONSTANTS
    N = 1
    Threads = {t1}
    MultiProcessor = TRUE
    EarlyPlug = FALSE
INVARIANTS
    SettledOnceStarted
