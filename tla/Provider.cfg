SPECIFICATION FairSpec
CONSTANTS
    Callbacks = {c1, c2}
    Workers = {w1, w2}
    MaxStarts = 1
    MaxStops = 1
    EarlyErrors = FALSE
INVARIANTS
    TypeOK
    NoDoubleQueue
    RequestTracksWork
    ReconnectAssured
    CleanUpFencesWorkers
    DestroyOnce
PROPERTIES
    ProviderReturns
\* A failed start and the last stop end the life of the device.
CHECK_DEADLOCK FALSE
