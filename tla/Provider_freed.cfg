SPECIFICATION Spec
CONSTANTS
    Callbacks = {c1}
    Workers = {w1}
    MaxStarts = 1
    MaxStops = 1
    EarlyErrors = FALSE
INVARIANTS
    FreedItemNotQueued
\* A failed start and the last stop end the life of the device.
CHECK_DEADLOCK FALSE
