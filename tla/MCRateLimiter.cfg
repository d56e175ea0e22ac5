CONSTANTS
    Threads = {t1, t2}
    MaxRequests = 2
    WindowSeconds = 2
    Latency = 2
    MaxPerTick = 4
    MaxTime = 6
SPECIFICATION Spec
SYMMETRY Symmetry
INVARIANTS
    TypeOK
    BurstBounded
PROPERTIES
    RefusalJustified
CHECK_DEADLOCK FALSE
