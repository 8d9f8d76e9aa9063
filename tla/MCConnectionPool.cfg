CONSTANTS
    Threads = {a, b, c, d}
    Conns = {x, y}
    Initial = {}
    Cap = 2
    OnDisk = TRUE
    None = None
    MaxCalls = 2
    MaxFails = 2
CHECK_DEADLOCK FALSE
SPECIFICATION FairSpec
INVARIANTS
    TypeOK
    CapRespected
    NoLostWakeup
PROPERTIES
    EveryCallServed
