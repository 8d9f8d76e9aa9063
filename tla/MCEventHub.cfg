CONSTANTS
    root = root
    child = child
    grandchild = grandchild
    None = None
    Sessions = {root, child, grandchild}
    Parent <- Ancestry
    Clients = {ui}
    Capacity = 2
    MaxBytes = 3
    Sizes = {1, 2}
    MaxEvents = 4
    MaxTurns = 2
    MaxUpsets = 2
CHECK_DEADLOCK FALSE
SPECIFICATION FairSpec
INVARIANTS
    TypeOK
    WindowKeepsActiveTurn
    
PROPERTIES
    SeesTheLog
    CatchesUp
