CONSTANTS
    Subs = {s1, s2}
    Unreadable = {s2}
    Turns = {t1, t2}
    NoTurn = NoTurn
    DeadTurn = DeadTurn
    StaleTurn = StaleTurn
    MaxRounds = 2
    Resent = {s1}
    MaxRetries = 1
    MaxRewinds = 1
    MaxCompacts = 1
    MaxCrashes = 1
    MaxFaults = 1
    MaxUpsets = 2
CHECK_DEADLOCK FALSE
SPECIFICATION Spec
SYMMETRY Symmetry
INVARIANTS
    TypeOK
    OneLiveTurn
    OnePlace
    NothingLostWithoutFaults
    NoStrandedMail
    NoOrphanLock
PROPERTIES
    RowsLeaveForAPlace
