CONSTANTS
    Subs = {s1, s2}
    Unreadable = {}
    Turns = {t1, t2}
    NoTurn = NoTurn
    DeadTurn = DeadTurn
    StaleTurn = StaleTurn
    MaxRounds = 2
    Resent = {}
    MaxRetries = 0
    MaxRewinds = 0
    MaxCompacts = 0
    MaxCrashes = 0
    MaxFaults = 0
    MaxUpsets = 0
CHECK_DEADLOCK FALSE
SPECIFICATION Spec
INVARIANTS
    DeliveredOnce
