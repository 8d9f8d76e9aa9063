CONSTANTS
    Keys = {read, bad}
    Malformed = {bad}
    Sensitive = {}
    Curious = {}
    MaxTurns = 2
    MaxRounds = 2
    MaxCalls = 2
    MaxParallel = 2
    MaxRetries = 1
    MaxRequests = 2
    ToolTimeout = TRUE
    MaxCrashes = 1
    MaxFaults = 1
CHECK_DEADLOCK FALSE
SPECIFICATION Spec
INVARIANTS
    TypeOK
    ContextReplayable
    GroupsComplete
    NothingBetween
