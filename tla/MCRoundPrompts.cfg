CONSTANTS
    Keys = {shell, form}
    Malformed = {}
    Sensitive = {shell}
    Curious = {form}
    MaxTurns = 1
    MaxRounds = 1
    MaxCalls = 3
    MaxParallel = 2
    MaxRetries = 0
    MaxRequests = 9
    ToolTimeout = FALSE
    MaxCrashes = 1
    MaxFaults = 0
CHECK_DEADLOCK FALSE
SPECIFICATION FairSpec
INVARIANTS
    PromptsAnswered
PROPERTIES
    StopStops
