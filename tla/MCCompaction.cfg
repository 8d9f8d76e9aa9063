SPECIFICATION Spec
CONSTANTS
    TailTurns = 1
    OverflowRetries = 1
    MidstreamRetries = 1
    SummaryAttempts = 2
    MaxRounds = 2
    MaxTurns = 6
    MaxRewinds = 2
INVARIANTS
    TypeOK
    ShownOnce
    TailKept
    RetryIsSmaller
CHECK_DEADLOCK FALSE
