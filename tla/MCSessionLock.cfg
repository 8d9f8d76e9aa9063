CONSTANTS
    Claims = {c1, c2, c3}
    NoClaim = NoClaim
    HeartbeatInterval = 2
    StaleAfter = 6
    Slack = 0
    AcquireLimit = 2
    MaxMisses = 1
SPECIFICATION FairSpec
INVARIANTS
    TypeOK
    TimelyTurnsExclusive
    GuardIsOwn
PROPERTIES
    LostForGood
    TakenOverStops
