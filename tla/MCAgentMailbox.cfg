SPECIFICATION FairSpec
CONSTANTS
    Messages = {m1, m2}
    OwnTasks = {t1}
    MaxRounds = 3
CHECK_DEADLOCK FALSE
INVARIANT TypeOK
INVARIANT AcceptedIsDelivered
PROPERTY EverySenderAnswered
