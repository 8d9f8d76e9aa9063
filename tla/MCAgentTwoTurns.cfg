SPECIFICATION Spec
CONSTANTS
    Messages = {m1}
    OwnTasks = {t1}
    MaxRounds = 2
CHECK_DEADLOCK FALSE
INVARIANT OneTurn
