SPECIFICATION Spec
CONSTANTS
    Engines = {e1, e2}
    Runs = {r1, r2}
    Slots = {s1}
    None = None
    MaxUpsets = 2
CHECK_DEADLOCK FALSE
INVARIANT TypeOK
 
INVARIANT AnnouncedOnce
INVARIANT ActiveRunsCarried
