CONSTANTS
    None = None
    Tick = {k1, k2}
    Batch = 2
    MaxTime = 2
    Reminder = {}
    Anchored = {}
    Task = {t1, t2}
    TriageThreshold = 1
    HumanThreshold = 0
    MaxCrash = 1
SPECIFICATION SweeperSpec
INVARIANTS AtMostOncePerLife
PROPERTIES EveryOrphanIsMet HumansHear
CHECK_DEADLOCK FALSE
