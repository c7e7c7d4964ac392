CONSTANTS
    None = None
    Tick = {t1, t2}
    Batch = 2
    MaxTime = 1
    Reminder = {i1, i2}
    Anchored = {i1}
    Task = {}
    TriageThreshold = 1
    HumanThreshold = 1
    MaxCrash = 0
SPECIFICATION RemindersSpec
INVARIANTS OncePerSchedule
CHECK_DEADLOCK FALSE
PROPERTY FiresEventually
