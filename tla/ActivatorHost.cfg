SPECIFICATION FairSpec
CONSTANTS
    Rows = {r1, r2, r3}
    Collected = {r1, r2, r3}
    Failing = {}
    MayPanic = FALSE
    NoThread = NoThread
PROPERTIES
    ScheduledIsProcessed
CHECK_DEADLOCK FALSE
