SPECIFICATION FairSpec
CONSTANTS
    Rows = {r1, r2, r3}
    Collected = {r1, r2}
    Failing = {r2}
    MayPanic = TRUE
    NoThread = NoThread
INVARIANTS
    TypeOK
    OneTransposer
    HandledOnce
    HandleIsLive
PROPERTIES
    Drains
CHECK_DEADLOCK FALSE
