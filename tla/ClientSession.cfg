SPECIFICATION ReachableSpec
CONSTANTS
    Starts = {1, 2}
    NoStart = NoStart
    Commands = {c1}
    Offers = {o1}
    NoState = NoState
    MaxCalls = 1
    MaxBreaks = 1
    MaxCrashes = 1
INVARIANTS
    TypeOK
    OneLoop
    ReadyRegisters
PROPERTIES
    Reconnects
    StopEnds
    StateKept
CHECK_DEADLOCK FALSE
