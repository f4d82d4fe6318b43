SPECIFICATION FairSpec
CONSTANTS
    Watchers = {w1}
    Commands = {c1, c2}
    Receiver = receiver
    Transposer = transposer
    Installer = installer
    Size = 2
    MaxSetups = 3
    MaxId = 2
CHECK_DEADLOCK FALSE
INVARIANTS
    TypeOK
    OneRow
PROPERTIES
    DiesOnlyCrowded
    AwaitedStays
    WatchEnds
