SPECIFICATION Spec
CONSTANTS
    c1 = c1
    c2 = c2
    k1 = k1
    k2 = k2
    Clients = {c1, c2}
    Connections <- TwoConnections
    Owner <- TwoOwners
    Transposer = Transposer
    Free = Free
    MaxAttempts = 2
    MaxDisconnects = 1
INVARIANTS
    OfflineSyncsAgain
CHECK_DEADLOCK FALSE
