SPECIFICATION Spec
CONSTANTS
    Clients = {c1, c2}
    Parities = {p1, p2}
    Host = Host
    Origin = Origin
    NoParity = NoParity
    MaxFaults = 1
SYMMETRY Symmetry
INVARIANTS
    TypeOK
    RoutedHome
    InOrder
    NeverTakenForDuplicate
    NothingVanishes
    TaskRemembered
