SPECIFICATION Spec
CONSTANTS
    Clients = {c1, c2}
    Parities = {p1}
    Host = Host
    Origin = Origin
    NoParity = NoParity
    MaxFaults = 3
INVARIANTS
    AtMostOnce
PROPERTIES
    Promised
