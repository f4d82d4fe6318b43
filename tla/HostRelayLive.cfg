SPECIFICATION FairSpec
CONSTANTS
    Clients = {c1, c2}
    Parities = {p1, p2}
    Host = Host
    Origin = Origin
    NoParity = NoParity
    MaxFaults = 0
PROPERTIES
    Arrives
