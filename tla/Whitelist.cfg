SPECIFICATION Spec
CONSTANTS
    Keys = {k1, k2}
    Ids = {i1, i2}
    Data = {d1, d2}
    NoKey = NoKey
    Connections = {t1}
    Transposer = Transposer
    Registrar = Registrar
SYMMETRY Symmetry
INVARIANTS
    TypeOK
    RevokedStaysOut
    UpdatesKept
    UnknownIsGranted
PROPERTIES
    StartsAgain
