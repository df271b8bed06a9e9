CONSTANTS
    Keys = {k1, k2}
    Vals = {v1, v2}
    None = None
    PrefixSets <- AllKeys
    B = 3
    C = 3
    PowerFails <- NotAtHome
CHECK_DEADLOCK FALSE
SPECIFICATION Spec
SYMMETRY KeysAndVals
INVARIANTS
    TypeOK
    OneItemPerKey
    ReserveKept
PROPERTIES
    KeepsStore
