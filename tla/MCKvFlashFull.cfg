CONSTANTS
    Keys = {k1, k2}
    Vals = {v1, v2}
    None = None
    PrefixSets <- NoKeys
    B = 3
    C = 2
    PowerFails <- AllSteps
CHECK_DEADLOCK FALSE
SPECIFICATION Spec
SYMMETRY KeysAndVals
PROPERTIES
    NothingComesBack
