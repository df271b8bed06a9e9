CONSTANTS
    Keys = {k1}
    Vals = {v1, v2}
    None = None
    PrefixSets <- NoKeys
    B = 3
    C = 2
    PowerFails <- AllSteps
CHECK_DEADLOCK FALSE
SPECIFICATION Spec
PROPERTIES
    KeepsStore
