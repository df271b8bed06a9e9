CONSTANTS
    Full = 4
    Requests <- MCRequests
    None = None
    MaxMessages = 6
CHECK_DEADLOCK FALSE
SPECIFICATION FairSpec
INVARIANTS
    TypeOK
    Settled
PROPERTIES
    RampEnds
