CONSTANTS
    gui = gui
    Procs = {gui}
    ListMax = 2
    ProbeMax = 1
    MaxPublish = 2
    MaxBreaks = 2
    MaxCopies = 1
CHECK_DEADLOCK FALSE
SPECIFICATION FairSpec
INVARIANTS
    TypeOK
    PublishTellsTruth
    ToldTruth
PROPERTIES
    AcceptedIsAcknowledged
    DeadLinkIsLeft
