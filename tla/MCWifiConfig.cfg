CONSTANTS
    Shell = shell
    Demo = demo
    Gc = gc
    None = None
    Tasks <- MCTasks
    Priority <- MCPriority
    Keys <- MCKeys
    Vals <- MCVals
    CreateFails = TRUE
    Mark <- MCMark
    Configs <- MCConfigs
    Networks <- MCNetworks
    Sessions <- MCSessions
    MaxCommands = 2
    MaxFailures = 1
CHECK_DEADLOCK FALSE
SPECIFICATION FairSpec
INVARIANTS
    TypeOK
PROPERTIES
    CollectFirst
    TriedTogether
    SetsReturn
    SettledIsTried
