CONSTANTS
    demo = demo
    gui = gui
    Procs <- MCTwo
    Demo = demo
    Priority <- MCPriority
    N = 2
    Offline = TRUE
    MaxChanges = 3
    MaxPresses = 1
CHECK_DEADLOCK FALSE
SPECIFICATION FairSpec
INVARIANTS
    TypeOK
PROPERTIES
    RoundEnds
    QuietChangeIsSent
    PressReported
