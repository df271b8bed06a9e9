CONSTANTS
    demo = demo
    gui = gui
    tmr = tmr
    None = None
    Tasks <- MCTasks
    Daemon = tmr
    Names <- MCNames
    Seconds <- MCSeconds
    Priority <- MCPriority
    QueueLen = 10
    HeapMayFail = TRUE
    MaxCalls = 4
CHECK_DEADLOCK FALSE
SPECIFICATION FairSpec
INVARIANTS
    TypeOK
    MutexProtectsList
    WalkStaysOnList
PROPERTIES
    CallsReturn
    KeepsTable
