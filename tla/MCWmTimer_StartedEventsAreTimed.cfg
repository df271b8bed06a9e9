CONSTANTS
    demo = demo
    gui = gui
    tmr = tmr
    None = None
    Tasks <- MCTasks
    Daemon = tmr
    Names <- MCNames
    Seconds <- MCSeconds
    Priority <- MCPriority
    QueueLen = 10
    HeapMayFail = FALSE
    MaxCalls = 4
CHECK_DEADLOCK FALSE
SPECIFICATION Spec
INVARIANT
    StartedEventsAreTimed
