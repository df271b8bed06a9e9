CONSTANTS
    demo = demo
    gui = gui
    None = None
    Procs <- MCProcs
    Demo = demo
    Priority <- MCPriority
    CacheMax = 2
    QueueMax = 1
    MaxPosts = 3
CHECK_DEADLOCK FALSE
SPECIFICATION FairSpec
INVARIANTS
    TypeOK
    CacheWithinLimit
PROPERTIES
    KeepsPromise
    EveryPostAnswered
    PostsReturn
