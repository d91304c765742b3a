SPECIFICATION YieldSpec
CONSTANTS
    t1 = t1
    t2 = t2
    idle = idle
    main = main
    None = None
    Threads = {main, idle, t1, t2}
    Priority <- MCPriority
INVARIANTS NoPanic
