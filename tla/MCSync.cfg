SPECIFICATION FairSpec
CONSTANTS
    t1 = t1
    t2 = t2
    plock = plock
    idle = idle
    main = main
    None = None
    Threads = {main, idle, t1, t2}
    Workers <- MCWorkers
    Priority <- MCPriority
    Semaphores = {plock}
    Locks = {plock}
    MaxNesting = 2
INVARIANTS NoPanic TokenInv WaitersInv NoLostWakeup MaskRestored
PROPERTIES ImplementsLock FreeLockTaken
