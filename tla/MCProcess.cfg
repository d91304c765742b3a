SPECIFICATION FairProcessSpec
CONSTANTS
    t1 = t1
    t2 = t2
    idle = idle
    main = main
    None = None
    Threads = {main, idle, t1, t2}
    Priority <- MCPriority
INVARIANTS FramesAgree TypeOK QueueInv ReadyNotLost AllListed NoPanic OwnAddressSpace OwnKernelStack FlagByMode
PROPERTIES PreemptedAtSliceEnd FirstComeFirstServed ReadyThreadRuns
