SPECIFICATION FairSpec
CONSTANTS
    Channels = {0}
    Workers = {w1, w2}
    main = main
    None = None
    MaxOps = 3
INVARIANTS OwnData NothingLeftOver
PROPERTIES CommandAnswered
CHECK_DEADLOCK FALSE
