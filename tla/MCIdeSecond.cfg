SPECIFICATION FairSpec
CONSTANTS
    Channels = {0, 1}
    Workers = {w1}
    main = main
    None = None
    MaxOps = 2
PROPERTIES CommandAnswered
CHECK_DEADLOCK FALSE
