SPECIFICATION Spec
CONSTANTS
    main = main
    shell = shell
    worker = worker
    Tasks = {main, shell}
    Stoppers = {}
    Rank <- MCRank
    MaxAttempts = 2
    MaxFrames = 1
    MaxInds = 2
    MaxStops = 1
    QueueDepth = 3
    Direct = {}
CHECK_DEADLOCK FALSE
INVARIANT SomeoneResolves
