SPECIFICATION FairSpec
CONSTANTS
    main = main
    shell = shell
    worker = worker
    Tasks = {main}
    Stoppers = {worker}
    Rank <- MCRank
    MaxAttempts = 2
    MaxFrames = 1
    MaxInds = 2
    MaxStops = 1
    QueueDepth = 2
    Direct = {}
INVARIANT OneOwner
INVARIANT SomeoneResolves
INVARIANT SecureMeansHandshake
CHECK_DEADLOCK FALSE
INVARIANT DownMeansGone
PROPERTY FirstKept
