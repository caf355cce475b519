SPECIFICATION FairScanSpec
CONSTANTS
    main = main
    Tasks = {main}
    Rank <- MCRank
    MaxScans = 3
INVARIANT ResultOwned
INVARIANT OkMeansSwept
PROPERTY ScanReturns
CHECK_DEADLOCK FALSE
