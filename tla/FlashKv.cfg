SPECIFICATION Spec
CONSTANTS
    Keys = {k1, k2}
    short = short
    long = long
    None = None
    Values <- MCValues
    ValueLen <- MCValueLen
    SectorSize = 60
    CutPoints = {"append", "erase", "rewrite"}
    MallocMayFail = TRUE
INVARIANT TypeOK
INVARIANT AllOrNothing
INVARIANT NoSpaceMeansFull
INVARIANT WriteRepairs
INVARIANT ForeachAgreesWithGet
INVARIANT CutOutcome
PROPERTY ImplementsKvStore
