CONSTANTS
    TxSize = 3
    Chunk = 2
    RxSize = 3
    MaxOut = 4
    MaxKeys = 2
    MaxClients = 2
    MaxRuns = 2
    Workers = {1, 2}
    MaxBody = 2
    MaxCalls = 3
    MaxConns = 2
    MaxHttpRuns = 2
CHECK_DEADLOCK FALSE
SPECIFICATION Spec
INVARIANTS
    OwedGoesOut
    KeysArrive
    OneHonestReply
    FreedLast
