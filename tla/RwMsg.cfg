SPECIFICATION FairSpec
CONSTANTS
    s1 = s1
    s2 = s2
    Senders <- MCSenders
    Ids = {connect, disconnect}
    ConnectId = connect
    MaxRequests = 2
    QueueLen = 1
    Peers <- MCPeers
INVARIANT FreedOnlyByFailedPeer
INVARIANT NothingLeftBehind
INVARIANT AnsweredWhenOk
PROPERTY SendReturns
CHECK_DEADLOCK FALSE
