SPECIFICATION Spec
CONSTANTS
    MaxJoins = 2
    MaxReplay = 5
    MaxUp = 2
    MaxFaults = 1
    QueueDepth = 3
INVARIANT SameKeys
INVARIANT NoStrayKey
INVARIANT NoReinstall
CHECK_DEADLOCK FALSE
