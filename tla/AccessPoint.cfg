CONSTANTS
    Macs = {m1, m2, m3}
    None = None
    Pool = 2
    Room = 2
    QueueLen = 1
    Stations = {1, 2}
    MaxStarts = 2
    MaxFrames = 4
    MaxMessages = 4
    MaxFaults = 1
CHECK_DEADLOCK FALSE
SYMMETRY Symmetry
SPECIFICATION Spec
INVARIANTS
    TableTrue
    NoOrphanStation
    NoUseAfterFree
PROPERTY
    EvictsOldest
