SPECIFICATION FairSpec
CONSTANTS
    Tasks = {t1, t2}
    Fiq = fiq
    FifoDepth = 1
    Capacity = 2
    Wrap = 4
INVARIANT StreamInOrder
INVARIANT ArmedWhileQueued
INVARIANT NoStaleArm
PROPERTY CallsReturn
