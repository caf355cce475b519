SPECIFICATION FairSpec
CONSTANTS
    p1 = p1
    p2 = p2
    junk = junk
    Frames <- MCFrames
    Junk <- MCJunk
    SlotCount = 3
    Wrap = 6
INVARIANTS
    FramesIntact
    QuietWhenStopped
PROPERTIES
    ImplementsFifo
    FramesKeepComing
