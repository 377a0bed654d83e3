SPECIFICATION FairSpec
CONSTANTS
    Viewers = {a, b}
    MaxQueue = 2
    MaxFrames = 4
    MaxDrops = 1
INVARIANTS
    InOrder
    EndIsReachable
PROPERTIES
    ViewerLearnsTheEnd
CHECK_DEADLOCK FALSE
