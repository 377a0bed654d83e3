SPECIFICATION FairSpec
CONSTANTS
    MaxLines = 2
    MaxCalls = 1
INVARIANTS
    FirstFrameDecides
    ReasonIsTrue
PROPERTIES
    TurnEnds
