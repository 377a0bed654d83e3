SPECIFICATION RollbackSpec
CONSTANTS
    N = 4
    InState = {2, 3}
INVARIANTS
    FilesFitOutcome
    OldIsKept
    MixNeverServes
CHECK_DEADLOCK FALSE
