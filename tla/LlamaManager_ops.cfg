SPECIFICATION Spec
CONSTANTS
    Ids = {i1}
    Releases <- ReleaseOrder
    Waiting = {"install"}
    MaxFailures = 1
    None = None
INVARIANTS
    NothingIsOrphaned
    RollbackGoesBack
    ServiceHasItsFiles
CONSTRAINT WaitingMatters
