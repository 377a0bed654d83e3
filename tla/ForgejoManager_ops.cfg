SPECIFICATION Spec
CONSTANTS
    Releases <- ReleaseOrder
    Preferences = {TRUE}
    MaxFailures = 1
    None = None
INVARIANTS
    SuspensionHolds
    RunnerNeedsServer
PROPERTIES
    DataIsArchived
