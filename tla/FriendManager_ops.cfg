SPECIFICATION Spec
CONSTANTS
    Releases <- ReleaseOrder
    MaxFailures = 2
    None = None
    Empty = Empty
INVARIANTS
    VersionsAgree
    ActiveIsServed
PROPERTIES
    FailureIsUndone
    SuspensionIsKept
