SPECIFICATION Spec
CONSTANTS
    Releases <- ReleaseOrder
    MaxFailures = 0
    None = None
    Empty = Empty
PROPERTIES
    UpdateInstalls
