SPECIFICATION Spec
CONSTANTS
    Ids = {i1, i2}
    Revs = {v1, v2}
    Waiting = {"converge"}
    MaxFailures = 1
    MaxForeign = 1
    None = None
SYMMETRY Symmetry
INVARIANTS
    ServesOnlyWhole
    SuspensionHolds
    CanBeContinued
PROPERTIES
    IdentityIsKept
    InstalledIsApproved
    PurgeIsComplete
CONSTRAINT WaitingMatters
