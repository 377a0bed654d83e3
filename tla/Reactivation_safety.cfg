SPECIFICATION Spec
CONSTANTS
    Timers = {t1, t2}
    PostTurns = {p1}
    PostKinds = {"stream", "sync", "approval"}
    TimerTurns = {c1, c2}
    Convs = {v1}
    Operators = {o1}
    MaxCrashes = 1
    MaxFaults = 1
    Null = Null
SYMMETRY Symmetry
INVARIANTS
    ContinuationsNeverOverlap
    FiresAtMostOnce
    RecordTellsTheTruth
    ResetStopsContinuations
PROPERTIES
    OffStopsContinuations
    ImplementsLedger
