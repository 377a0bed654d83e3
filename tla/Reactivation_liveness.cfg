SPECIFICATION FairSpec
CONSTANTS
    Timers = {t1}
    PostTurns = {p1}
    PostKinds = {"stream"}
    TimerTurns = {c1}
    Convs = {v1}
    Operators = {o1}
    MaxCrashes = 1
    MaxFaults = 0
    Null = Null
PROPERTIES
    QueuedTimerLeaves
    ClaimedTimerSettles
