SPECIFICATION LifecycleSpec
CONSTANTS
    Threads = {t1, t2}
    Ops = {"status", "extend", "reset", "kill", "reinstall", "init"}
    Extensions = {1, 2}
    MaxNow = 3
    MaxExpiry = 5
SYMMETRY Symmetry
PROPERTIES
    OnlyRacesRevive
    OnlyRacesTear
