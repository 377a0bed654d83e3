SPECIFICATION Spec
CONSTANTS
    Entries = {e1, e2, e3}
    CallIds = {k1, k2}
    Classes = {"read_only", "chat_schedule", "destructive"}
    Turns = {m1, m2}
    Requests = {r1, r2}
    MaxElevated = 1
    MaxRestarts = 1
    Null = Null
SYMMETRY Symmetry
INVARIANTS
    SettledOnce
    NamesakesAnswer
    BudgetBoundsCalls
PROPERTIES
    NothingSlips
    ImplementsDesk
