SPECIFICATION Spec
CONSTANTS
    a1 = a1
    a2 = a2
    f1 = f1
    f2 = f2
    c1 = c1
    Actions = {a1, a2}
    Navigations = {a1}
    Finishes = {f1, f2}
    Cancels = {c1}
    MaxFaults = 1
INVARIANTS
    NoBrowserLeft
    Settled
PROPERTIES
    OverUnlessFinishing
    TasksEnd
CHECK_DEADLOCK FALSE
