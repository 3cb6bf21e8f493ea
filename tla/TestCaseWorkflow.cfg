SPECIFICATION Spec
CONSTANTS
    w1 = w1
    given = given
    corrected = corrected
    Workflows = {w1}
    Inputs = {given}
    Corrected = given
    MaxAttempts = 2
    MaxTasks = 3
    MaxRestarts = 1
INVARIANTS
    CachedValidated
    CompletedValidated
    SettledWhenIdle
PROPERTIES
    OnlyOrphansRevive
    TasksEnd
CHECK_DEADLOCK FALSE
