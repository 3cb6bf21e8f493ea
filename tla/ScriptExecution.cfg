SPECIFICATION ScriptSpec
CONSTANTS
    g1 = g1
    j1 = j1
    j2 = j2
    a = a
    b = b
    Generations = {g1}
    NoGeneration = NoGeneration
    Selections <- Selected
    MadeBefore <- Kept
    NScripts = 3
    Controls = {a, b}
    StepsOf <- Steps
    Jobs = {j1, j2}
    MaxWorkers = 2
    CallsPerTest = 1
    CallsPerRun = 1
    MaxFaults = 1
PROPERTIES
    TicketsReproduced
    ReportComplete
    LearnedKept
SYMMETRY Interchangeable
CHECK_DEADLOCK FALSE
