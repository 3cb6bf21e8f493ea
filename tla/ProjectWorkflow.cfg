SPECIFICATION Spec
CONSTANTS
    r1 = r1
    r2 = r2
    r3 = r3
    s1 = s1
    Requests = {r1, r2, r3}
    Mixes <- Overlaps
    MaxRuns = 4
    MaxFaults = 1
    FaultKinds = {"work", "commit", "redis", "storage", "crash", "orphan"}
    Ports = {1, 2, 3}
    Nobody = Nobody
    SuiteIds = {s1}
    MaxVersion = 1
    NoSuite = NoSuite
INVARIANTS
    Settled
    StageThreeGate
    RuntimeRetryable
    ServerOwned
PROPERTIES
    RequestsEnd
CHECK_DEADLOCK FALSE
