SPECIFICATION Spec
CONSTANTS
    r1 = r1
    r2 = r2
    r3 = r3
    e1 = e1
    e2 = e2
    s1 = s1
    w1 = w1
    w2 = w2
    t1 = t1
    t2 = t2
    NoState = NoState
    Agents = {r1, r2}
    Mixes <- Overlaps
    Epics = {e1}
    Stories = {s1}
    Wordings = {w1, w2}
    FirstWording = w1
    Texts = {t1}
    Plans <- OtherPlan
    Verdicts = {"passed", "retry", "review", "failed"}
    Budgets = {1}
    DefaultRetries = 1
    Attempts = {1}
    FinalModes = {TRUE}
    MaxFaults = 1
    Planning = 2
    EpicNode = 2
INVARIANTS
    CacheCommitted
    CompletedJudged
    HistorySound
    Settled
PROPERTIES
    RequestsEnd
CHECK_DEADLOCK FALSE
