CONSTANTS
  w1 = w1
  w2 = w2
  w3 = w3
  Workers = {w1, w2, w3}
  Ops = {"scan", "retry", "resume"}
  MaxRuns = 4
  Nobody = Nobody
SPECIFICATION FairSpec
INVARIANTS RunningHasScanner RetryDecisionHolds
PROPERTIES EveryRequestEnds
CHECK_DEADLOCK FALSE
