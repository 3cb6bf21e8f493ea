CONSTANTS
  a = a
  b = b
  ExistingRows <- UnderstoodOnly
  SuiteIds <- Ids
  MaxVersion = 1
  Workers = {w1}
  DepRuns = {d1}
  Ops = {"retry", "force_rerun", "generate", "retry_generation", "verify", "optimize"}
  Faults = {"fail"}
  NoSuite = NoSuite
  NoDep = NoDep
  Nobody = Nobody
SPECIFICATION FairSpecExisting
INVARIANT PlanMatchesSuite
PROPERTY EveryRunEnds
CHECK_DEADLOCK FALSE
