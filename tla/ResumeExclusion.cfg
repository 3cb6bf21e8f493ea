CONSTANTS
  a = a
  b = b
  ExistingRows <- SomeExisting
  SuiteIds <- OneId
  MaxVersion = 2
  Workers = {w1, w2, w3}
  DepRuns = {d1, d2}
  Ops = {"run", "understand"}
  Faults = {"fail", "lost", "restart", "deploy"}
  NoSuite = NoSuite
  NoDep = NoDep
  Nobody = Nobody
SPECIFICATION SpecExisting
INVARIANTS ExclusiveExecution RowInHandIsCurrent
PROPERTIES Stage3Kept
SYMMETRY Interchangeable
CHECK_DEADLOCK FALSE
