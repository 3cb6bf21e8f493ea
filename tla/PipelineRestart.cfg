CONSTANTS
  SuiteIds = {a, b}
  MaxVersion = 2
  Workers = {w1}
  DepRuns = {d1}
  Ops = {"run", "retry", "force_rerun"}
  Faults = {"fail", "lost", "restart", "deploy"}
  NoSuite = NoSuite
  NoDep = NoDep
  Nobody = Nobody
SPECIFICATION Spec
INVARIANT PublishedCoherent
CHECK_DEADLOCK FALSE
