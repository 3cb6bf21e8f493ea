CONSTANTS
  c1 = c1
  c2 = c2
  c3 = c3
  CaseIds = {c1, c2, c3}
  Folded <- CapitalsFolded
  Scenarios = {"s1", "s2"}
  Expectations = {"success", "failure"}
  MaxIterations = 2
  MaxBatches = 2
  MaxScore = 1
  Threshold = 1
  Submissions <- TwoCases
  NoVerification = NoVerification
  NoCheckpoint = NoCheckpoint
SPECIFICATION Spec
PROPERTIES
  BestNeverLost
  MergeKeepsVerified
CHECK_DEADLOCK FALSE
