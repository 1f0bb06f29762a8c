SPECIFICATION FairSpec
CONSTANTS
  p1 = p1
  p2 = p2
  d1 = d1
  d2 = d2
  d3 = d3
  w = w
  NoWorkflow = NoWorkflow
  NoCap = NoCap
  Policies = {p1, p2}
  Devices = {d1, d2}
  WorkflowOf <- Shared
  BatchCap <- CapOne
  Threshold = 1
  AlertMax = 1
  Scopes <- Fleet
  Saves <- AnySave
  MayViolate <- ThreePairs
  Passes = {"x"}
  Reviewers = {"r"}
  OnePass = TRUE
  QuietState = TRUE
  FailsAt = {"pull", "alerts", "count"}
  MaxFlips = 2
  MaxActs = 2
  MaxEvents = 4
INVARIANTS
  OneAutoLaunch
  FlagsHaveRows
  SharedWorkflowOnce
  WithinBatchCap
  DailyAlertLimit
PROPERTIES
  FlagsConverge
CHECK_DEADLOCK FALSE
