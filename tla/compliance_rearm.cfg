SPECIFICATION Spec
CONSTANTS
  p1 = p1
  p2 = p2
  d1 = d1
  d2 = d2
  d3 = d3
  w = w
  NoWorkflow = NoWorkflow
  NoCap = NoCap
  Policies = {p1}
  Devices = {d1, d2, d3}
  WorkflowOf <- Shared
  BatchCap <- Uncapped
  Threshold = 3
  AlertMax = 1
  Scopes <- Fleet
  Saves <- ReArm
  MayViolate <- AnyPair
  Passes = {"x"}
  Reviewers = {"r"}
  OnePass = TRUE
  QuietState = TRUE
  FailsAt = {"pull"}
  MaxFlips = 3
  MaxActs = 1
  MaxEvents = 4
PROPERTIES
  TripNeedsNewFailure
CHECK_DEADLOCK FALSE
