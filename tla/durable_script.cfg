SPECIFICATION FairSpec
CONSTANTS
  d1 = d1
  d2 = d2
  None = None
  Devices = {d1, d2}
  Targets = 2
  DeviceOf <- TwoTargets
  StepCount = 3
  StepKind <- ScriptKind
  OnSuccess <- ScriptOnSuccess
  OnFailure <- ScriptOnFailure
  HasRecovery = FALSE
  RecoverySteps = 0
  Restorable = {}
  LogCap = 4
  Concurrency = 1
  MaxRows = 4
  MaxCrashes = 0
  MaxFaults = 0
  MaxChanges = 0
  ParkSettles = TRUE
  AnswersInTime = TRUE
  AnswersAfterPark = FALSE
INVARIANTS
  OneContinuation
PROPERTIES
  RunPromise
  RunCompletes
CHECK_DEADLOCK FALSE
