SPECIFICATION Spec
CONSTANTS
  d1 = d1
  d2 = d2
  None = None
  Devices = {d1}
  Targets = 1
  DeviceOf <- OneTarget
  StepCount = 3
  StepKind <- ScriptKind
  OnSuccess <- ScriptOnSuccess
  OnFailure <- ScriptOnFailure
  HasRecovery = FALSE
  RecoverySteps = 0
  Restorable = {}
  LogCap = 4
  Concurrency = 1
  MaxRows = 2
  MaxCrashes = 0
  MaxFaults = 0
  MaxChanges = 0
  ParkSettles = TRUE
  AnswersInTime = FALSE
  AnswersAfterPark = TRUE
INVARIANTS
  TimedOutMeansUnresolved
CHECK_DEADLOCK FALSE
