SPECIFICATION FairSpec
CONSTANTS
  d1 = d1
  d2 = d2
  None = None
  Devices = {d1}
  Targets = 1
  DeviceOf <- OneTarget
  StepCount = 3
  StepKind <- WaitKind
  OnSuccess <- WaitOnSuccess
  OnFailure <- WaitOnFailure
  HasRecovery = FALSE
  RecoverySteps = 0
  Restorable = {}
  LogCap = 4
  Concurrency = 1
  MaxRows = 1
  MaxCrashes = 1
  MaxFaults = 0
  MaxChanges = 0
  ParkSettles = TRUE
  AnswersInTime = TRUE
  AnswersAfterPark = TRUE
PROPERTIES
  ParkedIsResumed
CHECK_DEADLOCK FALSE
