SPECIFICATION Spec
CONSTANTS
  d1 = d1
  d2 = d2
  None = None
  Devices = {d1}
  Targets = 1
  DeviceOf <- OneTarget
  StepCount = 3
  StepKind <- CycleKind
  OnSuccess <- CycleOnSuccess
  OnFailure <- CycleOnFailure
  HasRecovery = TRUE
  RecoverySteps = 1
  Restorable = {3}
  LogCap = 3
  Concurrency = 1
  MaxRows = 3
  MaxCrashes = 1
  MaxFaults = 2
  MaxChanges = 1
  ParkSettles = FALSE
  AnswersInTime = FALSE
  AnswersAfterPark = FALSE
INVARIANTS
  TypeOK
  AtFollowsLog
  LogBounded
  SnapshotComplete
CHECK_DEADLOCK FALSE
