SPECIFICATION SafetySpec
CONSTANTS
  base = base
  extra = extra
  lock = lock
  watch = watch
  NoPolicy = NoPolicy
  Chains = {"c1"}
  Steps <- AllSteps
  FirstStack <- WithPrimary
  EditedStacks <- Edited
  MaxSteps = 4
  MaxFaults = 2
  MaxPulls = 2
  MaxEdits = 1
  QuietSteps = TRUE
  FreshPulls = TRUE
  Numbers <- MCNumbers
  Versions <- MCVersions
  MaxFindings = 4
  p1 = p1
  p2 = p2
  Pages = {p1, p2}
  Limits = {1, 3}
  Default = 2
  TokenLife = 1
  NoStamp = NoStamp
  Unknown = Unknown
  Told = FALSE
  e1 = e1
  e2 = e2
  x1 = x1
  x2 = x2
  Entries = {e1, e2}
  Destinations = {x1, x2}
  Never = Never
  Day = 3
  Retention = 2
  SettledReads = TRUE
  MaxTime = 7
  MaxOutages = 1
  MaxSwitches = 1
SYMMETRY TabsAlike
INVARIANTS
  Restorable
  MonitorIsFresh
  ConditionsFitTogether
  IdlePageIsSignedOut
  NothingSkipped
  NothingLostUnmissed
PROPERTIES
  AddKeepsOthers
  TopOutranks
  WorseNeverScoresLower
  AttendedStaysSignedIn
CHECK_DEADLOCK FALSE
