SPECIFICATION FairSpec
CONSTANTS
  pair1 = pair1
  admin1 = admin1
  evaluator = evaluator
  manual = manual
  Pairs = {pair1}
  Manual = manual
  Admins = {admin1}
  Evaluator = evaluator
  AutoAssign = FALSE
  AutoResolve = TRUE
  AutoClose = TRUE
  Calm = {"update", "evaluate", "sla"}
  MaxCases = 2
  MaxTickets = 1
  MaxFlips = 2
  MaxActs = 1
INVARIANTS
  OneCasePerPair
  ClosedAtAgrees
  NotifiedOncePerClock
PROPERTIES
  ViolationsReachOpenCase
  BreachesAreNotified
CHECK_DEADLOCK FALSE
