SPECIFICATION Spec
CONSTANTS
  pair1 = pair1
  admin1 = admin1
  evaluator = evaluator
  manual = manual
  Pairs = {pair1}
  Manual = manual
  Admins = {admin1}
  Evaluator = evaluator
  AutoAssign = FALSE
  AutoResolve = TRUE
  AutoClose = TRUE
  Calm = {"update", "attach", "evaluate", "sla", "sync"}
  MaxCases = 1
  MaxTickets = 2
  MaxFlips = 2
  MaxActs = 1
INVARIANTS
  ResolvedFromOutside
CHECK_DEADLOCK FALSE
