SPECIFICATION FairSpec
CONSTANTS
  f1 = f1
  Agent = Agent
  t1 = t1
  ToolCalls = {t1}
  ForcedPasses = {f1}
  NoList = NoList
  MaxInputs = 3
  MaxFaults = 1
INVARIANTS
  AlarmFollowsSender
PROPERTIES
  ListsNeverGoBack
  VerdictConverges
CHECK_DEADLOCK FALSE
