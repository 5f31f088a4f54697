SPECIFICATION Spec
CONSTANTS
  Tasks = {t1, t2}
  NoTask = NoTask
  CqEntries = 2
  Slots = {s1}
  MaxSqe = 2
  MaxCall = 1
  MaxMin = 1
  Capped = {TRUE}
  MayFail = TRUE
  KindsUsed = {"inline", "delay", "poll"}
  UserData <- MCUserData
  Shapes <- MCShapes
  Calls <- MCCalls
INVARIANT
  EveryCompletionWakes
