SPECIFICATION FairSpec
CONSTANTS
  Tasks = {t1, t2}
  NoTask = NoTask
  CqEntries = 2
  Slots = {s1}
  MaxSqe = 2
  MaxCall = 1
  MaxMin = 2
  Capped = {FALSE}
  MayFail = TRUE
  KindsUsed = {"inline", "slot", "poll", "cancel"}
  UserData <- MCUserData
  Shapes <- MCShapes
  Calls <- MCLiveCalls
PROPERTIES
  RingMovesOn
