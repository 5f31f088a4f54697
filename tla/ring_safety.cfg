SPECIFICATION Spec
CONSTANTS
  Tasks = {t1, t2}
  NoTask = NoTask
  CqEntries = 2
  Slots = {s1}
  MaxSqe = 3
  MaxCall = 2
  MaxMin = 1
  Capped = {TRUE}
  MayFail = TRUE
  KindsUsed = {"path", "delay", "slot", "poll", "cancel"}
  UserData <- MCUserData
  Shapes <- MCShapes
  Calls <- MCCalls
SYMMETRY Symmetry
CONSTRAINT ThirdWhenFull
INVARIANTS
  AdmissionControl
  InflightExact
  SlotExclusion
  PopsWhatItCopied
  CancelledBeforeCancel
  NoLostWakeup
PROPERTIES
  NoFalseEnoent
  ImplementsContract
