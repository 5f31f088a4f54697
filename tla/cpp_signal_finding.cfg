SPECIFICATION SignalSpec
CONSTANTS
  Capacity = 2
  MaxOps = 3
  SqEntries = 2
  CqSpace = 2
  Slots = {s1}
  NilSlot = NilSlot
  MaxSqes = 2
INVARIANTS
  SubmittedOnce
CHECK_DEADLOCK FALSE
