SPECIFICATION Spec
CONSTANTS
  NoOp = NoOp
  Ops = {p1}
  Polls = {p1}
  MayFail = FALSE
INVARIANTS
  WaitEntryAlive
CHECK_DEADLOCK FALSE
