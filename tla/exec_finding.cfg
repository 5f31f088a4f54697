SPECIFICATION Spec
CONSTANTS
  Tasks = {t1, t2}
  Root = root
  Scripts <- MCBlockOnThenRun
  Slots = 1
  MaxAwaits = 3
INVARIANT StallIsReal
CHECK_DEADLOCK FALSE
