SPECIFICATION StdSpec
CONSTANTS
  Tasks = {root, t1}
  Root = root
  Hook = hook
  Cap = 1
  MaxCalls = 2
INVARIANTS
  NothingLost
CHECK_DEADLOCK FALSE
