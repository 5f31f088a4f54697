SPECIFICATION MCSpec
CONSTANTS
  Tasks = {painter, waiter, other}
  Calls <- MCCalls
  Parked <- MCParked
  Programs <- MCPrograms
  Pieces = 2
  painter = painter
  waiter = waiter
  other = other
  Spawned = {t1, t2}
  Root = root
  Scripts <- MCScripts
  Slots = 1
  MaxAwaits = 3
  Cap = 3
  Contents <- MCContents
  Bytes <- MCBytes
  Counts = {2, 3}
  Seeks <- MCSeeks
  Hows = {"none", "line", "auto"}
  MaxLen = 5
  MaxCalls = 3
INVARIANT WholeFrames
PROPERTIES ProgramsEnd IsAPlainFile
CHECK_DEADLOCK FALSE
