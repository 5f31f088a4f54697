SPECIFICATION MCSpec
CONSTANTS
  NoOp = NoOp
  Ops = {p1, p2, w1}
  Polls = {p1, p2}
  MayFail = TRUE
  Tasks = {t1, t2}
  NoTask = NoTask
  Dirs = {1, 2, 3}
  Mounts = {"m1"}
  MountOf <- MCMountOf
  Submissions <- MCSubmissions
  NsPerMs = 2
  MsPerJiffy = 2
  I32Max = 4
  U32Max = 9
  MaxOps = 2
  MaxTime = 20
  Timeouts <- MCTimeouts
  Threads = {t1, t2}
  Workers = {k1}
  Nobody = nobody
  Requests <- MCRequests
  Sqes <- MCSqes
  PageSize = 2
  BufLen = 2
  AnswerLen = 3
  Align = 2
  FileLen = 3
  Directory <- MCDirectory
  U64Max = 6
  I64Max = 3
  MaxSq = 1
  MaxCq = 2
  MaxSlotSize = 4
  MaxSlotCount = 2
  MaxArena = 8
INVARIANTS
  RefsExact
  AnsweredOnce
  WaitEntryAliveWhileOpen
  LocksKept
  Balanced
  NeverEarly
  BytesLand
  MappedOnceWhole
PROPERTIES
  ClosedUnpins
  PathOpsEnd
  CallsEnd
CHECK_DEADLOCK FALSE
