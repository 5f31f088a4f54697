SPECIFICATION MCSpec
CONSTANTS
  Count = 2
  MaxGen = 2
  Files = {f1, f2}
  Adoptable = {d1}
  NoFile = NoFile
  Slots = {s1, s2}
  MaxJobs = 2
  MaxOpens = 3
  MayFail = TRUE
  Tasks = {root, t1}
  Root = root
  Hook = hook
  Cap = 1
  MaxCalls = 2
  Conns <- MCConns
  painter = painter
  reader = reader
  Nobody = nobody
  Patient = TRUE
  Burst = 2
  RecvLen = 2
  SockLen = 3
  DeferMax = 1
  MaxFrames = 4
  MaxPrints = 3
  MaxEvents = 1
  Clients = {c1, c2, c3}
  Daemons = {w1, w2, w3}
INVARIANTS
  ClaimsExact
  ClaimNamesItsFile
  ReadsFromItsCookie
  NoEarlyReuse
  NothingLost
  OneReplyEach
  ClaimsGivenBack
  OneDaemon
PROPERTIES
  NoStaleBusy
  PrintsInOrder
CHECK_DEADLOCK FALSE
