SPECIFICATION ServerSpec
CONSTANTS
  Conns <- MCConns
  painter = painter
  Nobody = nobody
  Patient = TRUE
  Burst = 3
  RecvLen = 2
  SockLen = 3
  DeferMax = 2
  MaxFrames = 4
  MaxPrints = 3
  MaxEvents = 0
PROPERTY PrintsFirst
CHECK_DEADLOCK FALSE
