SPECIFICATION MCSpec
CONSTANTS
  Capacity = 2
  MaxOps = 3
  SqEntries = 2
  CqSpace = 1
  Slots = {s1}
  NilSlot = NilSlot
  MaxSqes = 3
  Worlds <- MCWorlds
  Scripts <- MCScripts
  SlotLen = 2
  Page = 2
  MaxFaults = 1
  MaxOthers = 1
  Aims <- MCAims
  NewNames = {2}
INVARIANTS
  SlotsConserved
  CookiesNameTheirOps
  OnceAndItsOwn
  OkIsDone
  NothingLeftOpen
PROPERTIES
  RuntimeEnds
  RemovesOnlyBelow
CHECK_DEADLOCK FALSE
