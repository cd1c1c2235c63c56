SPECIFICATION FairSpec
CONSTANTS
  p1 = p1
  p2 = p2
  p3 = p3
  b1 = b1
  b2 = b2
  b3 = b3
  Procs = {p1, p2, p3}
  Blocks = {b1, b2, b3}
  Uses <- MCUses
  Vals = {v0,v1}
  NBUF = 2
  NoBlock = NoBlock
  NoProc = NoProc
INVARIANT BufferIsOurs
INVARIANT RefcntIsExact
PROPERTY OnlyHolderChanges
PROPERTY SleepersWake
CHECK_DEADLOCK FALSE
