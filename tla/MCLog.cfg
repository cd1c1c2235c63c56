SPECIFICATION FairSpec
CONSTANTS
  Procs = {p1, p2}
  Blocks = {b1, b2}
  Vals = {v0, v1}
  Zero = v0
  MAXOPBLOCKS = 2
  LOGSIZE = 4
  nlog = 4
  Torn = Torn
  NotCached = NotCached
  NoBlock = NoBlock
INVARIANT LogSpaceReserved
INVARIANT QuiescentIsDurable
INVARIANT RecyclableIsClean
PROPERTY LogProgress
PROPERTY RefinesAtomicDisk
