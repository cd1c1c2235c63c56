SPECIFICATION Spec
CONSTANTS
  Procs = {p1, p2}
  Blocks = {b1, b2}
  Vals = {v0, v1}
  Zero = v0
  MAXOPBLOCKS = 1
  LOGSIZE = 3
  nlog = 3
  Torn = Torn
  NotCached = NotCached
  NoBlock = NoBlock
INVARIANT NoPanic
