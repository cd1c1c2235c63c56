SPECIFICATION Spec
CONSTANTS
  w1 = w1
  w2 = w2
  r1 = r1
  r2 = r2
  Writers = {w1, w2}
  Readers = {r1, r2}
  Holders <- MCHolders
  Killable = {w1}
  Bytes = {a, b}
  PIPESIZE = 2
  UINTMOD = 4
  MaxCount <- MCMaxCount
  NoProc = NoProc
INVARIANT ReaderSleepsOnlyIfEmpty
CHECK_DEADLOCK FALSE
