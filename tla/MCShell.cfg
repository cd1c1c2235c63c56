SPECIFICATION FairSpec
CONSTANTS
  MAXARGS = 4
  Sessions <- MCSessions
  PIPESIZE = 1
  TICKMOD = 4
  FirstTick = 3
  MaxWait = 1
INVARIANT FilesAreExact
 
PROPERTY SessionFinishes
PROPERTY SleepsLongEnough
CHECK_DEADLOCK FALSE
