SPECIFICATION Spec
CONSTANTS
  p1 = p1
  p2 = p2
  Procs = {p1, p2}
  Names = {"a", "b"}
  NINODES = 3
  NBLOCKS = 3
  DPB = 2
  MAXFILE = 1
  Workloads <- MCWorkloads
  Nobody = Nobody
 
INVARIANT InodesInUse
INVARIANT LocksAreOrdered
 
INVARIANT QuiescentRefsExact
