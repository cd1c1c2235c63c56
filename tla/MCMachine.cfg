SPECIFICATION MachineSpec
CONSTANTS
  NPROC = 2
  NPAGES = 18
  PGSIZE = 2
  FAN = 2
  USERSTACK = 1
  MaxSz = 7
  MAXARG = 1
  Programs <- MCPrograms
  CPUs = {c1, c2}
  Threads = {t1, t2}
  Machines <- MCMachines
  dev = dev
  None = None
  HDR = 2
  MINCORE = 3
  TOP = 11
  MaxBytes = 4
INVARIANT CopiesBytewise
INVARIANT HeapIsSound
INVARIANT InterruptsNest
INVARIANT MemoryAccounted
 
PROPERTY Interruptible
 
