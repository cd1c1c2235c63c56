SPECIFICATION FairSpec
CONSTANTS
  NPROC = 3
  CPUs = {c1}
PROPERTY InitKeepsReaping
