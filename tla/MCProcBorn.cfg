SPECIFICATION Spec
CONSTANTS
  NPROC = 2
  CPUs = {c1, c2}
PROPERTY BornNotKilled
