SPECIFICATION LockSpec
CONSTANTS
  NPROC = 3
  CPUs = {c1, c2}
INVARIANT NoMissedExit
INVARIANT ProcessTree
INVARIANT StacksAndLocks
PROPERTY WaitLockReleased
