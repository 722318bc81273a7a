CONSTANTS
  ThreadNum = 2
  Fds = {5, 6}
  MaxConns = 2
  Quiet = {1}
  MaxPending = 0
  MaxCasts = 1
SPECIFICATION FairSpec
INVARIANTS ServerInv SnapshotIsClosed NoDescriptorLeak
PROPERTIES IdleIsClosed ShutdownCompletes
CHECK_DEADLOCK FALSE
