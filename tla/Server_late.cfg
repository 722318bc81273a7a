CONSTANTS
  ThreadNum = 2
  Fds = {5, 6}
  MaxConns = 2
  Quiet = {}
  MaxPending = 0
  MaxCasts = 1
SPECIFICATION Spec
INVARIANTS MembersTouchNoLoop
CHECK_DEADLOCK FALSE
