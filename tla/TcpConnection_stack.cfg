CONSTANTS
  m1 = m1  m2 = m2  main = main
  Msgs = {m1, m2}
  MsgLen = 2
  SndBuf = 2
  Threads = {main}
  LoopCalls = {"send"}
  MaxPend = 2
  MaxInbox = 1
SPECIFICATION Spec
INVARIANT NoStackDestruction
CHECK_DEADLOCK FALSE
