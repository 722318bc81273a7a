CONSTANTS
  t1 = t1  t2 = t2  t3 = t3  a = a  b = b
  Tasks = {t1, t2, t3}
  Threads = {a, b}
SPECIFICATION FairSpec
INVARIANTS LoopInv NoLostWakeup
PROPERTIES ExecutorSpec QueuedIsRun QuitEndsLoop
CHECK_DEADLOCK FALSE
