CONSTANTS
  t1 = t1  t2 = t2  t3 = t3  main = main
  Tasks = {t1, t2, t3}
  Threads = {main}
  Owner = main
  OwnerTasks = {t1, t2}
SPECIFICATION ThreadFairSpec
INVARIANTS ThreadInv OwnerTasksRun
PROPERTY EnteredLoopIsJoined
CHECK_DEADLOCK FALSE
