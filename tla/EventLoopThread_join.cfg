CONSTANTS
  t1 = t1  t2 = t2  t3 = t3  main = main
  Tasks = {t1, t2, t3}
  Threads = {main}
  Owner = main
  OwnerTasks = {t1, t2}
SPECIFICATION ThreadFairSpec
PROPERTY DestructorReturns
CHECK_DEADLOCK FALSE
