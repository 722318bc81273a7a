CONSTANTS
  c1 = c1  c2 = c2  Null = Null
  Conns = {c1, c2}
  MaxFd = 5
  InitEvents = 2
  MaxBacklog = 1
SPECIFICATION FairSpec
INVARIANTS PollerInv Registered
PROPERTIES InputServed BacklogServed
CHECK_DEADLOCK FALSE
