CONSTANTS
  Addrs = {1, 2, 3}
  Whens = {0, 1, 3}
  Delays = {0, 1, 2}
  NsPerSec = 2
  MaxTime = 4
SPECIFICATION FairSpec
INVARIANTS TimerInv Armed
PROPERTIES DueTimersRun AlarmSpec
CHECK_DEADLOCK FALSE
