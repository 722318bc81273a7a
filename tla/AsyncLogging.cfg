CONSTANTS
  l1 = l1  l2 = l2  l3 = l3  l4 = l4
  Lines = {l1, l2, l3, l4}
  NullPtr = NullPtr
  BufLines = 1
  MaxBuffers = 3
  RollSize = 2
SPECIFICATION FairSpec
INVARIANTS LogInv StopCompletesLog FirstWritesInOrder
PROPERTY AppendedIsWritten
CHECK_DEADLOCK FALSE
