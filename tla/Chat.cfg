CONSTANTS
  Bytes = {0, 10, 13, 97, 98}
  Zero = 0
  InitialSize = 2
  ExtraBuf = 2
  Chunks <- MCChunks
  Lengths = {}
  Size = 18
  Modulus = 64
  Threshold = 2
  LineNo = 107
  Statements <- MCStatements
  Errnos = {0, 24}
  MaxReceived = 4
SPECIFICATION ChatSpec
INVARIANTS BuffersInv MessageIntact  IntegersReadBack
CHECK_DEADLOCK FALSE
