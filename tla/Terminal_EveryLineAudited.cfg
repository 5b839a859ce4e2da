SPECIFICATION Spec
CONSTANTS
  Bytes = {"x", " ", "C-w", "CR"}
  MaxLine = 6
  MaxRate = 8
  MaxChunk = 2
  MaxKeys = 6
  MaxQueue = 1
  MaxInFaults = 0
  Sockets = {c1, c2}
  RingCap = 1
  PumpRetries = 1
  MaxOpens = 1
  MaxOut = 2
  MaxRestarts = 1
  MaxRequests = 0
  MaxOpFaults = 1
INVARIANT EveryLineAudited
CHECK_DEADLOCK FALSE
