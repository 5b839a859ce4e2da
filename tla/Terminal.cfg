SPECIFICATION Spec
CONSTANTS
  Bytes = {"x", "BS", "C-c", "CR", "ESC", "["}
  MaxLine = 2
  MaxRate = 3
  MaxChunk = 2
  MaxKeys = 5
  MaxQueue = 1
  MaxInFaults = 2
  Sockets = {c1, c2}
  RingCap = 1
  PumpRetries = 1
  MaxOpens = 3
  MaxOut = 2
  MaxRestarts = 1
  MaxRequests = 3
  MaxOpFaults = 1
SYMMETRY SocketSymmetry
INVARIANTS
  
  SessionsInv
  OpsInv
\* Keys, openings and requests are bounded: every behaviour comes to rest.
CHECK_DEADLOCK FALSE
