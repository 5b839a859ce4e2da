SPECIFICATION Spec
CONSTANTS
  Requests = {r1}
  Calls = {c1, c2}
  Level <- SingleConfirm
  Behavior <- Discards
  Null = Null
  Delay = 0
  StuckAfter = 0
  WarnAfter = 1
  Ttl = 1
  MaxTime = 2
  LastCreation = 0
  MaxFaults = 2
INVARIANT NoRejectionMidRun
