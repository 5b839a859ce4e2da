SPECIFICATION Spec
CONSTANTS
  Requests = {r1}
  Calls = {c1, c2}
  Level <- DualEscalate
  Behavior <- Escalates
  Null = Null
  Delay = 1
  StuckAfter = 1
  WarnAfter = 1
  Ttl = 2
  MaxTime = 2
  LastCreation = 0
  MaxFaults = 2
SYMMETRY CallSymmetry
INVARIANTS
  SecondApprovalWaited
  ExecutedOnce
  AuditedBeforeRun
  TimeoutFinal
  SafetyInv
PROPERTIES
  DeadClaimNeverRuns
  ImplementsOneShot
