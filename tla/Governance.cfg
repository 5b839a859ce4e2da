SPECIFICATION Spec
CONSTANTS
  Appends = {a1, a2, a3}
  Contents = {v1, v2}
  Hash <- FreeHash
  Genesis <- FreeGenesis
  None = None
  MaxRows = 3
  MaxCorrupt = 2
  Procs = {p1, p2}
  Cron = Cron
  Changes = {q1}
  HoursAsked <- OutOfRange
  SemiHours = 2
  AutoHours = 1
  Hour = 1
  MaxRelaxed = 1
  Null = Null
  MaxTime = 2
  MaxFaults = 1
INVARIANTS
  ChainBreaksOnlyWhereCorrupted
  ChainLockInv
  AutonomyInv
PROPERTIES
  BrokenChainIsLocked
  ExpiredModeReverts
