SPECIFICATION Spec
CONSTANTS
  Keys = {k1, k2}
  Integrated = {k2}
  MaxIterations = 2
  MaxFailures = 2
  MaxHistory = 3
  PreserveLast = 2
  MaxCalls = 2
  MaxTurns = 4
  Tools = {"ping", "send"}
  StaticLevel <- MCStaticLevel
  HumanOnly = {}
  Guarded = {"send"}
  Reloads = {r1, r2}
  MaxEdits = 2
  MaxSignals = 2
  Consolidations = {j1, j2}
  Points = {0, 1, 3}
  MaxDistilled = 2
INVARIANTS
  TurnInv
  ConversationAccepted
  RecentTurnsVerbatim
  PolicyInv
  MemoryInv
SYMMETRY AgentSymmetry
\* A consolidation runs once: the memory comes to rest.
CHECK_DEADLOCK FALSE
