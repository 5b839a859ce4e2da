SPECIFICATION Spec
CONSTANTS
  MaxSession = 3
  MaxWindow = 1
  MaxTurns = 4
  MaxOverlap = 2
  MaxChatFaults = 1
  MaxActivations = 2
  MaxDays = 2
  MaxAlertFaults = 1
  Publishes = {p1, p2, p3}
  MaxEntries = 2
  MaxPreviewFaults = 2
  MaxNights = 3
  MaxNightFaults = 3
  Catalog = {"m1", "m2"}
  WithEffort = {"m1"}
  Requests = {q1, q2}
  MaxPrefFaults = 2
  SnapshotCalls = {s1, s2}
  MaxSnapshots = 1
  MaxSaved = 3
  MaxSnapshotFaults = 1
  Tickets = {t1}
  Handlers = {h1, h2}
  MaxRotations = 2
  MaxPushFaults = 1
SYMMETRY HandlerSymmetry
INVARIANTS
  ChatInv
  AlertInv
  PreviewInv
  
  PreferenceInv
  SnapshotInv
  
\* Texts, activations, days, publishes and tickets are bounded: every behaviour comes to rest.
CHECK_DEADLOCK FALSE
