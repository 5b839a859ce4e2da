SPECIFICATION FairSpec
CONSTANTS
  Tickets = {t1, t2, t3}
  MaxConcurrent = 2
INVARIANTS
  LedgerInv
  DependenciesDelivered
  ClosingInv
PROPERTY RunEnds
\* A behaviour is one run: it may stop once the run has ended.
CHECK_DEADLOCK FALSE
