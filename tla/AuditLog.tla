------------------------------ MODULE AuditLog ------------------------------
(***************************************************************************)
(* audit_log, the hash chain every decision of Jin_Core is written to:     *)
(* AuditService.appendRow from several processes at once (two replicas     *)
(* live together during a rolling update), the daily                       *)
(* ChainVerificationService.verifyDaily, the persisted lock it sets, and   *)
(* stored rows that go bad.                                                *)
(***************************************************************************)
EXTENDS Integers, Sequences, FiniteSets

CONSTANTS
  Appends,      \* concurrent appendRow calls, of one or of several processes
  Contents,     \* canonicalised row contents
  Hash(_, _),   \* computeHash: sha256 of the previous hash and the content
  Genesis,      \* GENESIS_HASH
  None,         \* nobody holds the advisory lock
  MaxRows,      \* bound: rows in the log
  MaxCorrupt    \* bound: stored rows that go bad

ASSUME BoundsAssumption == MaxRows \in Nat /\ MaxCorrupt \in Nat
ASSUME NoneAssumption == None \notin Appends
ASSUME AppendsAssumption == IsFiniteSet(Appends)

VARIABLES
  log,        \* audit_log by id: content, prevHash, currentHash
  locked,     \* audit_chain_lock.locked, "yes" or "no"
  advisory,   \* who holds pg_advisory_xact_lock
  app,        \* the appends: control and locals
  ver,        \* verifyDaily: control, and the row it found broken
  corrupted,  \* history: ids of rows whose stored content changed
  late        \* history: rows written since the chain was last locked, while locked

auditVars == <<log, locked, advisory, app, ver, corrupted, late>>

IdleAppend(v) == [pc |-> "idle", content |-> v, prev |-> Genesis]
SomeContent == CHOOSE v \in Contents : TRUE

-----------------------------------------------------------------------------
(* hash-chain.ts *)

\* Row i breaks the chain: the tests of one round of verifyChain's loop.
RowBreaks(rows, i) ==
  \/ rows[i].prev # (IF i = 1 THEN Genesis ELSE rows[i - 1].hash)
  \/ rows[i].hash # Hash(rows[i].prev, rows[i].content)

\* verifyChain: the first row that breaks the chain, 0 if none does.
BrokenAt(rows) ==
  LET broken == {i \in 1..Len(rows) : RowBreaks(rows, i)}
  IN IF broken = {} THEN 0 ELSE CHOOSE i \in broken : \A j \in broken : i <= j

Valid(rows) == \A i \in 1..Len(rows) : ~RowBreaks(rows, i)

-----------------------------------------------------------------------------
(* AuditService.appendRow *)

\* Mutant: the lock is not looked at.
CheckLockBlind(a, v) ==
  /\ app[a].pc = "idle"
  /\ Len(log) < MaxRows
  /\ app' = [app EXCEPT ![a] = [pc |-> "begin", content |-> v, prev |-> Genesis]]
  /\ UNCHANGED <<log, locked, advisory, ver, corrupted, late>>

\* isLocked is read before the transaction begins, outside the advisory lock.
CheckLock(a, v) ==
  /\ app[a].pc = "idle"
  /\ locked = "no"
  /\ Len(log) < MaxRows
  /\ app' = [app EXCEPT ![a] = [pc |-> "begin", content |-> v, prev |-> Genesis]]
  /\ UNCHANGED <<log, locked, advisory, ver, corrupted, late>>

\* Mutant: the transaction does not wait for the advisory lock.
AcquireUnlocked(a) ==
  /\ app[a].pc = "begin"
  /\ app' = [app EXCEPT ![a].pc = "read"]
  /\ advisory' = a
  /\ UNCHANGED <<log, locked, ver, corrupted, late>>

Acquire(a) ==
  /\ app[a].pc = "begin"
  /\ advisory = None
  /\ advisory' = a
  /\ app' = [app EXCEPT ![a].pc = "read"]
  /\ UNCHANGED <<log, locked, ver, corrupted, late>>

ReadLast(a) ==
  /\ app[a].pc = "read"
  /\ app' = [app EXCEPT ![a].pc = "insert",
                        ![a].prev = IF Len(log) = 0 THEN Genesis ELSE log[Len(log)].hash]
  /\ UNCHANGED <<log, locked, advisory, ver, corrupted, late>>

\* The insert and the commit, which frees the advisory lock.
InsertRow(a) ==
  /\ app[a].pc = "insert"
  /\ log' = Append(log, [content |-> app[a].content, prev |-> app[a].prev,
                         hash |-> Hash(app[a].prev, app[a].content)])
  /\ late' = IF locked = "yes" THEN late + 1 ELSE late
  /\ advisory' = None
  /\ app' = [app EXCEPT ![a] = IdleAppend(SomeContent)]
  /\ UNCHANGED <<locked, ver, corrupted>>

\* The connection breaks or the process dies: rollback, the lock is freed.
AppendDies(a) ==
  /\ app[a].pc # "idle"
  /\ advisory' = IF advisory = a THEN None ELSE advisory
  /\ app' = [app EXCEPT ![a] = IdleAppend(SomeContent)]
  /\ UNCHANGED <<log, locked, ver, corrupted, late>>

-----------------------------------------------------------------------------
(* ChainVerificationService *)

VerifyRead ==
  /\ ver.pc = "idle"
  /\ LET b == BrokenAt(log) IN
     ver' = [pc |-> IF b = 0 THEN "idle" ELSE "lock", at |-> b]
  /\ UNCHANGED <<log, locked, advisory, app, corrupted, late>>

\* Mutant: the corruption is only logged.
VerifyLogs ==
  /\ ver.pc = "lock"
  /\ ver' = [pc |-> "idle", at |-> 0]
  /\ UNCHANGED <<log, locked, advisory, app, corrupted, late>>

VerifyLock ==
  /\ ver.pc = "lock"
  /\ locked' = "yes"
  /\ late' = IF locked = "yes" THEN late ELSE 0
  /\ ver' = [pc |-> "idle", at |-> 0]
  /\ UNCHANGED <<log, advisory, app, corrupted>>

\* Manual recovery, from a runbook.
Unlock ==
  /\ locked = "yes"
  /\ locked' = "no"
  /\ late' = 0
  /\ UNCHANGED <<log, advisory, app, ver, corrupted>>

\* The stored content of a row changes under its hashes (external: the disk, a
\* restore, a statement outside the application).
Corrupt(i, v) ==
  /\ Cardinality(corrupted) < MaxCorrupt
  /\ i \in 1..Len(log)
  /\ log[i].content # v
  /\ i \notin corrupted
  /\ log' = [log EXCEPT ![i].content = v]
  /\ corrupted' = corrupted \cup {i}
  /\ UNCHANGED <<locked, advisory, app, ver, late>>

-----------------------------------------------------------------------------
AuditInit ==
  /\ log = <<>>
  /\ locked = "no"
  /\ advisory = None
  /\ app = [a \in Appends |-> IdleAppend(SomeContent)]
  /\ ver = [pc |-> "idle", at |-> 0]
  /\ corrupted = {}
  /\ late = 0

AuditNext ==
  \/ \E a \in Appends :
       \/ \E v \in Contents : CheckLock(a, v)
       \/ Acquire(a) \/ ReadLast(a) \/ InsertRow(a) \/ AppendDies(a)
  \/ VerifyRead \/ VerifyLock \/ Unlock
  \/ \E i \in 1..Len(log) : \E v \in Contents : Corrupt(i, v)

\* The cron fires every day, and what it started it finishes.
AuditFairness == WF_auditVars(VerifyRead) /\ WF_auditVars(VerifyLock)

AuditSpec == AuditInit /\ [][AuditNext]_auditVars /\ AuditFairness

-----------------------------------------------------------------------------
(* Properties. *)

\* Two replicas appending at once, and dying at any point, never fork the chain or
\* leave a gap: only rows whose stored content changed break it, each of them
\* does, and the rows after them still link.
ChainBreaksOnlyWhereCorrupted ==
  \A i \in 1..Len(log) : RowBreaks(log, i) <=> i \in corrupted

\* verifyDaily never blames a sound row, so the log is never locked for nothing,
\* whatever is appended while the verification runs.
AlarmIsReal ==
  /\ ver.pc = "lock" => ver.at \in corrupted
  /\ locked = "yes" => corrupted # {}

\* Rows still reach a locked chain, but only those of appends that had read the
\* lock before it was set: at most one per call in flight.
LateRowsInFlight ==
  locked = "yes" =>
    late + Cardinality({a \in Appends : app[a].pc # "idle"}) <= Cardinality(Appends)

\* The lock of the chain is set for a reason and stops what comes after it: no alarm without a
\* corrupted row, and no row after the lock but those of appends in flight.
ChainLockInv == AlarmIsReal /\ LateRowsInFlight

\* A broken chain is locked at the latest by a later verification.
BrokenChainIsLocked == ~Valid(log) ~> locked = "yes"
=============================================================================
