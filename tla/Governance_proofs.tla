------------------------- MODULE Governance_proofs -------------------------
(***************************************************************************)
(* The hash chain of audit_log, and after it the autonomy modes, proved    *)
(* for every number of concurrent calls, every length of the log, any      *)
(* number of rows that go bad, every limit and every clock bound.          *)
(*                                                                         *)
(* That only a corrupted row breaks the chain, and that the chain is never *)
(* locked without one, holds for any hash at all: it rests on the advisory *)
(* lock alone.  That every corrupted row is found needs a hash under which *)
(* two contents after the same row differ (CollisionFree).                 *)
(*                                                                         *)
(* What the emergency brake, the expiry and the dual approval of a mode    *)
(* promise does not depend on when a call read the row.                    *)
(***************************************************************************)
EXTENDS AuditLog, Autonomy, TLAPS, FiniteSetTheorems, SequenceTheorems, WellFoundedInduction

\* sha256 taken as ideal: after the same previous hash two contents never collide.
CollisionFree ==
  \A p : \A v, w \in Contents : Hash(p, v) = Hash(p, w) => v = w

-----------------------------------------------------------------------------
(* The inductive invariant. *)

\* A row of audit_log whose hashes are in D.
RowType(D) == [content : Contents, prev : D, hash : D]

\* Types, for a set D of the digests in use.
TypedBy(D) ==
  /\ Genesis \in D
  /\ log \in Seq(RowType(D))
  /\ app \in [Appends -> [pc : {"idle", "begin", "read", "insert"},
                          content : Contents \cup {SomeContent}, prev : D]]
  /\ \A a \in Appends : app[a].pc # "idle" => app[a].content \in Contents
  /\ advisory \in Appends \cup {None}
  /\ locked \in {"yes", "no"}
  /\ ver \in [pc : {"idle", "lock"}, at : Nat]
  /\ corrupted \subseteq 1..Len(log)
  /\ late \in Nat

AuditTypeOK == \E D : TypedBy(D)

\* The hash the next row has to continue.
LastHash == IF Len(log) = 0 THEN Genesis ELSE log[Len(log)].hash

\* pg_advisory_xact_lock: who is between the lock and the commit holds it.
AdvisoryHeld ==
  \A a \in Appends : app[a].pc \in {"read", "insert"} <=> advisory = a

\* What the holder has read is still the last hash when it inserts.
PrevIsLast == \A a \in Appends : app[a].pc = "insert" => app[a].prev = LastHash

\* Every row continues the row before it.
RowsLink ==
  \A i \in 1..Len(log) : log[i].prev = IF i = 1 THEN Genesis ELSE log[i - 1].hash

\* A row nobody touched carries the hash of its own content.
SoundRowsHash ==
  \A i \in 1..Len(log) : i \notin corrupted => log[i].hash = Hash(log[i].prev, log[i].content)

\* A row that went bad does not.
CorruptRowsShow ==
  \A i \in corrupted : log[i].hash # Hash(log[i].prev, log[i].content)

ChainInv ==
  /\ AuditTypeOK /\ AdvisoryHeld /\ PrevIsLast /\ RowsLink /\ SoundRowsHash
  /\ AlarmIsReal /\ LateRowsInFlight

-----------------------------------------------------------------------------
(* Types. *)

\* An idle append is well typed, whatever digests are in use.
LEMMA TypeInit == AuditInit => TypedBy({Genesis})
  BY DEF AuditInit, TypedBy, IdleAppend

\* A nonempty set of row numbers has a least element, which verifyChain reports.
LEMMA BrokenAtType ==
  ASSUME NEW D, TypedBy(D)
  PROVE  /\ BrokenAt(log) \in Nat
         /\ BrokenAt(log) # 0 => BrokenAt(log) \in 1..Len(log) /\ RowBreaks(log, BrokenAt(log))
<1> DEFINE broken == {i \in 1..Len(log) : RowBreaks(log, i)}
<1>1. Len(log) \in Nat
  BY DEF TypedBy
<1>2. CASE broken = {}
  BY <1>2 DEF BrokenAt
<1>3. CASE broken # {}
  <2>1. broken \subseteq Nat
    BY <1>1
  <2>2. PICK x \in broken : \A y \in broken : ~(<<y, x>> \in OpToRel(<, Nat))
    <3> HIDE DEF broken
    <3> QED  BY <1>3, <2>1, NatLessThanWellFounded, WFMin
  <2>3. \A y \in broken : x <= y
    <3> SUFFICES ASSUME NEW y \in broken  PROVE x <= y
      OBVIOUS
    <3>1. x \in Nat /\ y \in Nat
      BY <2>1
    <3>2. ~(y < x)
      BY <2>2, <3>1 DEF OpToRel
    <3>3. QED  BY <3>1, <3>2
  <2>4. BrokenAt(log) = CHOOSE i \in broken : \A j \in broken : i <= j
    BY <1>3 DEF BrokenAt
  <2>5. BrokenAt(log) \in broken
    BY <2>3, <2>4
  <2>6. QED  BY <2>5, <1>1
<1>4. QED  BY <1>2, <1>3

\* Every row is one.
LEMMA RowsTyped ==
  ASSUME NEW D, TypedBy(D), NEW i \in 1..Len(log)
  PROVE  log[i] \in RowType(D)
  BY ElementOfSeq DEF TypedBy

\* The last hash is a digest in use.
LEMMA LastHashType == ASSUME NEW D, TypedBy(D)  PROVE LastHash \in D
<1>1. Len(log) \in Nat
  BY DEF TypedBy
<1>2. Len(log) # 0 => log[Len(log)] \in RowType(D)
  BY <1>1, RowsTyped
<1>3. QED  BY <1>2 DEF LastHash, TypedBy, RowType

\* Every step keeps the types, with the digest of a new row added to those in use.
LEMMA TypeStep == AuditTypeOK /\ [AuditNext]_auditVars => AuditTypeOK'
<1> SUFFICES ASSUME AuditTypeOK, [AuditNext]_auditVars  PROVE AuditTypeOK'
  OBVIOUS
<1>1. PICK D : TypedBy(D)
  BY DEF AuditTypeOK
<1>2. ASSUME NEW a \in Appends, NEW v \in Contents, CheckLock(a, v)  PROVE TypedBy(D)'
  BY <1>1, <1>2 DEF TypedBy, CheckLock
<1>3. ASSUME NEW a \in Appends, Acquire(a)  PROVE TypedBy(D)'
  BY <1>1, <1>3 DEF TypedBy, Acquire
<1>4. ASSUME NEW a \in Appends, ReadLast(a)  PROVE TypedBy(D)'
  <2>1. LastHash \in D
    BY <1>1, LastHashType
  <2>2. app' = [app EXCEPT ![a] = [@ EXCEPT !.pc = "insert", !.prev = LastHash]]
    BY <1>4 DEF ReadLast, LastHash
  <2>3. app' \in [Appends -> [pc : {"idle", "begin", "read", "insert"},
                              content : Contents \cup {SomeContent}, prev : D]]
    BY <1>1, <2>1, <2>2 DEF TypedBy
  <2>4. \A b \in Appends : app'[b].pc # "idle" => app'[b].content \in Contents
    BY <1>1, <1>4, <2>2 DEF TypedBy, ReadLast
  <2>5. QED  BY <1>1, <1>4, <2>3, <2>4 DEF TypedBy, ReadLast
<1>5. ASSUME NEW a \in Appends, InsertRow(a)  PROVE \E E : TypedBy(E)'
  <2> DEFINE h == Hash(app[a].prev, app[a].content)
  <2>0. PICK E : E = D \cup {h}
    OBVIOUS
  <2> DEFINE r == [content |-> app[a].content, prev |-> app[a].prev, hash |-> h]
  <2>1. r \in RowType(E)
    BY <1>1, <1>5, <2>0 DEF TypedBy, InsertRow, RowType
  <2>2. log \in Seq(RowType(E))
    <3>1. RowType(D) \subseteq RowType(E)
      BY <2>0 DEF RowType
    <3>2. QED  BY <1>1, <3>1, SeqMonotonic DEF TypedBy
  <2>3. log' \in Seq(RowType(E)) /\ Len(log') = Len(log) + 1
    <3>1. log' = Append(log, r)
      BY <1>5 DEF InsertRow
    <3> HIDE DEF r
    <3>2. QED  BY <2>1, <2>2, <3>1
  <2>4. corrupted' \subseteq 1..Len(log')
    BY <1>1, <1>5, <2>3 DEF TypedBy, InsertRow
  <2>5. app' \in [Appends -> [pc : {"idle", "begin", "read", "insert"},
                              content : Contents \cup {SomeContent}, prev : E]]
    BY <1>1, <1>5, <2>0 DEF TypedBy, InsertRow, IdleAppend
  <2>6. \A b \in Appends : app'[b].pc # "idle" => app'[b].content \in Contents
    BY <1>1, <1>5 DEF TypedBy, InsertRow, IdleAppend
  <2>7. TypedBy(E)'
    BY <1>1, <1>5, <2>0, <2>3, <2>4, <2>5, <2>6 DEF TypedBy, InsertRow
  <2>8. QED  BY <2>7
<1>6. ASSUME NEW a \in Appends, AppendDies(a)  PROVE TypedBy(D)'
  BY <1>1, <1>6 DEF TypedBy, AppendDies, IdleAppend
<1>7. ASSUME VerifyRead  PROVE TypedBy(D)'
  <2>1. ver' \in [pc : {"idle", "lock"}, at : Nat]
    BY <1>1, <1>7, BrokenAtType DEF VerifyRead
  <2>2. QED  BY <1>1, <1>7, <2>1 DEF TypedBy, VerifyRead
<1>8. ASSUME VerifyLock  PROVE TypedBy(D)'
  BY <1>1, <1>8 DEF TypedBy, VerifyLock
<1>9. ASSUME Unlock  PROVE TypedBy(D)'
  BY <1>1, <1>9 DEF TypedBy, Unlock
<1>10. ASSUME NEW i \in 1..Len(log), NEW v \in Contents, Corrupt(i, v)  PROVE TypedBy(D)'
  <2>1. log[i] \in RowType(D)
    BY <1>1, RowsTyped
  <2>2. [log[i] EXCEPT !.content = v] \in RowType(D)
    BY <2>1 DEF RowType
  <2>3. log' = [log EXCEPT ![i] = [log[i] EXCEPT !.content = v]]
    BY <1>10 DEF Corrupt
  <2>4. log' \in Seq(RowType(D)) /\ Len(log') = Len(log)
    BY <1>1, <2>2, <2>3, ExceptSeq DEF TypedBy
  <2>5. QED  BY <1>1, <1>10, <2>4 DEF TypedBy, Corrupt
<1>11. ASSUME UNCHANGED auditVars  PROVE TypedBy(D)'
  BY <1>1, <1>11 DEF TypedBy, auditVars
<1>12. QED
  BY <1>2, <1>3, <1>4, <1>5, <1>6, <1>7, <1>8, <1>9, <1>10, <1>11 DEF AuditNext, AuditTypeOK

-----------------------------------------------------------------------------
(* What the two writers of the log do to its rows. *)

\* An insert adds one row, which continues the last one.
LEMMA InsertEffect ==
  ASSUME ChainInv, NEW a \in Appends, InsertRow(a)
  PROVE  /\ Len(log) \in Nat
         /\ Len(log') = Len(log) + 1
         /\ \A i \in 1..Len(log) : log'[i] = log[i]
         /\ log'[Len(log')].prev = LastHash
         /\ log'[Len(log')].hash = Hash(log'[Len(log')].prev, log'[Len(log')].content)
<1>1. PICK D : TypedBy(D)
  BY DEF ChainInv, AuditTypeOK
<1>2. app[a].prev = LastHash
  BY DEF ChainInv, PrevIsLast, InsertRow
<1> DEFINE r == [content |-> app[a].content, prev |-> app[a].prev,
                 hash |-> Hash(app[a].prev, app[a].content)]
<1>3. log' = Append(log, r)
  BY DEF InsertRow
<1>4. Len(log) \in Nat /\ Len(log') = Len(log) + 1 /\ log'[Len(log) + 1] = r
      /\ \A i \in 1..Len(log) : log'[i] = log[i]
  <2>1. log \in Seq(RowType(D))
    BY <1>1 DEF TypedBy
  <2> HIDE DEF r
  <2>2. QED  BY <1>3, <2>1
<1>5. QED  BY <1>2, <1>4

\* A row that goes bad keeps its hashes, and the other rows everything.
LEMMA CorruptEffect ==
  ASSUME AuditTypeOK, NEW i \in 1..Len(log), NEW v \in Contents, Corrupt(i, v)
  PROVE  /\ Len(log') = Len(log) /\ Len(log) \in Nat
         /\ \A j \in 1..Len(log) : log'[j].prev = log[j].prev /\ log'[j].hash = log[j].hash
         /\ \A j \in 1..Len(log) : j # i => log'[j] = log[j]
         /\ log'[i].content = v
<1>1. PICK D : TypedBy(D)
  BY DEF AuditTypeOK
<1>2. \A j \in 1..Len(log) : log[j] \in RowType(D)
  BY <1>1, RowsTyped
<1>3. log' = [log EXCEPT ![i] = [log[i] EXCEPT !.content = v]]
  BY DEF Corrupt
<1>4. [log[i] EXCEPT !.content = v] \in RowType(D)
  BY <1>2 DEF RowType
<1>5. log \in Seq(RowType(D))
  BY <1>1 DEF TypedBy
<1>6. /\ Len(log') = Len(log) /\ Len(log) \in Nat
      /\ \A j \in 1..Len(log) : log'[j] = IF j = i THEN [log[i] EXCEPT !.content = v] ELSE log[j]
  BY <1>3, <1>4, <1>5, ExceptSeq, LenProperties
<1>7. QED  BY <1>2, <1>6 DEF RowType

\* The appends: who moves, and that the others keep their place.
LEMMA AppendMoves ==
  ASSUME AuditTypeOK, NEW a \in Appends,
         (\E v \in Contents : CheckLock(a, v)) \/ Acquire(a) \/ ReadLast(a)
           \/ InsertRow(a) \/ AppendDies(a)
  PROVE  /\ \A b \in Appends : b # a => app'[b] = app[b]
         /\ (\E v \in Contents : CheckLock(a, v)) => app'[a].pc = "begin"
         /\ Acquire(a) => app'[a].pc = "read"
         /\ ReadLast(a) => app'[a].pc = "insert" /\ app'[a].prev = LastHash
         /\ InsertRow(a) \/ AppendDies(a) => app'[a].pc = "idle"
<1>1. PICK D : TypedBy(D)
  BY DEF AuditTypeOK
<1>2. app \in [Appends -> [pc : {"idle", "begin", "read", "insert"},
                           content : Contents \cup {SomeContent}, prev : D]]
  BY <1>1 DEF TypedBy
<1>3. \A b \in Appends : b # a => app'[b] = app[b]
  BY <1>2 DEF CheckLock, Acquire, ReadLast, InsertRow, AppendDies
<1>4. (\E v \in Contents : CheckLock(a, v)) => app'[a].pc = "begin"
  BY <1>2 DEF CheckLock
<1>5. Acquire(a) => app'[a].pc = "read"
  BY <1>2 DEF Acquire
<1>6. ReadLast(a) => app'[a].pc = "insert" /\ app'[a].prev = LastHash
  BY <1>2 DEF ReadLast, LastHash
<1>7. InsertRow(a) \/ AppendDies(a) => app'[a].pc = "idle"
  BY <1>2 DEF InsertRow, AppendDies, IdleAppend
<1>8. QED  BY <1>3, <1>4, <1>5, <1>6, <1>7

\* What a verification that found nothing, or something, leaves behind: a row it
\* blames is corrupted, since the other rows link and hash.
LEMMA BlamedIsCorrupted ==
  ASSUME ChainInv, VerifyRead, ver'.pc = "lock"
  PROVE  ver'.at \in corrupted
<1>1. PICK D : TypedBy(D)
  BY DEF ChainInv, AuditTypeOK
<1> DEFINE b == BrokenAt(log)
<1>2. b # 0 /\ ver'.at = b
  BY DEF VerifyRead
<1>3. b \in 1..Len(log) /\ RowBreaks(log, b)
  BY <1>1, <1>2, BrokenAtType
<1> HIDE DEF b
<1>4. b \in corrupted
  BY <1>3 DEF ChainInv, RowsLink, SoundRowsHash, RowBreaks
<1>5. QED  BY <1>2, <1>4

\* The appends in flight, of which there are finitely many.
InFlight == {a \in Appends : app[a].pc # "idle"}

\* There are never more of them than there are appends.
LEMMA InFlightFinite ==
  /\ IsFiniteSet(InFlight) /\ Cardinality(InFlight) \in Nat
  /\ Cardinality(InFlight) <= Cardinality(Appends) /\ Cardinality(Appends) \in Nat
<1>1. InFlight \in SUBSET Appends
  BY DEF InFlight
<1>2. QED  BY <1>1, AppendsAssumption, FS_Subset, FS_CardinalityType

\* An append that returns leaves one fewer in flight.
LEMMA ReturnLeaves ==
  ASSUME NEW a \in Appends, app[a].pc # "idle", app'[a].pc = "idle",
         \A b \in Appends : b # a => app'[b] = app[b]
  PROVE  Cardinality(InFlight') = Cardinality(InFlight) - 1
<1>1. InFlight' = InFlight \ {a} /\ a \in InFlight
  BY DEF InFlight
<1>2. QED  BY <1>1, InFlightFinite, FS_RemoveElement

\* An append that only moves on leaves their number.
LEMMA MoveKeeps ==
  ASSUME NEW a \in Appends, app[a].pc # "idle", app'[a].pc # "idle",
         \A b \in Appends : b # a => app'[b] = app[b]
  PROVE  InFlight' = InFlight
  BY DEF InFlight

\* Nothing forks the chain: every step keeps ChainInv.
LEMMA ChainStep == ChainInv /\ [AuditNext]_auditVars => ChainInv'
<1> SUFFICES ASSUME ChainInv, [AuditNext]_auditVars  PROVE ChainInv'
  OBVIOUS
<1> USE NoneAssumption
<1>1. AuditTypeOK /\ AuditTypeOK'
  BY TypeStep DEF ChainInv
<1>2. PICK D : TypedBy(D)
  BY <1>1 DEF AuditTypeOK
<1>3. /\ late \in Nat /\ Len(log) \in Nat /\ corrupted \subseteq 1..Len(log)
      /\ Cardinality(InFlight) \in Nat /\ Cardinality(InFlight) <= Cardinality(Appends)
      /\ Cardinality(InFlight') \in Nat /\ Cardinality(InFlight') <= Cardinality(Appends)
      /\ Cardinality(Appends) \in Nat
  <2>1. IsFiniteSet(InFlight') /\ Cardinality(InFlight') \in Nat
        /\ Cardinality(InFlight') <= Cardinality(Appends)
    <3>1. InFlight' \in SUBSET Appends
      BY DEF InFlight
    <3>2. QED  BY <3>1, AppendsAssumption, FS_Subset, FS_CardinalityType
  <2>2. QED  BY <1>2, <2>1, InFlightFinite DEF TypedBy
<1>4. ASSUME NEW a \in Appends, NEW v \in Contents, CheckLock(a, v)  PROVE ChainInv'
  <2>1. app'[a].pc = "begin" /\ \A b \in Appends : b # a => app'[b] = app[b]
    BY <1>1, <1>4, AppendMoves
  <2>2. AdvisoryHeld' /\ PrevIsLast'
    BY <1>4, <2>1 DEF ChainInv, AdvisoryHeld, PrevIsLast, LastHash, CheckLock
  <2>3. RowsLink' /\ SoundRowsHash' /\ AlarmIsReal' /\ LateRowsInFlight'
    BY <1>4 DEF ChainInv, RowsLink, SoundRowsHash, AlarmIsReal, LateRowsInFlight, CheckLock
  <2>4. QED  BY <1>1, <2>2, <2>3 DEF ChainInv
<1>5. ASSUME NEW a \in Appends, Acquire(a)  PROVE ChainInv'
  <2>1. app'[a].pc = "read" /\ \A b \in Appends : b # a => app'[b] = app[b]
    BY <1>1, <1>5, AppendMoves
  <2>2. AdvisoryHeld' /\ PrevIsLast'
    BY <1>5, <2>1 DEF ChainInv, AdvisoryHeld, PrevIsLast, LastHash, Acquire
  <2>3. RowsLink' /\ SoundRowsHash' /\ AlarmIsReal'
    BY <1>5 DEF ChainInv, RowsLink, SoundRowsHash, AlarmIsReal, Acquire
  <2>4. LateRowsInFlight'
    <3>1. InFlight' = InFlight
      BY <1>5, <2>1, MoveKeeps DEF Acquire
    <3>2. QED  BY <1>5, <3>1 DEF ChainInv, LateRowsInFlight, InFlight, Acquire
  <2>5. QED  BY <1>1, <2>2, <2>3, <2>4 DEF ChainInv
<1>6. ASSUME NEW a \in Appends, ReadLast(a)  PROVE ChainInv'
  <2>1. /\ app'[a].pc = "insert" /\ app'[a].prev = LastHash
        /\ \A b \in Appends : b # a => app'[b] = app[b]
    BY <1>1, <1>6, AppendMoves
  <2>2. AdvisoryHeld' /\ PrevIsLast'
    BY <1>6, <2>1 DEF ChainInv, AdvisoryHeld, PrevIsLast, LastHash, ReadLast
  <2>3. RowsLink' /\ SoundRowsHash' /\ AlarmIsReal'
    BY <1>6 DEF ChainInv, RowsLink, SoundRowsHash, AlarmIsReal, ReadLast
  <2>4. LateRowsInFlight'
    <3>1. InFlight' = InFlight
      BY <1>6, <2>1, MoveKeeps DEF ReadLast
    <3>2. QED  BY <1>6, <3>1 DEF ChainInv, LateRowsInFlight, InFlight, ReadLast
  <2>5. QED  BY <1>1, <2>2, <2>3, <2>4 DEF ChainInv
<1>7. ASSUME NEW a \in Appends, InsertRow(a)  PROVE ChainInv'
  <2>1. app'[a].pc = "idle" /\ \A b \in Appends : b # a => app'[b] = app[b]
    BY <1>1, <1>7, AppendMoves
  <2>2. AdvisoryHeld' /\ PrevIsLast'
    BY <1>7, <2>1 DEF ChainInv, AdvisoryHeld, PrevIsLast, InsertRow
  <2>3. RowsLink'
    <3>1. /\ Len(log') = Len(log) + 1
          /\ \A i \in 1..Len(log) : log'[i] = log[i]
          /\ log'[Len(log')].prev = LastHash
      BY <1>7, InsertEffect
    <3> SUFFICES ASSUME NEW i \in 1..Len(log')
                 PROVE  log'[i].prev = IF i = 1 THEN Genesis ELSE log'[i - 1].hash
      BY DEF RowsLink
    <3>2. CASE i \in 1..Len(log)
      <4>1. log'[i] = log[i] /\ (i # 1 => log'[i - 1] = log[i - 1])
        BY <1>3, <3>1, <3>2
      <4>2. QED  BY <3>2, <4>1 DEF ChainInv, RowsLink
    <3>3. CASE i = Len(log) + 1
      BY <1>3, <3>1, <3>3 DEF LastHash
    <3>4. QED  BY <1>3, <3>1, <3>2, <3>3
  <2>4. SoundRowsHash'
    <3>1. corrupted' = corrupted
      BY <1>7 DEF InsertRow
    <3>2. QED  BY <1>3, <1>7, <3>1, InsertEffect DEF ChainInv, SoundRowsHash
  <2>5. AlarmIsReal'
    BY <1>7 DEF ChainInv, AlarmIsReal, InsertRow
  <2>6. LateRowsInFlight'
    <3>1. Cardinality(InFlight') = Cardinality(InFlight) - 1
      BY <1>7, <2>1, ReturnLeaves DEF InsertRow
    <3>2. QED  BY <1>3, <1>7, <3>1 DEF ChainInv, LateRowsInFlight, InFlight, InsertRow
  <2>7. QED  BY <1>1, <2>2, <2>3, <2>4, <2>5, <2>6 DEF ChainInv
<1>8. ASSUME NEW a \in Appends, AppendDies(a)  PROVE ChainInv'
  <2>1. app'[a].pc = "idle" /\ \A b \in Appends : b # a => app'[b] = app[b]
    BY <1>1, <1>8, AppendMoves
  <2>2. AdvisoryHeld' /\ PrevIsLast'
    BY <1>8, <2>1 DEF ChainInv, AdvisoryHeld, PrevIsLast, LastHash, AppendDies
  <2>3. RowsLink' /\ SoundRowsHash' /\ AlarmIsReal'
    BY <1>8 DEF ChainInv, RowsLink, SoundRowsHash, AlarmIsReal, AppendDies
  <2>4. LateRowsInFlight'
    <3>1. Cardinality(InFlight') = Cardinality(InFlight) - 1
      BY <1>8, <2>1, ReturnLeaves DEF AppendDies
    <3>2. QED  BY <1>3, <1>8, <3>1 DEF ChainInv, LateRowsInFlight, InFlight, AppendDies
  <2>5. QED  BY <1>1, <2>2, <2>3, <2>4 DEF ChainInv
<1>9. ASSUME VerifyRead  PROVE ChainInv'
  <2>1. AlarmIsReal'
    BY <1>9, BlamedIsCorrupted DEF ChainInv, AlarmIsReal, VerifyRead
  <2>2. QED
    BY <1>1, <1>9, <2>1 DEF ChainInv, AdvisoryHeld, PrevIsLast, LastHash, RowsLink,
                            SoundRowsHash, LateRowsInFlight, VerifyRead
<1>10. ASSUME VerifyLock  PROVE ChainInv'
  <2>1. AlarmIsReal'
    BY <1>10 DEF ChainInv, AlarmIsReal, VerifyLock
  <2>2. LateRowsInFlight'
    BY <1>3, <1>10 DEF ChainInv, LateRowsInFlight, InFlight, VerifyLock
  <2>3. QED
    BY <1>1, <1>10, <2>1, <2>2 DEF ChainInv, AdvisoryHeld, PrevIsLast, LastHash, RowsLink,
                                   SoundRowsHash, VerifyLock
<1>11. ASSUME Unlock  PROVE ChainInv'
  BY <1>1, <1>11 DEF ChainInv, AdvisoryHeld, PrevIsLast, LastHash, RowsLink, SoundRowsHash,
                     AlarmIsReal, LateRowsInFlight, Unlock
<1>12. ASSUME NEW i \in 1..Len(log), NEW v \in Contents, Corrupt(i, v)  PROVE ChainInv'
  <2>1. /\ Len(log') = Len(log)
        /\ \A j \in 1..Len(log) : log'[j].prev = log[j].prev /\ log'[j].hash = log[j].hash
        /\ \A j \in 1..Len(log) : j # i => log'[j] = log[j]
    BY <1>1, <1>12, CorruptEffect
  <2>2. LastHash' = LastHash
    BY <1>3, <2>1 DEF LastHash
  <2>3. AdvisoryHeld' /\ PrevIsLast'
    BY <1>12, <2>2 DEF ChainInv, AdvisoryHeld, PrevIsLast, Corrupt
  <2>4. RowsLink'
    BY <1>3, <2>1 DEF ChainInv, RowsLink
  <2>5. SoundRowsHash'
    BY <1>12, <2>1 DEF ChainInv, SoundRowsHash, Corrupt
  <2>6. AlarmIsReal' /\ LateRowsInFlight'
    BY <1>12 DEF ChainInv, AlarmIsReal, LateRowsInFlight, Corrupt
  <2>7. QED  BY <1>1, <2>3, <2>4, <2>5, <2>6 DEF ChainInv
<1>13. ASSUME UNCHANGED auditVars  PROVE ChainInv'
  BY <1>1, <1>13 DEF ChainInv, AdvisoryHeld, PrevIsLast, LastHash, RowsLink, SoundRowsHash,
                     AlarmIsReal, LateRowsInFlight, auditVars
<1>14. QED
  BY <1>4, <1>5, <1>6, <1>7, <1>8, <1>9, <1>10, <1>11, <1>12, <1>13 DEF AuditNext

\* The empty log satisfies the invariant.
LEMMA ChainInit == AuditInit => ChainInv
<1> SUFFICES ASSUME AuditInit  PROVE ChainInv
  OBVIOUS
<1>1. AuditTypeOK
  BY TypeInit DEF AuditTypeOK
<1>2. AdvisoryHeld /\ PrevIsLast
  BY NoneAssumption DEF AuditInit, AdvisoryHeld, PrevIsLast, IdleAppend
<1>3. RowsLink /\ SoundRowsHash /\ AlarmIsReal /\ LateRowsInFlight
  BY DEF AuditInit, RowsLink, SoundRowsHash, AlarmIsReal, LateRowsInFlight
<1>4. QED  BY <1>1, <1>2, <1>3 DEF ChainInv

\* A row that went bad keeps showing: its content is never put back, and its hashes
\* are the ones of the content it had.
LEMMA CorruptStep ==
  ASSUME CollisionFree, ChainInv, CorruptRowsShow, [AuditNext]_auditVars
  PROVE  CorruptRowsShow'
<1>1. PICK D : TypedBy(D)
  BY DEF ChainInv, AuditTypeOK
<1>2. corrupted \subseteq 1..Len(log) /\ AuditTypeOK
  BY <1>1 DEF TypedBy, ChainInv
<1>3. ASSUME NEW a \in Appends, InsertRow(a)  PROVE CorruptRowsShow'
  BY <1>2, <1>3, InsertEffect DEF CorruptRowsShow, InsertRow
<1>4. ASSUME NEW i \in 1..Len(log), NEW v \in Contents, Corrupt(i, v)  PROVE CorruptRowsShow'
  <2>1. /\ Len(log') = Len(log)
        /\ \A j \in 1..Len(log) : log'[j].prev = log[j].prev /\ log'[j].hash = log[j].hash
        /\ \A j \in 1..Len(log) : j # i => log'[j] = log[j]
        /\ log'[i].content = v
    BY <1>2, <1>4, CorruptEffect
  <2>2. log[i].content \in Contents /\ log[i].content # v /\ i \notin corrupted
    BY <1>1, <1>4, RowsTyped DEF RowType, Corrupt
  <2>3. log[i].hash = Hash(log[i].prev, log[i].content)
    BY <2>2 DEF ChainInv, SoundRowsHash
  <2>4. log'[i].hash # Hash(log'[i].prev, log'[i].content)
    BY <2>1, <2>2, <2>3 DEF CollisionFree
  <2>5. corrupted' = corrupted \cup {i}
    BY <1>4 DEF Corrupt
  <2>6. QED  BY <1>2, <2>1, <2>4, <2>5 DEF CorruptRowsShow
<1>5. ASSUME UNCHANGED <<log, corrupted>>  PROVE CorruptRowsShow'
  BY <1>5 DEF CorruptRowsShow
<1>6. QED
  BY <1>3, <1>4, <1>5 DEF AuditNext, auditVars, CheckLock, Acquire, ReadLast, AppendDies,
                          VerifyRead, VerifyLock, Unlock

-----------------------------------------------------------------------------
(* Theorems. *)

\* Whatever the hash, however many processes append at once and wherever they die,
\* the advisory lock keeps the chain whole.
THEOREM ChainSafety == AuditSpec => []ChainInv
  BY ChainInit, ChainStep, PTL DEF AuditSpec

\* verifyDaily never locks the log for nothing, and no row follows the lock but those
\* of appends that had read it open: at most one per call in flight.
THEOREM LockIsJustified == AuditSpec => []ChainLockInv
<1>1. ChainInv => ChainLockInv
  BY DEF ChainInv, ChainLockInv
<1>2. QED  BY <1>1, ChainSafety, PTL

\* With a collision-free hash a row breaks the chain if and only if its stored content
\* changed: concurrent appends never fork it, and corruption never goes unseen.
THEOREM BreaksExactlyWhereCorrupted ==
  ASSUME CollisionFree
  PROVE  AuditSpec => []ChainBreaksOnlyWhereCorrupted
<1>1. AuditInit => CorruptRowsShow
  BY DEF AuditInit, CorruptRowsShow
<1>2. ChainInv /\ CorruptRowsShow /\ [AuditNext]_auditVars => CorruptRowsShow'
  BY CorruptStep
<1>3. ChainInv /\ CorruptRowsShow => ChainBreaksOnlyWhereCorrupted
  BY DEF ChainInv, CorruptRowsShow, ChainBreaksOnlyWhereCorrupted, RowBreaks, RowsLink,
         SoundRowsHash
<1>4. QED  BY <1>1, <1>2, <1>3, ChainSafety, PTL DEF AuditSpec

-----------------------------------------------------------------------------
(***************************************************************************)
(* The autonomy modes                                                      *)
(***************************************************************************)

-----------------------------------------------------------------------------
(* The inductive invariant. *)

PCs == {"idle", "relaxRead", "bump", "modeRead", "expireRead", "audit", "write", "auditAfter"}
Whys == {"downgrade", "circuit-breaker", "expired", "approved"}
ModeRowType == [mode : Modes, expires : Nat \cup {Null}, count : Nat, window : 0..MaxTime, by : Whys]
ChangeType == [state : {"none", "open", "claimed", "done"}, mode : Modes, hours : Nat]
ProcType == [pc : PCs, mode : Modes, hours : Nat, at : 0..MaxTime, why : Whys,
             id : Changes \cup {Null}]

FullTypeOK ==
  /\ row \in ModeRowType
  /\ change \in [Changes -> ChangeType]
  /\ proc \in [All -> ProcType]
  /\ now \in 0..MaxTime
  /\ faults \in Nat /\ audits \in Nat /\ applied \in Nat /\ inWindow \in Nat /\ stale \in Nat

\* What a call that is going to write the row carries: hours in the range of its mode,
\* an approval for "auto", and an audit row to write first if it was approved.
WriterOK(w) ==
  /\ w.pc \in {"audit", "write"} =>
       /\ w.mode # "supervised" => w.hours \in 1..MaxHours(w.mode)
       /\ w.mode = "auto" => w.why = "approved"
  /\ w.pc = "audit" => w.why = "approved"

WritersOK == \A p \in All : WriterOK(proc[p])

\* A clock that was read is not ahead of the clock.
ClocksPast == \A p \in All : proc[p].at <= now

\* Approved changes audited and not yet written.
Audited == {p \in Procs : proc[p].pc = "write" /\ proc[p].why = "approved"}

\* Every approved change that is written, or about to be, has its own audit row.
AuditsCover == applied + Cardinality(Audited) <= audits

\* The cron neither relaxes nor applies an approval.
CronOnlyExpires ==
  /\ proc[Cron].pc \in {"idle", "expireRead", "write", "auditAfter"}
  /\ proc[Cron].pc = "write" => proc[Cron].why # "approved"

\* The persisted counter has seen every relaxation of its window.
CounterCovers == inWindow <= row.count

\* Calls that have read a relaxed mode and not yet been counted.
Bumping == {p \in Procs : proc[p].pc = "bump"}

ModesInv ==
  /\ FullTypeOK /\ WritersOK /\ ClocksPast /\ AuditsCover /\ CronOnlyExpires /\ CounterCovers
  /\ RelaxedModeExpires /\ AutoNeedsApproval /\ BrakeHolds /\ StaleRelaxationsInFlight

-----------------------------------------------------------------------------
(* The operators. *)

\* The limit of a mode is at least an hour.
LEMMA MaxHoursType == ASSUME NEW m  PROVE MaxHours(m) \in Nat /\ MaxHours(m) >= 1
  BY LimitsAssumption DEF MaxHours

\* clampHours brings whatever was asked for into the range of the mode.
LEMMA ClampInRange ==
  ASSUME NEW h \in Int, NEW m
  PROVE  ClampHours(h, m) \in 1..MaxHours(m)
  BY MaxHoursType DEF ClampHours

\* The idle record.
LEMMA IdleType == Idle \in ProcType /\ Idle.pc = "idle" /\ Idle.at = 0
  BY LimitsAssumption DEF Idle, ProcType, PCs, Modes, Whys

\* The mode in force is one of the three, and relaxed only if the row is.
LEMMA EffectiveMode ==
  ASSUME row \in ModeRowType, NEW t
  PROVE  Effective(t) \in Modes /\ (Effective(t) # "supervised" => row.mode # "supervised")
  BY DEF Effective, ModeRowType, Modes

\* No request for "auto" is immediate.
LEMMA AutoIsDual ==
  ASSUME NEW c \in Modes, NEW m \in Modes, ~RequiresDualConfirm(c, m)
  PROVE  m # "auto"
  BY DEF RequiresDualConfirm, Ordinal, Modes

\* A product grows with its factor.
LEMMA ProductGrows ==
  ASSUME NEW a \in Nat, NEW b \in Nat, NEW k \in Nat, a <= b
  PROVE  a * k <= b * k /\ a * k \in Nat /\ b * k \in Nat
<1>1. PICK d \in Nat : b = a + d
  <2>1. b - a \in Nat /\ b = a + (b - a)
    OBVIOUS
  <2>2. QED  BY <2>1
<1>2. b * k = a * k + d * k
  BY <1>1
<1>3. d * k \in Nat /\ a * k \in Nat
  BY <1>1
<1>4. QED  BY <1>2, <1>3

-----------------------------------------------------------------------------
(* What one action does to the calls. *)

\* A call moves to a typed record and the others stay.
Moves(p, w) ==
  /\ proc'[p] = w /\ w \in ProcType
  /\ \A o \in All : o # p => proc'[o] = proc[o]
  /\ proc' \in [All -> ProcType]

\* A call that returns becomes idle.
LEMMA ReturnMoves ==
  ASSUME proc \in [All -> ProcType], NEW p \in All, Return(p)
  PROVE  Moves(p, Idle)
  BY IdleType DEF Return, Moves

\* A call that enters writeState carries what it is going to write and the clock.
LEMMA EnterWriteMoves ==
  ASSUME proc \in [All -> ProcType], now \in 0..MaxTime, NEW p \in All,
         NEW m \in Modes, NEW h \in Nat, NEW reason \in Whys, EnterWrite(p, m, h, reason)
  PROVE  Moves(p, [pc |-> IF reason = "approved" THEN "audit" ELSE "write", mode |-> m,
                   hours |-> h, at |-> now, why |-> reason, id |-> proc[p].id])
<1> DEFINE w == [pc |-> IF reason = "approved" THEN "audit" ELSE "write", mode |-> m,
                 hours |-> h, at |-> now, why |-> reason, id |-> proc[p].id]
<1>1. w \in ProcType
  BY DEF ProcType, PCs
<1>2. proc' = [proc EXCEPT ![p] = w]
  BY DEF EnterWrite
<1>3. Moves(p, w)
  <2> HIDE DEF w
  <2> QED  BY <1>1, <1>2 DEF Moves
<1>4. QED  BY <1>3

\* The two sets of calls that are counted are finite.
LEMMA CountedFinite ==
  /\ IsFiniteSet(Audited) /\ Cardinality(Audited) \in Nat
  /\ IsFiniteSet(Bumping) /\ Cardinality(Bumping) \in Nat
  /\ Cardinality(Procs) \in Nat /\ Cardinality(Bumping) <= Cardinality(Procs)
<1>1. Audited \in SUBSET Procs /\ Bumping \in SUBSET Procs
  BY DEF Audited, Bumping
<1>2. QED  BY <1>1, ProcsAssumption, FS_Subset, FS_CardinalityType

\* They are finite after a step, too.
LEMMA CountedFiniteNext ==
  /\ Cardinality(Audited') \in Nat /\ Cardinality(Bumping') \in Nat
  /\ Cardinality(Bumping') <= Cardinality(Procs)
<1>1. Audited' \in SUBSET Procs /\ Bumping' \in SUBSET Procs
  BY DEF Audited, Bumping
<1>2. QED  BY <1>1, ProcsAssumption, FS_Subset, FS_CardinalityType

\* A move that does not end in front of the UPDATE with an approval adds nobody to
\* those audited, and takes the mover out.
LEMMA AuditedShrinks ==
  ASSUME NEW p \in All, NEW w, Moves(p, w), ~(w.pc = "write" /\ w.why = "approved")
  PROVE  /\ Cardinality(Audited') <= Cardinality(Audited)
         /\ p \in Audited => Cardinality(Audited') = Cardinality(Audited) - 1
<1>1. Audited' = Audited \ {p}
  BY DEF Audited, Moves, All
<1>2. Cardinality(Audited \ {p}) = IF p \in Audited THEN Cardinality(Audited) - 1 ELSE Cardinality(Audited)
  BY CountedFinite, FS_RemoveElement
<1>3. QED  BY <1>1, <1>2, CountedFinite

\* The same for the calls about to be counted by the brake.
LEMMA BumpingShrinks ==
  ASSUME NEW p \in All, NEW w, Moves(p, w), w.pc # "bump"
  PROVE  /\ Cardinality(Bumping') <= Cardinality(Bumping)
         /\ p \in Bumping => Cardinality(Bumping') = Cardinality(Bumping) - 1
<1>1. Bumping' = Bumping \ {p}
  BY DEF Bumping, Moves, All
<1>2. Cardinality(Bumping \ {p}) = IF p \in Bumping THEN Cardinality(Bumping) - 1 ELSE Cardinality(Bumping)
  BY CountedFinite, FS_RemoveElement
<1>3. QED  BY <1>1, <1>2, CountedFinite

\* A call moves to a record that is fit to write: the writers and the clocks stay so.
LEMMA MoveKeepsWriters ==
  ASSUME WritersOK, ClocksPast, FullTypeOK, NEW p \in All, NEW w, Moves(p, w), WriterOK(w),
         w.at <= now, UNCHANGED now
  PROVE  WritersOK' /\ ClocksPast'
<1>1. WritersOK'
  <2> SUFFICES ASSUME NEW o \in All  PROVE WriterOK(proc'[o])
    BY DEF WritersOK
  <2>1. CASE o = p
    BY <2>1 DEF Moves
  <2>2. CASE o # p
    BY <2>2 DEF Moves, WritersOK
  <2>3. QED  BY <2>1, <2>2
<1>2. ClocksPast'
  BY DEF ClocksPast, Moves
<1>3. QED  BY <1>1, <1>2

\* Where a call of the cron may stand.
CronOK(w) ==
  /\ w.pc \in {"idle", "expireRead", "write", "auditAfter"}
  /\ w.pc = "write" => w.why # "approved"

\* A step that moves one call, not to the counter or the UPDATE of an approval, and
\* writes neither the row nor a count, keeps the whole invariant.
LEMMA QuietMove ==
  ASSUME ModesInv, NEW p \in All, NEW w, Moves(p, w), WriterOK(w), w.at <= now,
         w.pc # "bump", ~(w.pc = "write" /\ w.why = "approved"), p = Cron => CronOK(w),
         UNCHANGED <<row, now, histVars>>, change' \in [Changes -> ChangeType], faults' \in Nat
  PROVE  ModesInv'
<1>1. FullTypeOK'
  BY DEF ModesInv, FullTypeOK, Moves, histVars
<1>2. WritersOK' /\ ClocksPast'
  BY MoveKeepsWriters DEF ModesInv
<1>3. AuditsCover'
  BY <1>1, CountedFinite, CountedFiniteNext, AuditedShrinks
     DEF ModesInv, FullTypeOK, AuditsCover, histVars
<1>4. CronOnlyExpires'
  <2>1. CASE p = Cron
    BY <2>1 DEF CronOnlyExpires, CronOK, Moves
  <2>2. CASE p # Cron
    BY <2>2 DEF ModesInv, CronOnlyExpires, Moves, All
  <2>3. QED  BY <2>1, <2>2
<1>5. StaleRelaxationsInFlight'
  <2>1. Cardinality(Bumping') <= Cardinality(Bumping) /\ Cardinality(Bumping') \in Nat
    BY CountedFiniteNext, BumpingShrinks
  <2>2. stale' = stale /\ row' = row /\ stale \in Nat
    BY DEF ModesInv, FullTypeOK, histVars
  <2>3. row.mode = "supervised" => stale + Cardinality(Bumping) <= Cardinality(Procs)
    BY DEF ModesInv, StaleRelaxationsInFlight, Bumping
  <2>4. row'.mode = "supervised" => stale' + Cardinality(Bumping') <= Cardinality(Procs)
    BY <2>1, <2>2, <2>3, CountedFinite
  <2>5. QED  BY <2>4 DEF StaleRelaxationsInFlight, Bumping
<1>6. CounterCovers' /\ RelaxedModeExpires' /\ AutoNeedsApproval' /\ BrakeHolds'
  BY DEF ModesInv, CounterCovers, RelaxedModeExpires, AutoNeedsApproval, BrakeHolds, histVars
<1>7. QED  BY <1>1, <1>2, <1>3, <1>4, <1>5, <1>6 DEF ModesInv

\* The simplest of those: a call returns.
LEMMA QuietReturn ==
  ASSUME ModesInv, NEW p \in All, Return(p),
         UNCHANGED <<row, now, histVars>>, change' \in [Changes -> ChangeType], faults' \in Nat
  PROVE  ModesInv'
<1>1. Moves(p, Idle)
  BY ReturnMoves DEF ModesInv, FullTypeOK
<1>2. Idle.at <= now
  BY IdleType DEF ModesInv, FullTypeOK
<1>3. WriterOK(Idle) /\ CronOK(Idle) /\ Idle.pc = "idle"
  BY DEF WriterOK, CronOK, Idle
<1>4. QED  BY <1>1, <1>2, <1>3, QuietMove

-----------------------------------------------------------------------------
(* The actions. *)

\* A call reads the clock: it carries the time, and nothing to write.
LEMMA GetStateStep ==
  ASSUME ModesInv, NEW p \in All, NEW l \in {"relaxRead", "modeRead", "expireRead"},
         p = Cron => l = "expireRead", GetState(p, l)
  PROVE  ModesInv'
<1> DEFINE w == [Idle EXCEPT !.pc = l, !.at = now]
<1>1. FullTypeOK
  BY DEF ModesInv
<1>2. w \in ProcType /\ w.pc = l /\ w.at = now /\ w.pc \notin {"audit", "write", "bump"}
  BY <1>1, IdleType DEF ProcType, PCs, FullTypeOK
<1>3. proc' = [proc EXCEPT ![p] = w] /\ UNCHANGED <<row, change, now, faults, histVars>>
  BY DEF GetState
<1> HIDE DEF w
<1>4. Moves(p, w)
  BY <1>1, <1>2, <1>3 DEF Moves, FullTypeOK
<1>5. WriterOK(w) /\ (p = Cron => CronOK(w)) /\ w.at <= now
  BY <1>1, <1>2 DEF WriterOK, CronOK, FullTypeOK
<1>6. change' \in [Changes -> ChangeType] /\ faults' \in Nat
  BY <1>1, <1>3 DEF FullTypeOK
<1>7. QED  BY <1>2, <1>3, <1>4, <1>5, <1>6, QuietMove

\* A call goes to be counted only from a row that is relaxed.
LEMMA RelaxReadStep ==
  ASSUME ModesInv, NEW p \in Procs, NEW tool \in Tools, NEW level \in Levels,
         RelaxRead(p, tool, level)
  PROVE  ModesInv'
<1>1. FullTypeOK /\ p \in All
  BY DEF ModesInv, All
<1>2. UNCHANGED <<row, change, now, faults, histVars>>
  BY DEF RelaxRead
<1>3. CASE Return(p)
  BY <1>1, <1>2, <1>3, QuietReturn DEF FullTypeOK
<1>4. CASE /\ Relaxes(level, Effective(proc[p].at), tool)
           /\ proc' = [proc EXCEPT ![p].pc = "bump", ![p].at = 0]
  <2> DEFINE w == [proc[p] EXCEPT !.pc = "bump", !.at = 0]
  <2>1. proc[p] \in ProcType
    BY <1>1 DEF FullTypeOK
  <2>2. w \in ProcType /\ w.pc = "bump" /\ w.at = 0
    <3>1. 0 \in 0..MaxTime /\ "bump" \in PCs
      BY LimitsAssumption DEF PCs
    <3>2. QED  BY <2>1, <3>1 DEF ProcType
  <2>3. proc' = [proc EXCEPT ![p] = w]
    BY <1>1, <1>4 DEF FullTypeOK
  <2> HIDE DEF w
  <2>4. Moves(p, w)
    BY <1>1, <2>2, <2>3 DEF Moves, FullTypeOK
  <2>5. WritersOK' /\ ClocksPast'
    <3>1. WriterOK(w) /\ w.at <= now
      BY <1>1, <2>2 DEF WriterOK, FullTypeOK
    <3>2. QED  BY <1>1, <1>2, <2>4, <3>1, MoveKeepsWriters DEF ModesInv
  <2>6. row.mode # "supervised"
    BY <1>1, <1>4, EffectiveMode DEF Relaxes, FullTypeOK
  <2>7. FullTypeOK'
    BY <1>1, <1>2, <2>4 DEF FullTypeOK, Moves, histVars
  <2>8. AuditsCover'
    BY <1>1, <1>2, <2>2, <2>4, CountedFinite, CountedFiniteNext, AuditedShrinks
       DEF ModesInv, FullTypeOK, AuditsCover, histVars
  <2>9. CronOnlyExpires'
    BY <2>4, CronAssumption DEF ModesInv, CronOnlyExpires, Moves, All
  <2>10. StaleRelaxationsInFlight'
    BY <1>2, <2>6 DEF StaleRelaxationsInFlight
  <2>11. CounterCovers' /\ RelaxedModeExpires' /\ AutoNeedsApproval' /\ BrakeHolds'
    BY <1>2 DEF ModesInv, CounterCovers, RelaxedModeExpires, AutoNeedsApproval, BrakeHolds,
                histVars
  <2>12. QED  BY <2>5, <2>7, <2>8, <2>9, <2>10, <2>11 DEF ModesInv
<1>5. QED  BY <1>3, <1>4 DEF RelaxRead

\* An immediate change is never to "auto", and in the range of its mode.
LEMMA RequestRestrictiveStep ==
  ASSUME ModesInv, NEW p \in Procs, NEW m \in Modes, NEW h \in HoursAsked,
         RequestRestrictive(p, m, h)
  PROVE  ModesInv'
<1> DEFINE hours == IF m = "supervised" THEN 0 ELSE ClampHours(h, m)
           w == [pc |-> "write", mode |-> m, hours |-> hours, at |-> now,
                 why |-> "downgrade", id |-> proc[p].id]
<1>1. FullTypeOK /\ p \in All /\ h \in Int
  BY LimitsAssumption DEF ModesInv, All
<1>2. m # "supervised" => hours \in 1..MaxHours(m)
  BY <1>1, ClampInRange
<1>3. hours \in Nat
  BY <1>2, MaxHoursType
<1>4. m # "auto"
  <2>1. Effective(proc[p].at) \in Modes
    BY <1>1, EffectiveMode DEF FullTypeOK
  <2>2. QED  BY <2>1, AutoIsDual DEF RequestRestrictive
<1>5. EnterWrite(p, m, hours, "downgrade") /\ UNCHANGED <<row, change, now, faults, histVars>>
  BY DEF RequestRestrictive
<1> HIDE DEF hours
<1>6. Moves(p, w)
  <2>1. "downgrade" \in Whys
    BY DEF Whys
  <2>2. QED  BY <1>1, <1>3, <1>5, <2>1, EnterWriteMoves DEF FullTypeOK
<1>7. WriterOK(w)
  BY <1>2, <1>4 DEF WriterOK
<1>8. w.at <= now
  BY <1>1 DEF FullTypeOK
<1>9. p # Cron
  BY CronAssumption
<1>10. change' \in [Changes -> ChangeType] /\ faults' \in Nat
  BY <1>1, <1>5 DEF FullTypeOK
<1>11. QED  BY <1>1, <1>5, <1>6, <1>7, <1>8, <1>9, <1>10, QuietMove

\* A change that waits for approval holds hours in the range of its mode.
LEMMA RequestDualStep ==
  ASSUME ModesInv, NEW p \in Procs, NEW m \in Modes, NEW h \in HoursAsked, NEW q \in Changes,
         RequestDual(p, m, h, q)
  PROVE  ModesInv'
<1>1. FullTypeOK /\ p \in All /\ h \in Int
  BY LimitsAssumption DEF ModesInv, All
<1>2. ClampHours(h, m) \in Nat
  BY <1>1, ClampInRange, MaxHoursType
<1>3. change' \in [Changes -> ChangeType]
  BY <1>1, <1>2 DEF RequestDual, FullTypeOK, ChangeType
<1>4. Return(p) /\ faults' \in Nat /\ UNCHANGED <<row, now, histVars>>
  BY <1>1 DEF RequestDual, FullTypeOK
<1>5. QED  BY <1>1, <1>3, <1>4, QuietReturn

\* An approved change is audited before anything is written.
LEMMA ApplyApprovedStep ==
  ASSUME ModesInv, NEW p \in Procs, NEW q \in Changes, ApplyApproved(p, q)
  PROVE  ModesInv'
<1> DEFINE c == change[q]
           w == [Idle EXCEPT !.pc = "audit", !.at = now, !.id = q, !.mode = c.mode,
                      !.why = "approved", !.hours = ClampHours(c.hours, c.mode)]
<1>1. FullTypeOK /\ p \in All
  BY DEF ModesInv, All
<1>2. c \in ChangeType
  BY <1>1 DEF FullTypeOK
<1>3. ClampHours(c.hours, c.mode) \in 1..MaxHours(c.mode) /\ MaxHours(c.mode) \in Nat
  BY <1>2, ClampInRange, MaxHoursType DEF ChangeType
<1>4. w \in ProcType
  <2>1. "audit" \in PCs /\ "approved" \in Whys /\ now \in 0..MaxTime /\ c.mode \in Modes
        /\ ClampHours(c.hours, c.mode) \in Nat
    BY <1>1, <1>2, <1>3 DEF PCs, Whys, ChangeType, FullTypeOK
  <2>2. QED  BY <2>1, IdleType DEF ProcType
<1>5. w.pc = "audit" /\ w.why = "approved" /\ w.at = now /\ w.mode = c.mode
      /\ w.hours \in 1..MaxHours(w.mode)
  BY <1>3, IdleType DEF ProcType
<1>6. proc' = [proc EXCEPT ![p] = w] /\ UNCHANGED <<row, now, faults, histVars>>
  BY DEF ApplyApproved
<1>7. change' \in [Changes -> ChangeType]
  BY <1>1, <1>2 DEF ApplyApproved, FullTypeOK, ChangeType
<1> HIDE DEF w
<1>8. Moves(p, w)
  BY <1>1, <1>4, <1>6 DEF Moves, FullTypeOK
<1>9. WriterOK(w) /\ w.at <= now
  BY <1>1, <1>5 DEF WriterOK, FullTypeOK
<1>10. p # Cron /\ faults' \in Nat
  BY <1>1, <1>6, CronAssumption DEF FullTypeOK
<1>11. QED  BY <1>1, <1>5, <1>6, <1>7, <1>8, <1>9, <1>10, QuietMove

\* The cron writes only "supervised".
LEMMA ExpireReadStep == ASSUME ModesInv, ExpireRead  PROVE ModesInv'
<1> DEFINE w == [pc |-> "write", mode |-> "supervised", hours |-> 0, at |-> now,
                 why |-> "expired", id |-> proc[Cron].id]
<1>1. FullTypeOK /\ Cron \in All
  BY DEF ModesInv, All
<1>2. /\ UNCHANGED <<row, change, now, faults, histVars>>
      /\ change' \in [Changes -> ChangeType] /\ faults' \in Nat
  BY <1>1 DEF ExpireRead, FullTypeOK
<1>3. CASE Return(Cron)
  BY <1>1, <1>2, <1>3, QuietReturn
<1>4. CASE EnterWrite(Cron, "supervised", 0, "expired")
  <2>1. "expired" \in Whys /\ "supervised" \in Modes
    BY DEF Whys, Modes
  <2>2. Moves(Cron, w)
    BY <1>1, <1>4, <2>1, EnterWriteMoves DEF FullTypeOK
  <2>3. WriterOK(w) /\ w.at <= now /\ CronOK(w)
    BY <1>1 DEF WriterOK, CronOK, FullTypeOK
  <2>4. QED  BY <1>1, <1>2, <2>2, <2>3, QuietMove
<1>5. QED  BY <1>3, <1>4 DEF ExpireRead

\* The brake: the counter sees every call, and whoever finds it above the limit does
\* not relax but writes "supervised".
LEMMA BumpStep == ASSUME ModesInv, NEW p \in Procs, Bump(p)  PROVE ModesInv'
<1> DEFINE fresh == row.window < now - Hour
           count == IF fresh THEN 1 ELSE row.count + 1
           window == IF fresh THEN 0 ELSE inWindow
           w == IF Brakes(count)
                  THEN [pc |-> "write", mode |-> "supervised", hours |-> 0, at |-> now,
                        why |-> "circuit-breaker", id |-> proc[p].id]
                  ELSE Idle
<1>1. FullTypeOK /\ p \in All /\ p # Cron
  BY CronAssumption DEF ModesInv, All
<1>2. /\ row' = [row EXCEPT !.count = count, !.window = IF fresh THEN now ELSE @]
      /\ UNCHANGED <<change, now, faults, audits, applied>>
      /\ proc[p].pc = "bump"
  BY DEF Bump
<1>3. /\ Brakes(count) => /\ EnterWrite(p, "supervised", 0, "circuit-breaker")
                          /\ inWindow' = window /\ stale' = stale
      /\ ~Brakes(count) => /\ Return(p) /\ inWindow' = window + 1
                           /\ stale' = IF row.mode = "supervised" THEN stale + 1 ELSE 0
  BY DEF Bump
<1>4. /\ row.count \in Nat /\ inWindow \in Nat /\ stale \in Nat /\ row \in ModeRowType
      /\ now \in 0..MaxTime /\ inWindow <= row.count /\ inWindow <= MaxRelaxed
  BY <1>1 DEF ModesInv, FullTypeOK, ModeRowType, CounterCovers, BrakeHolds
<1>5. count \in Nat /\ count >= 1 /\ window \in Nat /\ window + 1 <= count
      /\ window <= MaxRelaxed
  BY <1>4, LimitsAssumption
<1>6. /\ row' \in ModeRowType /\ row'.count = count /\ row'.mode = row.mode
      /\ row'.expires = row.expires /\ row'.by = row.by
  BY <1>2, <1>4, <1>5 DEF ModeRowType
<1> HIDE DEF count, window
<1>7. Moves(p, w)
  <2>1. "circuit-breaker" \in Whys /\ "supervised" \in Modes /\ 0 \in Nat
    BY DEF Whys, Modes
  <2>2. CASE Brakes(count)
    BY <1>1, <1>3, <2>1, <2>2, EnterWriteMoves DEF FullTypeOK
  <2>3. CASE ~Brakes(count)
    BY <1>1, <1>3, <2>3, ReturnMoves DEF FullTypeOK
  <2>4. QED  BY <2>2, <2>3
<1>8. WriterOK(w) /\ w.at <= now /\ w.pc # "bump" /\ ~(w.pc = "write" /\ w.why = "approved")
  BY <1>4, IdleType DEF WriterOK
<1> HIDE DEF w
<1>9. inWindow' \in Nat /\ stale' \in Nat
  BY <1>3, <1>4, <1>5
<1>10. FullTypeOK'
  BY <1>1, <1>2, <1>6, <1>7, <1>9 DEF FullTypeOK, Moves
<1>11. WritersOK' /\ ClocksPast'
  BY <1>1, <1>2, <1>7, <1>8, MoveKeepsWriters DEF ModesInv
<1>12. AuditsCover'
  BY <1>1, <1>2, <1>7, <1>8, <1>10, CountedFinite, CountedFiniteNext, AuditedShrinks
     DEF ModesInv, FullTypeOK, AuditsCover
<1>13. CronOnlyExpires'
  BY <1>1, <1>7 DEF ModesInv, CronOnlyExpires, Moves, All
<1>14. CounterCovers'
  BY <1>3, <1>5, <1>6 DEF CounterCovers
<1>15. BrakeHolds'
  BY <1>3, <1>5, LimitsAssumption DEF BrakeHolds, Brakes
<1>16. StaleRelaxationsInFlight'
  <2>1. Cardinality(Bumping') = Cardinality(Bumping) - 1
    BY <1>1, <1>2, <1>7, <1>8, BumpingShrinks DEF Bumping
  <2>2. row.mode = "supervised" => stale + Cardinality(Bumping) <= Cardinality(Procs)
    BY DEF ModesInv, StaleRelaxationsInFlight, Bumping
  <2>3. row'.mode = "supervised" => stale' + Cardinality(Bumping') <= Cardinality(Procs)
    BY <1>3, <1>4, <1>6, <2>1, <2>2, CountedFinite
  <2>4. QED  BY <2>3 DEF StaleRelaxationsInFlight, Bumping
<1>17. RelaxedModeExpires' /\ AutoNeedsApproval'
  BY <1>2, <1>6 DEF ModesInv, RelaxedModeExpires, AutoNeedsApproval
<1>18. QED
  BY <1>10, <1>11, <1>12, <1>13, <1>14, <1>15, <1>16, <1>17 DEF ModesInv

\* The audit row comes first, and a failure leaves the change pending.
LEMMA AuditFirstStep == ASSUME ModesInv, NEW p \in Procs, AuditFirst(p)  PROVE ModesInv'
<1>1. FullTypeOK /\ p \in All /\ p # Cron /\ proc[p].pc = "audit" /\ proc[p] \in ProcType
  BY CronAssumption DEF ModesInv, All, AuditFirst, FullTypeOK
<1>2. UNCHANGED <<row, now, applied, inWindow, stale>>
  BY DEF AuditFirst
<1>3. CASE /\ audits' = audits + 1
           /\ proc' = [proc EXCEPT ![p].pc = "write"]
           /\ UNCHANGED <<change, faults>>
  <2> DEFINE w == [proc[p] EXCEPT !.pc = "write"]
  <2>1. w \in ProcType /\ w.pc = "write" /\ w.mode = proc[p].mode /\ w.hours = proc[p].hours
        /\ w.at = proc[p].at /\ w.why = proc[p].why
    BY <1>1 DEF ProcType, PCs
  <2>2. proc' = [proc EXCEPT ![p] = w]
    BY <1>3
  <2> HIDE DEF w
  <2>3. Moves(p, w)
    BY <1>1, <2>1, <2>2 DEF Moves, FullTypeOK
  <2>4. WriterOK(w) /\ w.at <= now
    BY <1>1, <2>1 DEF ModesInv, WritersOK, WriterOK, ClocksPast
  <2>5. FullTypeOK'
    BY <1>1, <1>2, <1>3, <2>3 DEF FullTypeOK, Moves
  <2>6. WritersOK' /\ ClocksPast'
    BY <1>1, <1>2, <2>3, <2>4, MoveKeepsWriters DEF ModesInv
  <2>7. AuditsCover'
    <3>1. Audited' \subseteq Audited \cup {p}
      BY <2>3 DEF Audited, Moves, All
    <3>2. IsFiniteSet(Audited \cup {p}) /\ Cardinality(Audited \cup {p}) <= Cardinality(Audited) + 1
          /\ Cardinality(Audited \cup {p}) \in Nat
      <4>1. /\ IsFiniteSet(Audited \cup {p})
            /\ Cardinality(Audited \cup {p})
                 = IF p \in Audited THEN Cardinality(Audited) ELSE Cardinality(Audited) + 1
        BY CountedFinite, FS_AddElement
      <4>2. QED  BY <4>1, CountedFinite
    <3>3. Cardinality(Audited') <= Cardinality(Audited \cup {p})
      BY <3>1, <3>2, FS_Subset
    <3>4. applied' = applied /\ applied \in Nat /\ audits' = audits + 1 /\ audits \in Nat
          /\ applied + Cardinality(Audited) <= audits
      BY <1>1, <1>2, <1>3 DEF ModesInv, AuditsCover, FullTypeOK
    <3>5. applied' + Cardinality(Audited') <= audits'
      BY <3>2, <3>3, <3>4, CountedFinite, CountedFiniteNext
    <3>6. QED  BY <3>5 DEF AuditsCover
  <2>8. CronOnlyExpires'
    BY <1>1, <2>3 DEF ModesInv, CronOnlyExpires, Moves, All
  <2>9. StaleRelaxationsInFlight'
    <3>1. Cardinality(Bumping') <= Cardinality(Bumping)
      BY <1>1, <2>1, <2>3, BumpingShrinks
    <3>2. row.mode = "supervised" => stale + Cardinality(Bumping) <= Cardinality(Procs)
      BY DEF ModesInv, StaleRelaxationsInFlight, Bumping
    <3>3. row'.mode = "supervised" => stale' + Cardinality(Bumping') <= Cardinality(Procs)
      BY <1>1, <1>2, <3>1, <3>2, CountedFinite, CountedFiniteNext DEF FullTypeOK
    <3>4. QED  BY <3>3 DEF StaleRelaxationsInFlight, Bumping
  <2>10. CounterCovers' /\ RelaxedModeExpires' /\ AutoNeedsApproval' /\ BrakeHolds'
    BY <1>2 DEF ModesInv, CounterCovers, RelaxedModeExpires, AutoNeedsApproval, BrakeHolds
  <2>11. QED  BY <2>5, <2>6, <2>7, <2>8, <2>9, <2>10 DEF ModesInv
<1>4. CASE /\ Fault
           /\ change' = [change EXCEPT ![proc[p].id].state = "open"]
           /\ Return(p)
           /\ UNCHANGED audits
  <2>1. change' \in [Changes -> ChangeType]
    BY <1>1, <1>4 DEF FullTypeOK, ChangeType
  <2>2. faults' \in Nat /\ UNCHANGED <<row, now, histVars>>
    BY <1>1, <1>2, <1>4 DEF Fault, FullTypeOK, histVars
  <2>3. QED  BY <1>1, <1>4, <2>1, <2>2, QuietReturn
<1>5. QED  BY <1>3, <1>4 DEF AuditFirst

\* The UPDATE: whatever row it replaces, the new one expires in time, is "auto" only by
\* an approval that was audited, and counts from zero.
LEMMA UpdateStateStep == ASSUME ModesInv, NEW p \in All, UpdateState(p)  PROVE ModesInv'
<1> DEFINE w == proc[p]
           v == IF w.why = "approved" THEN Idle ELSE [Idle EXCEPT !.pc = "auditAfter"]
<1>1. FullTypeOK /\ w \in ProcType /\ w.pc = "write" /\ WriterOK(w) /\ w.at <= now
      /\ now \in Nat /\ w.at \in Nat /\ w.hours \in Nat /\ stale \in Nat
  BY LimitsAssumption
     DEF ModesInv, UpdateState, FullTypeOK, WritersOK, ClocksPast, ProcType
<1>2. /\ row' = [mode |-> w.mode, by |-> w.why, count |-> 0, window |-> w.at,
                 expires |-> IF w.mode = "supervised" THEN Null ELSE w.at + w.hours * Hour]
      /\ inWindow' = 0 /\ UNCHANGED <<now, faults, audits>>
      /\ stale' = IF row.mode = "supervised" /\ w.mode = "supervised" THEN stale ELSE 0
      /\ applied' = IF w.why = "approved" THEN applied + 1 ELSE applied
  BY DEF UpdateState
<1>3. change' \in [Changes -> ChangeType]
  BY <1>1 DEF UpdateState, FullTypeOK, ChangeType
<1>4. proc' = [proc EXCEPT ![p] = v]
  BY DEF UpdateState, Return
<1>5. v \in ProcType /\ v.pc \in {"idle", "auditAfter"} /\ v.at = 0
  <2>1. "auditAfter" \in PCs
    BY DEF PCs
  <2>2. QED  BY <2>1, IdleType DEF ProcType
<1> HIDE DEF v
<1>6. Moves(p, v)
  BY <1>1, <1>4, <1>5 DEF Moves, FullTypeOK
<1>7. WriterOK(v) /\ v.at <= now
  BY <1>1, <1>5 DEF WriterOK
<1> HIDE DEF w
<1>8. w.mode # "supervised" => /\ w.hours * Hour \in Nat
                              /\ w.hours * Hour <= MaxHours(w.mode) * Hour
                              /\ MaxHours(w.mode) * Hour \in Nat
  BY <1>1, MaxHoursType, ProductGrows, LimitsAssumption DEF WriterOK
<1>9. row' \in ModeRowType
  BY <1>1, <1>2, <1>8 DEF ModeRowType, ProcType, FullTypeOK
<1>10. FullTypeOK'
  BY <1>1, <1>2, <1>3, <1>6, <1>9 DEF FullTypeOK, Moves
<1>11. WritersOK' /\ ClocksPast'
  BY <1>1, <1>2, <1>6, <1>7, MoveKeepsWriters DEF ModesInv
<1>12. AuditsCover'
  <2>1. w.why = "approved" => p \in Audited
    BY <1>1 DEF ModesInv, CronOnlyExpires, Audited, All, w
  <2>2. /\ Cardinality(Audited') <= Cardinality(Audited)
        /\ p \in Audited => Cardinality(Audited') = Cardinality(Audited) - 1
    BY <1>5, <1>6, AuditedShrinks
  <2>3. QED
    BY <1>1, <1>2, <2>1, <2>2, CountedFinite, CountedFiniteNext
       DEF ModesInv, AuditsCover, FullTypeOK
<1>13. CronOnlyExpires'
  <2>1. CASE p = Cron
    BY <1>5, <1>6, <2>1 DEF CronOnlyExpires, Moves
  <2>2. CASE p # Cron
    BY <1>6, <2>2 DEF ModesInv, CronOnlyExpires, Moves, All
  <2>3. QED  BY <2>1, <2>2
<1>14. CounterCovers' /\ BrakeHolds'
  BY <1>2, LimitsAssumption DEF CounterCovers, BrakeHolds
<1>15. RelaxedModeExpires'
  <2>1. row'.mode = w.mode /\ now' = now
        /\ row'.expires = IF w.mode = "supervised" THEN Null ELSE w.at + w.hours * Hour
    BY <1>2
  <2>2. w.mode # "supervised" => /\ w.at + w.hours * Hour \in Nat
                                /\ w.at + w.hours * Hour <= now + MaxHours(w.mode) * Hour
    BY <1>1, <1>8
  <2>3. QED  BY <2>1, <2>2, NullAssumption DEF RelaxedModeExpires
<1>16. AutoNeedsApproval'
  BY <1>1, <1>2 DEF AutoNeedsApproval, WriterOK
<1>17. StaleRelaxationsInFlight'
  <2>1. Cardinality(Bumping') <= Cardinality(Bumping)
    BY <1>5, <1>6, BumpingShrinks
  <2>2. row.mode = "supervised" => stale + Cardinality(Bumping) <= Cardinality(Procs)
    BY DEF ModesInv, StaleRelaxationsInFlight, Bumping
  <2>3. row'.mode = "supervised" => stale' + Cardinality(Bumping') <= Cardinality(Procs)
    BY <1>1, <1>2, <2>1, <2>2, CountedFinite, CountedFiniteNext
  <2>4. QED  BY <2>3 DEF StaleRelaxationsInFlight, Bumping
<1>18. QED
  BY <1>10, <1>11, <1>12, <1>13, <1>14, <1>15, <1>16, <1>17 DEF ModesInv

\* The clock moves on.
LEMMA TickStep == ASSUME ModesInv, Tick  PROVE ModesInv'
<1>1. FullTypeOK /\ now \in 0..MaxTime /\ now < MaxTime /\ now' = now + 1
      /\ UNCHANGED <<row, change, proc, faults, histVars>>
  BY DEF ModesInv, FullTypeOK, Tick
<1>2. FullTypeOK'
  BY <1>1, LimitsAssumption DEF FullTypeOK, histVars
<1>3. ClocksPast'
  BY <1>1 DEF ModesInv, ClocksPast, FullTypeOK, ProcType
<1>4. RelaxedModeExpires'
  <2>1. row.mode # "supervised" => row.expires \in Nat
    BY <1>1 DEF ModesInv, FullTypeOK, ModeRowType, RelaxedModeExpires
  <2>2. MaxHours(row.mode) * Hour \in Nat
    BY MaxHoursType, LimitsAssumption
  <2>3. QED  BY <1>1, <2>1, <2>2 DEF ModesInv, RelaxedModeExpires
<1>5. QED
  BY <1>1, <1>2, <1>3, <1>4 DEF ModesInv, WritersOK, AuditsCover, Audited, CronOnlyExpires,
     CounterCovers, AutoNeedsApproval, BrakeHolds, StaleRelaxationsInFlight, histVars

\* Every step keeps the invariant.
LEMMA ModesStep == ModesInv /\ [AutonomyNext]_autonomyVars => ModesInv'
<1> SUFFICES ASSUME ModesInv, [AutonomyNext]_autonomyVars  PROVE ModesInv'
  OBVIOUS
<1>1. ASSUME NEW p \in All, AuditAfter(p)  PROVE ModesInv'
  BY <1>1, QuietReturn DEF AuditAfter, ModesInv, FullTypeOK
<1>2. ASSUME NEW p \in All, Dies(p)  PROVE ModesInv'
  BY <1>2, QuietReturn DEF Dies, Fault, ModesInv, FullTypeOK
<1>3. CASE ExpiryStep
  <2>1. Cron \in All
    BY DEF All
  <2>2. QED  BY <1>1, <1>3, <2>1, GetStateStep, ExpireReadStep, UpdateStateStep DEF ExpiryStep
<1>4. ASSUME NEW p \in Procs,
             \/ \E l \in {"relaxRead", "modeRead"} : GetState(p, l)
             \/ \E tool \in Tools, level \in Levels : RelaxRead(p, tool, level)
             \/ Bump(p)
             \/ \E m \in Modes, h \in HoursAsked :
                  \/ RequestRestrictive(p, m, h)
                  \/ \E q \in Changes : RequestDual(p, m, h, q)
             \/ \E q \in Changes : ApplyApproved(p, q)
             \/ AuditFirst(p) \/ UpdateState(p) \/ AuditAfter(p)
      PROVE  ModesInv'
  <2>1. p \in All /\ p # Cron
    BY CronAssumption DEF All
  <2>2. ASSUME NEW l \in {"relaxRead", "modeRead"}, GetState(p, l)  PROVE ModesInv'
    BY <2>1, <2>2, GetStateStep
  <2>3. QED
    BY <1>1, <1>4, <2>1, <2>2, RelaxReadStep, BumpStep, RequestRestrictiveStep, RequestDualStep,
       ApplyApprovedStep, AuditFirstStep, UpdateStateStep
<1>5. CASE UNCHANGED autonomyVars
  BY <1>5 DEF ModesInv, FullTypeOK, WritersOK, ClocksPast, AuditsCover, Audited,
     CronOnlyExpires, CounterCovers, RelaxedModeExpires, AutoNeedsApproval, BrakeHolds,
     StaleRelaxationsInFlight, autonomyVars, histVars
<1>6. QED  BY <1>2, <1>3, <1>4, <1>5, TickStep DEF AutonomyNext

\* The row starts supervised and every call idle.
LEMMA ModesInit == AutonomyInit => ModesInv
<1> SUFFICES ASSUME AutonomyInit  PROVE ModesInv
  OBVIOUS
<1>1. FullTypeOK
  BY IdleType, LimitsAssumption
     DEF AutonomyInit, FullTypeOK, ModeRowType, ChangeType, Modes, Whys
<1>2. \A p \in All : proc[p] = Idle
  BY DEF AutonomyInit
<1>3. WritersOK /\ ClocksPast /\ CronOnlyExpires
  BY <1>2, IdleType DEF AutonomyInit, WritersOK, WriterOK, ClocksPast, CronOnlyExpires, All
<1>4. Audited = {} /\ Bumping = {}
  BY <1>2, IdleType DEF Audited, Bumping, All
<1>5. AuditsCover
  BY <1>4, FS_EmptySet DEF AutonomyInit, AuditsCover
<1>6. StaleRelaxationsInFlight
  BY CountedFinite DEF AutonomyInit, StaleRelaxationsInFlight, Bumping
<1>7. CounterCovers /\ RelaxedModeExpires /\ AutoNeedsApproval /\ BrakeHolds
  BY LimitsAssumption
     DEF AutonomyInit, CounterCovers, RelaxedModeExpires, AutoNeedsApproval, BrakeHolds
<1>8. QED  BY <1>1, <1>3, <1>5, <1>6, <1>7 DEF ModesInv

-----------------------------------------------------------------------------
(* Theorems. *)

\* The inductive invariant holds in every reachable state.
THEOREM ModesSafety == AutonomySpec => []ModesInv
  BY ModesInit, ModesStep, PTL DEF AutonomySpec

\* A relaxed mode expires within its limit, "auto" is entered and renewed only by an
\* approval whose audit row came first, and the brake counts concurrent relaxations
\* exactly and stops all but those in flight.
THEOREM ModesAreSafe == AutonomySpec => []AutonomyInv
<1>1. ModesInv => AutonomyInv
  <2> SUFFICES ASSUME ModesInv  PROVE AutonomyInv
    OBVIOUS
  <2>1. AutonomyTypeOK
    BY DEF ModesInv, FullTypeOK, AutonomyTypeOK, ModeRowType, ChangeType, Whys, WritersOK, WriterOK
  <2>2. ApprovedChangesAudited
    BY CountedFinite DEF ModesInv, FullTypeOK, AuditsCover, ApprovedChangesAudited
  <2>3. QED  BY <2>1, <2>2 DEF ModesInv, AutonomyInv
<1>2. QED  BY <1>1, ModesSafety, PTL
=============================================================================
