--------------------------- MODULE Approvals_proofs ---------------------------
(***************************************************************************)
(* The safety properties of Approvals, proved for every set of requests    *)
(* and of calls, every clock bound and any number of faults.               *)
(***************************************************************************)
EXTENDS Approvals, TLAPS

-----------------------------------------------------------------------------
(* The records a call and the sweep keep. *)

\* Any request stands for "none" in an idle record.
LEMMA SomeRequestType == SomeRequest \in Requests
  BY RequestsAssumption DEF SomeRequest

\* An idle call and an idle sweep are well typed.
LEMMA IdleTypes == IdleCall \in CallType /\ IdleSweep \in SweepType
<1>1. 0 \in Time
  BY TimeAssumption DEF Time
<1>2. NoSnap \in SnapType
  BY <1>1 DEF NoSnap, SnapType
<1>3. [r \in Requests |-> NoSnap] \in [Requests -> SnapType]
  BY <1>2
<1>4. IdleCall \in CallType
  BY <1>1, SomeRequestType DEF IdleCall, CallType, CallPC
<1>5. IdleSweep \in SweepType
  BY <1>1, <1>3, SomeRequestType DEF IdleSweep, SweepType, SweepPC
<1>6. QED  BY <1>4, <1>5

\* What Goto does to the calls: c moves to l and keeps its locals unless it is
\* over, the others stay where they are.
LEMMA GotoEffect ==
  ASSUME call \in [Calls -> CallType], NEW c \in Calls, NEW l \in CallPC, Goto(c, l)
  PROVE  /\ call' \in [Calls -> CallType]
         /\ call'[c].pc = l
         /\ l # "idle" => /\ call'[c].req = call[c].req
                          /\ call'[c].at = call[c].at
                          /\ call'[c].known = call[c].known
         /\ l = "idle" => call'[c].at = 0
         /\ \A d \in Calls : d # c => call'[d] = call[d]
<1>1. call[c] \in CallType
  OBVIOUS
<1>2. IdleCall.pc = "idle" /\ IdleCall.at = 0
  BY DEF IdleCall
<1>3. [call[c] EXCEPT !.pc = l] \in CallType
  BY <1>1 DEF CallType
<1>4. QED
  BY <1>1, <1>2, <1>3, IdleTypes DEF Goto, CallType

\* What SweepGoto does to the sweep.
LEMMA SweepGotoEffect ==
  ASSUME sweep \in SweepType, NEW l \in SweepPC, SweepGoto(l)
  PROVE  /\ sweep' \in SweepType
         /\ sweep'.pc = l
         /\ l # "idle" => /\ sweep'.cur = sweep.cur
                          /\ sweep'.todo = sweep.todo
                          /\ sweep'.snap = sweep.snap
         /\ l = "idle" => sweep'.todo = {}
<1>1. IdleSweep.pc = "idle" /\ IdleSweep.todo = {}
  BY DEF IdleSweep
<1>2. QED
  BY <1>1, IdleTypes DEF SweepGoto, SweepType

\* What Take does to the sweep.
LEMMA TakeEffect ==
  ASSUME sweep \in SweepType, NEW r \in Requests, NEW l \in SweepPC, Take(r, l)
  PROVE  /\ sweep' \in SweepType
         /\ sweep'.pc = l
         /\ sweep'.cur = r
         /\ sweep'.todo = sweep.todo \ {r}
         /\ sweep'.snap = sweep.snap
  BY DEF Take, SweepType

\* recordApproval answers with one of four control points.
LEMMA RecordOutcomeType ==
  ASSUME NEW r, NEW t
  PROVE  RecordOutcome(r, t) \in {"idle", "claim", "arm"}
  BY DEF RecordOutcome

\* A written audit row is one more row of its status and touches no other.
LEMMA AuditEffect ==
  ASSUME audit \in [Requests -> [Status -> Nat]], faults \in Nat,
         NEW r \in Requests, NEW s \in Status, Audited(r, s)
  PROVE  /\ audit' \in [Requests -> [Status -> Nat]]
         /\ faults' \in Nat
         /\ audit'[r][s] = audit[r][s] + 1
         /\ \A q \in Requests : \A t \in Status :
              q # r \/ t # s => audit'[q][t] = audit[q][t]
  BY DEF Audited, AuditRow

\* A failed append changes nothing but the number of faults.
LEMMA AuditFailsEffect ==
  ASSUME audit \in [Requests -> [Status -> Nat]], faults \in Nat, AuditFails
  PROVE  audit' = audit /\ faults' \in Nat
  BY DEF AuditFails, Fault

-----------------------------------------------------------------------------
(* Type correctness. *)

\* Every step keeps the types.
LEMMA TypeStep == TypeOK /\ [Next]_vars => TypeOK'
<1> SUFFICES ASSUME TypeOK, [Next]_vars PROVE TypeOK'
  OBVIOUS
<1> USE DEF TypeOK, rowVars, histVars
<1>0. call \in [Calls -> CallType] /\ sweep \in SweepType /\ now \in Time
  OBVIOUS
<1>pc. /\ \A l \in {"idle", "record", "arm", "claim", "auditApproval", "execute",
                    "running", "releaseFailed", "releaseAudit", "remove",
                    "auditFailure", "rejClaim", "rejAudit", "rejRelease",
                    "rejRemove", "stuckAudit", "stuckRemove"} : l \in CallPC
       /\ \A l \in {"idle", "loop", "warn", "claim", "audit", "release",
                    "remove"} : l \in SweepPC
  BY DEF CallPC, SweepPC, CallHolding, ApproveHolding, RejectHolding, SweepHolding
<1>ct. \A d \in Calls : call[d].req \in Requests /\ call[d].at \in Time
  BY DEF CallType
<1>1. ASSUME NEW r \in Requests, InsertPending(r) PROVE TypeOK'
  BY <1>1 DEF InsertPending
<1>2. ASSUME NEW r \in Requests, AuditPending(r) PROVE TypeOK'
  BY <1>2, AuditEffect, AuditFailsEffect DEF AuditPending, Status
<1>3. ASSUME NEW c \in Calls, NEW r \in Requests, Approve(c, r) PROVE TypeOK'
  BY <1>3, <1>pc DEF Approve, CallType
<1>4. ASSUME NEW c \in Calls, NEW r \in Requests, Reject(c, r) PROVE TypeOK'
  <2>1. 0 \in Time
    BY TimeAssumption DEF Time
  <2>2. QED BY <1>4, <1>pc, <2>1 DEF Reject, CallType
<1>5. ASSUME NEW c \in Calls, RecordApproval(c) PROVE TypeOK'
  BY <1>5, <1>pc, GotoEffect, RecordOutcomeType DEF RecordApproval
<1>6. ASSUME NEW c \in Calls, ArmFirstApproval(c) PROVE TypeOK'
  BY <1>6, <1>pc, <1>ct, GotoEffect DEF ArmFirstApproval
<1>7. ASSUME NEW c \in Calls, ClaimApproved(c) PROVE TypeOK'
  <2>1. \E l \in {"auditApproval", "idle"} : Goto(c, l)
    BY <1>7 DEF ClaimApproved
  <2>2. call' \in [Calls -> CallType]
    BY <2>1, <1>pc, GotoEffect
  <2>3. executingAt' \in [Requests -> Time \cup {Null}]
    BY <1>7, <1>ct DEF ClaimApproved, ClaimForExecution
  <2>4. QED BY <1>7, <2>2, <2>3 DEF ClaimApproved
<1>8. ASSUME NEW c \in Calls, AuditApproval(c) PROVE TypeOK'
  BY <1>8, <1>pc, <1>ct, GotoEffect, AuditEffect, AuditFailsEffect
  DEF AuditApproval, Status
<1>9. ASSUME NEW c \in Calls, ReleaseAfterAudit(c) PROVE TypeOK'
  BY <1>9, <1>pc, <1>ct, GotoEffect DEF ReleaseAfterAudit, ReleaseClaim
<1>10. ASSUME NEW c \in Calls, Execute(c) PROVE TypeOK'
  BY <1>10, <1>pc, <1>ct, GotoEffect DEF Execute
<1>11. ASSUME NEW c \in Calls, ExecutorReturns(c) PROVE TypeOK'
  BY <1>11, <1>pc, <1>ct, GotoEffect DEF ExecutorReturns
<1>12. ASSUME NEW c \in Calls, ExecutorThrows(c) PROVE TypeOK'
  BY <1>12, <1>pc, <1>ct, GotoEffect DEF ExecutorThrows, Fault
<1>13. ASSUME NEW c \in Calls, ReleaseAfterFailure(c) PROVE TypeOK'
  BY <1>13, <1>pc, <1>ct, GotoEffect DEF ReleaseAfterFailure, ReleaseClaim
<1>14. ASSUME NEW c \in Calls, AuditFailure(c) PROVE TypeOK'
  BY <1>14, <1>pc, <1>ct, GotoEffect, AuditEffect, AuditFailsEffect
  DEF AuditFailure, Status
<1>15. ASSUME NEW c \in Calls, RemoveExecuted(c) PROVE TypeOK'
  BY <1>15, <1>pc, <1>ct, GotoEffect DEF RemoveExecuted, RemovePending
<1>16. ASSUME NEW c \in Calls, ClaimRejected(c) PROVE TypeOK'
  <2>1. \E l \in {"rejAudit", "stuckAudit", "idle"} : Goto(c, l)
    BY <1>16 DEF ClaimRejected
  <2>2. call' \in [Calls -> CallType]
    BY <2>1, <1>pc, GotoEffect
  <2>3. executingAt' \in [Requests -> Time \cup {Null}]
    BY <1>16, <1>ct DEF ClaimRejected, ClaimForExecution
  <2>4. QED BY <1>16, <2>2, <2>3 DEF ClaimRejected
<1>17. ASSUME NEW c \in Calls, AuditRejection(c) PROVE TypeOK'
  BY <1>17, <1>pc, <1>ct, GotoEffect, AuditEffect, AuditFailsEffect
  DEF AuditRejection, Status
<1>18. ASSUME NEW c \in Calls, ReleaseRejection(c) PROVE TypeOK'
  BY <1>18, <1>pc, <1>ct, GotoEffect DEF ReleaseRejection, ReleaseClaim
<1>19. ASSUME NEW c \in Calls, RemoveRejected(c) PROVE TypeOK'
  BY <1>19, <1>pc, <1>ct, GotoEffect DEF RemoveRejected, RemovePending
<1>20. ASSUME NEW c \in Calls, AuditStuckRejection(c) PROVE TypeOK'
  BY <1>20, <1>pc, <1>ct, GotoEffect, AuditEffect, AuditFailsEffect
  DEF AuditStuckRejection, Status
<1>21. ASSUME NEW c \in Calls, RemoveStuck(c) PROVE TypeOK'
  BY <1>21, <1>pc, <1>ct, GotoEffect DEF RemoveStuck, RemovePending
<1>22. ASSUME NEW c \in Calls, CallDies(c) PROVE TypeOK'
  <2>1. dead' \in [Requests -> {"yes", "no"}]
    BY <1>22, <1>ct DEF CallDies, MarkDead
  <2>2. call' \in [Calls -> CallType]
    BY <1>22, <1>pc, GotoEffect DEF CallDies
  <2>3. QED BY <1>22, <2>1, <2>2 DEF CallDies, Fault
<1>23. CASE SweepStart
  <2>1. sweep'.pc = "loop" /\ sweep' \in SweepType
    <3>1. 0 \in Time
      BY TimeAssumption DEF Time
    <3>2. NoSnap \in SnapType
      BY <3>1 DEF NoSnap, SnapType
    <3>3. \A r \in Requests : [created |-> created[r], escalated |-> escalated[r],
                               executingAt |-> executingAt[r]] \in SnapType
      BY DEF SnapType
    <3>4. sweep'.snap \in [Requests -> SnapType]
      BY <1>23, <3>2, <3>3 DEF SweepStart
    <3>5. QED
      BY <1>23, <1>pc, <3>4, SomeRequestType DEF SweepStart, SweepType
  <2>2. QED BY <1>23, <2>1 DEF SweepStart
<1>24. CASE SweepEnd
  BY <1>24, <1>pc, SweepGotoEffect DEF SweepEnd
<1>25. ASSUME NEW r \in Requests, SweepExecuting(r) PROVE TypeOK'
  BY <1>25, <1>pc, TakeEffect DEF SweepExecuting
<1>26. ASSUME NEW r \in Requests, SweepNone(r) PROVE TypeOK'
  BY <1>26, <1>pc, TakeEffect DEF SweepNone
<1>27. ASSUME NEW r \in Requests, SweepWarn(r) PROVE TypeOK'
  <2>1. sweep.at \in Time
    BY DEF SweepType
  <2>2. QED BY <1>27, <1>pc, <2>1, TakeEffect DEF SweepWarn
<1>28. CASE SweepNotify
  BY <1>28, <1>pc, SweepGotoEffect DEF SweepNotify, SweepType
<1>29. ASSUME NEW r \in Requests, SweepExpire(r) PROVE TypeOK'
  BY <1>29, <1>pc, TakeEffect DEF SweepExpire
<1>30. CASE SweepClaim
  BY <1>30, <1>pc, SweepGotoEffect DEF SweepClaim, ClaimForExecution
<1>31. CASE SweepAudit
  <2>1. sweep.cur \in Requests
    BY DEF SweepType
  <2>2. QED
    BY <1>31, <1>pc, <2>1, SweepGotoEffect, AuditEffect, AuditFailsEffect
    DEF SweepAudit, Status
<1>32. CASE SweepRelease
  BY <1>32, <1>pc, SweepGotoEffect DEF SweepRelease, ReleaseClaim
<1>33. CASE SweepRemove
  BY <1>33, <1>pc, SweepGotoEffect DEF SweepRemove, RemovePending
<1>34. CASE SweepDies
  <2>1. dead' \in [Requests -> {"yes", "no"}]
    BY <1>34 DEF SweepDies, MarkDead, SweepType
  <2>2. sweep' \in SweepType
    BY <1>34, <1>pc, SweepGotoEffect DEF SweepDies
  <2>3. QED BY <1>34, <2>1, <2>2 DEF SweepDies, Fault
<1>35. CASE Tick
  BY <1>35, TimeAssumption DEF Tick, Time
<1>36. CASE UNCHANGED vars
  BY <1>36 DEF vars
<1>37. QED
  BY <1>1, <1>2, <1>3, <1>4, <1>5, <1>6, <1>7, <1>8, <1>9, <1>10, <1>11, <1>12,
     <1>13, <1>14, <1>15, <1>16, <1>17, <1>18, <1>19, <1>20, <1>21, <1>22, <1>23,
     <1>24, <1>25, <1>26, <1>27, <1>28, <1>29, <1>30, <1>31, <1>32, <1>33, <1>34,
     <1>35, <1>36
  DEF Next, CallStep, SweepStep

\* The control points, the clock and the columns keep their types.
THEOREM TypeCorrect == Spec => []TypeOK
<1>1. Init => TypeOK
  <2>1. 0 \in Time
    BY TimeAssumption DEF Time
  <2>2. QED BY <2>1, IdleTypes DEF Init, TypeOK
<1>2. QED BY <1>1, TypeStep, PTL DEF Spec

-----------------------------------------------------------------------------
(* What a step can do to the claim of one request and to those who hold it. *)

\* Nobody new holds r.
NobodyNew(r) ==
  /\ \A d \in Calls : Holds(d, r)' => Holds(d, r)
  /\ SweepHolds(r)' => SweepHolds(r)

Quiet(r) == NobodyNew(r) /\ (Taken(r) => Taken(r)')

Inserts(r) == NobodyNew(r) /\ rowState[r] = "none"

CallClaims(c, r) ==
  /\ ~Taken(r) /\ Taken(r)'
  /\ \A d \in Calls \ {c} : Holds(d, r)' => Holds(d, r)
  /\ SweepHolds(r)' => SweepHolds(r)

SweepClaims(r) ==
  /\ ~Taken(r) /\ Taken(r)'
  /\ \A d \in Calls : Holds(d, r)' => Holds(d, r)

CallReleases(c, r) ==
  /\ Holds(c, r) /\ ~Holds(c, r)'
  /\ call[c].pc \in {"releaseAudit", "releaseFailed", "rejRelease"}
  /\ NobodyNew(r)

SweepReleases(r) ==
  /\ SweepHolds(r) /\ ~SweepHolds(r)'
  /\ sweep.pc = "release"
  /\ NobodyNew(r)

Shape(r) ==
  \/ Quiet(r) \/ Inserts(r) \/ SweepClaims(r) \/ SweepReleases(r)
  \/ \E c \in Calls : CallClaims(c, r) \/ CallReleases(c, r)

\* A call that moves to a point where it holds nothing, or that held already,
\* adds no holder.
LEMMA CallMoveAddsNobody ==
  ASSUME TypeOK, NEW c \in Calls, NEW l \in CallPC, Goto(c, l), sweep' = sweep,
         l \in CallHolding => call[c].pc \in CallHolding, NEW r \in Requests
  PROVE  NobodyNew(r)
<1>1. call \in [Calls -> CallType]
  BY DEF TypeOK
<1>2. \A d \in Calls : Holds(d, r)' => Holds(d, r)
  BY <1>1, GotoEffect DEF Holds, CallHolding, ApproveHolding, RejectHolding
<1>3. QED
  BY <1>2 DEF NobodyNew, SweepHolds

\* The same for the sweep.
LEMMA SweepMoveAddsNobody ==
  ASSUME TypeOK, NEW l \in SweepPC, SweepGoto(l), call' = call,
         l \in SweepHolding => sweep.pc \in SweepHolding, NEW r \in Requests
  PROVE  NobodyNew(r)
<1>1. SweepHolds(r)' => SweepHolds(r)
  BY SweepGotoEffect DEF TypeOK, SweepHolds, SweepHolding
<1>2. QED
  BY <1>1 DEF NobodyNew, Holds

\* Taking the next row of the snapshot holds nothing.
LEMMA TakeAddsNobody ==
  ASSUME TypeOK, NEW q \in Requests, NEW l \in SweepPC \ SweepHolding, Take(q, l),
         call' = call, NEW r \in Requests
  PROVE  NobodyNew(r)
<1>1. ~SweepHolds(r)'
  BY TakeEffect DEF TypeOK, SweepHolds
<1>2. QED
  BY <1>1 DEF NobodyNew, Holds

\* The claim of a request is taken only when it is free, and given back only by
\* the one who holds it.
LEMMA StepShape ==
  ASSUME TypeOK, Next, NEW r \in Requests
  PROVE  Shape(r)
<1> USE DEF rowVars, histVars
<1>pc. /\ CallPC = {"idle", "record", "arm", "claim", "auditApproval", "execute",
                    "running", "releaseFailed", "releaseAudit", "remove",
                    "auditFailure", "rejClaim", "rejAudit", "rejRelease",
                    "rejRemove", "stuckAudit", "stuckRemove"}
       /\ CallHolding = {"auditApproval", "execute", "running", "releaseFailed",
                         "releaseAudit", "remove", "rejAudit", "rejRelease", "rejRemove"}
       /\ SweepPC = {"idle", "loop", "warn", "claim", "audit", "release", "remove"}
       /\ SweepHolding = {"audit", "release", "remove"}
  BY DEF CallPC, SweepPC, CallHolding, ApproveHolding, RejectHolding, SweepHolding
<1>t. /\ call \in [Calls -> CallType] /\ sweep \in SweepType /\ sweep.cur \in Requests
      /\ \A d \in Calls : call[d].req \in Requests
      /\ rowState \in [Requests -> {"none", "live", "gone"}]
      /\ executingAt \in [Requests -> Time \cup {Null}] /\ now \in Time
  BY DEF TypeOK, CallType, SweepType
<1>q. ASSUME NobodyNew(r), UNCHANGED <<rowState, executingAt>> PROVE Shape(r)
  BY <1>q DEF Shape, Quiet, Taken, Claimable, Live
<1>k. ASSUME NEW q \in Requests, NobodyNew(r), RemovePending(q), UNCHANGED executingAt
      PROVE  Shape(r)
  BY <1>k, <1>t DEF Shape, Quiet, Taken, Claimable, Live, RemovePending
<1>x. Null \notin Time
  BY NullAssumption DEF Time
<1>1. ASSUME NEW q \in Requests, InsertPending(q) PROVE Shape(r)
  <2>1. NobodyNew(r)
    BY <1>1 DEF InsertPending, NobodyNew, Holds, SweepHolds
  <2>2. CASE q = r
    BY <1>1, <2>1, <2>2 DEF InsertPending, Shape, Inserts
  <2>3. CASE q # r
    BY <1>1, <1>t, <2>1, <2>3 DEF InsertPending, Shape, Quiet, Taken, Claimable, Live
  <2>4. QED BY <2>2, <2>3
<1>2. ASSUME NEW q \in Requests, AuditPending(q) PROVE Shape(r)
  BY <1>2, <1>q DEF AuditPending, NobodyNew, Holds, SweepHolds
<1>3. ASSUME NEW c \in Calls, NEW q \in Requests, Approve(c, q) \/ Reject(c, q)
      PROVE  Shape(r)
  <2>1. NobodyNew(r)
    BY <1>3, <1>pc, <1>t DEF Approve, Reject, NobodyNew, Holds, SweepHolds
  <2>2. QED BY <1>3, <1>q, <2>1 DEF Approve, Reject
<1>4. ASSUME NEW c \in Calls, RecordApproval(c) PROVE Shape(r)
  BY <1>4, <1>q, <1>pc, CallMoveAddsNobody, RecordOutcomeType DEF RecordApproval
<1>5. ASSUME NEW c \in Calls, ArmFirstApproval(c) PROVE Shape(r)
  BY <1>5, <1>q, <1>pc, CallMoveAddsNobody DEF ArmFirstApproval
<1>6. ASSUME NEW c \in Calls, ClaimApproved(c) \/ ClaimRejected(c) PROVE Shape(r)
  <2>1. CASE Claimable(call[c].req) /\ call[c].req = r
    <3>1. \E l \in CallPC : Goto(c, l)
      BY <1>6, <1>pc DEF ClaimApproved, ClaimRejected
    <3>2. \A d \in Calls \ {c} : Holds(d, r)' => Holds(d, r)
      BY <3>1, <1>t, GotoEffect DEF Holds
    <3>3. SweepHolds(r)' => SweepHolds(r)
      BY <1>6 DEF ClaimApproved, ClaimRejected, SweepHolds
    <3>4. ~Taken(r) /\ Taken(r)'
      BY <1>6, <2>1, <1>t, <1>x
      DEF ClaimApproved, ClaimRejected, ClaimForExecution, Taken, Claimable
    <3>5. QED BY <3>2, <3>3, <3>4 DEF Shape, CallClaims
  <2>2. CASE Claimable(call[c].req) /\ call[c].req # r
    <3>1. Goto(c, "auditApproval") \/ Goto(c, "rejAudit")
      BY <1>6, <2>2 DEF ClaimApproved, ClaimRejected
    <3>2. \A d \in Calls : Holds(d, r)' => Holds(d, r)
      BY <3>1, <1>t, <1>pc, <2>2, GotoEffect DEF Holds
    <3>3. SweepHolds(r)' => SweepHolds(r)
      BY <1>6 DEF ClaimApproved, ClaimRejected, SweepHolds
    <3>4. Taken(r) => Taken(r)'
      BY <1>6, <2>2, <1>t
      DEF ClaimApproved, ClaimRejected, ClaimForExecution, Taken, Claimable, Live
    <3>5. QED BY <3>2, <3>3, <3>4 DEF Shape, Quiet, NobodyNew
  <2>3. CASE ~Claimable(call[c].req)
    BY <1>6, <2>3, <1>q, <1>pc, CallMoveAddsNobody DEF ClaimApproved, ClaimRejected
  <2>4. QED BY <2>1, <2>2, <2>3
<1>7. ASSUME NEW c \in Calls, AuditApproval(c) PROVE Shape(r)
  BY <1>7, <1>q, <1>pc, CallMoveAddsNobody DEF AuditApproval
<1>8. ASSUME NEW c \in Calls,
             ReleaseAfterAudit(c) \/ ReleaseAfterFailure(c) \/ ReleaseRejection(c)
      PROVE  Shape(r)
  <2>1. \E l \in {"idle", "auditFailure"} : Goto(c, l)
    BY <1>8 DEF ReleaseAfterAudit, ReleaseAfterFailure, ReleaseRejection
  <2>2. sweep' = sweep
    BY <1>8 DEF ReleaseAfterAudit, ReleaseAfterFailure, ReleaseRejection
  <2>3. NobodyNew(r)
    BY <2>1, <2>2, <1>pc, CallMoveAddsNobody
  <2>4. CASE call[c].req = r
    <3>1. Holds(c, r) /\ call[c].pc \in {"releaseAudit", "releaseFailed", "rejRelease"}
      BY <1>8, <2>4, <1>pc
      DEF ReleaseAfterAudit, ReleaseAfterFailure, ReleaseRejection, Holds
    <3>2. ~Holds(c, r)'
      BY <2>1, <1>t, <1>pc, GotoEffect DEF Holds
    <3>3. QED BY <2>3, <3>1, <3>2 DEF Shape, CallReleases
  <2>5. CASE call[c].req # r
    <3>1. Taken(r) => Taken(r)'
      BY <1>8, <2>5, <1>t
      DEF ReleaseAfterAudit, ReleaseAfterFailure, ReleaseRejection, ReleaseClaim,
          Taken, Claimable, Live
    <3>2. QED BY <2>3, <3>1 DEF Shape, Quiet
  <2>6. QED BY <2>4, <2>5
<1>9. ASSUME NEW c \in Calls, Execute(c) PROVE Shape(r)
  BY <1>9, <1>q, <1>pc, CallMoveAddsNobody DEF Execute
<1>10. ASSUME NEW c \in Calls, ExecutorReturns(c) PROVE Shape(r)
  BY <1>10, <1>q, <1>pc, CallMoveAddsNobody DEF ExecutorReturns
<1>11. ASSUME NEW c \in Calls, ExecutorThrows(c) PROVE Shape(r)
  BY <1>11, <1>q, <1>pc, CallMoveAddsNobody DEF ExecutorThrows
<1>12. ASSUME NEW c \in Calls, AuditFailure(c) PROVE Shape(r)
  BY <1>12, <1>q, <1>pc, CallMoveAddsNobody DEF AuditFailure
<1>13. ASSUME NEW c \in Calls, RemoveExecuted(c) \/ RemoveRejected(c) PROVE Shape(r)
  <2>1. NobodyNew(r)
    BY <1>13, <1>pc, CallMoveAddsNobody DEF RemoveExecuted, RemoveRejected
  <2>2. QED BY <1>13, <1>t, <1>k, <2>1 DEF RemoveExecuted, RemoveRejected
<1>14. ASSUME NEW c \in Calls, AuditRejection(c) PROVE Shape(r)
  BY <1>14, <1>q, <1>pc, CallMoveAddsNobody DEF AuditRejection
<1>15. ASSUME NEW c \in Calls, AuditStuckRejection(c) PROVE Shape(r)
  BY <1>15, <1>q, <1>pc, CallMoveAddsNobody DEF AuditStuckRejection
<1>16. ASSUME NEW c \in Calls, RemoveStuck(c) PROVE Shape(r)
  <2>1. NobodyNew(r)
    BY <1>16, <1>pc, CallMoveAddsNobody DEF RemoveStuck
  <2>2. QED BY <1>16, <1>t, <1>k, <1>q, <2>1 DEF RemoveStuck
<1>17. ASSUME NEW c \in Calls, CallDies(c) PROVE Shape(r)
  BY <1>17, <1>q, <1>pc, CallMoveAddsNobody DEF CallDies
<1>18. CASE SweepStart
  <2>1. NobodyNew(r)
    BY <1>18, <1>pc DEF SweepStart, NobodyNew, Holds, SweepHolds
  <2>2. QED BY <1>18, <1>q, <2>1 DEF SweepStart
<1>19. CASE SweepEnd
  BY <1>19, <1>q, <1>pc, SweepMoveAddsNobody DEF SweepEnd
<1>20. ASSUME NEW q \in Requests, SweepExecuting(q) PROVE Shape(r)
  BY <1>20, <1>q, <1>pc, TakeAddsNobody DEF SweepExecuting
<1>21. ASSUME NEW q \in Requests, SweepNone(q) PROVE Shape(r)
  BY <1>21, <1>q, <1>pc, TakeAddsNobody DEF SweepNone
<1>22. ASSUME NEW q \in Requests, SweepWarn(q) PROVE Shape(r)
  BY <1>22, <1>q, <1>pc, TakeAddsNobody DEF SweepWarn
<1>23. CASE SweepNotify
  BY <1>23, <1>q, <1>pc, SweepMoveAddsNobody DEF SweepNotify
<1>24. ASSUME NEW q \in Requests, SweepExpire(q) PROVE Shape(r)
  BY <1>24, <1>q, <1>pc, TakeAddsNobody DEF SweepExpire
<1>25. CASE SweepClaim
  <2>1. \A d \in Calls : Holds(d, r)' => Holds(d, r)
    BY <1>25 DEF SweepClaim, Holds
  <2>2. CASE Claimable(sweep.cur) /\ sweep.cur = r
    <3>1. ~Taken(r) /\ Taken(r)'
      BY <1>25, <2>2, <1>t, <1>x DEF SweepClaim, ClaimForExecution, Taken, Claimable
    <3>2. QED BY <2>1, <3>1 DEF Shape, SweepClaims
  <2>3. CASE Claimable(sweep.cur) /\ sweep.cur # r
    <3>1. ~SweepHolds(r)'
      BY <1>25, <2>3, <1>t, <1>pc, SweepGotoEffect DEF SweepClaim, SweepHolds
    <3>2. Taken(r) => Taken(r)'
      BY <1>25, <2>3, <1>t DEF SweepClaim, ClaimForExecution, Taken, Claimable, Live
    <3>3. QED BY <2>1, <3>1, <3>2 DEF Shape, Quiet, NobodyNew
  <2>4. CASE ~Claimable(sweep.cur)
    BY <1>25, <2>4, <1>q, <1>pc, SweepMoveAddsNobody DEF SweepClaim
  <2>5. QED BY <2>2, <2>3, <2>4
<1>26. CASE SweepAudit
  BY <1>26, <1>q, <1>pc, SweepMoveAddsNobody DEF SweepAudit
<1>27. CASE SweepRelease
  <2>1. NobodyNew(r)
    BY <1>27, <1>pc, SweepMoveAddsNobody DEF SweepRelease
  <2>2. CASE sweep.cur = r
    <3>1. SweepHolds(r) /\ ~SweepHolds(r)' /\ sweep.pc = "release"
      BY <1>27, <2>2, <1>t, <1>pc, SweepGotoEffect DEF SweepRelease, SweepHolds
    <3>2. QED BY <2>1, <3>1 DEF Shape, SweepReleases
  <2>3. CASE sweep.cur # r
    <3>1. Taken(r) => Taken(r)'
      BY <1>27, <2>3, <1>t DEF SweepRelease, ReleaseClaim, Taken, Claimable, Live
    <3>2. QED BY <2>1, <3>1 DEF Shape, Quiet
  <2>4. QED BY <2>2, <2>3
<1>28. CASE SweepRemove
  <2>1. NobodyNew(r)
    BY <1>28, <1>pc, SweepMoveAddsNobody DEF SweepRemove
  <2>2. QED BY <1>28, <1>t, <1>k, <2>1 DEF SweepRemove
<1>29. CASE SweepDies
  BY <1>29, <1>q, <1>pc, SweepMoveAddsNobody DEF SweepDies
<1>30. CASE Tick
  BY <1>30, <1>q DEF Tick, NobodyNew, Holds, SweepHolds
<1>31. QED
  BY <1>1, <1>2, <1>3, <1>4, <1>5, <1>6, <1>7, <1>8, <1>9, <1>10, <1>11, <1>12, <1>13,
     <1>14, <1>15, <1>16, <1>17, <1>18, <1>19, <1>20, <1>21, <1>22, <1>23, <1>24,
     <1>25, <1>26, <1>27, <1>28, <1>29, <1>30
  DEF Next, CallStep, SweepStep

-----------------------------------------------------------------------------
(* Who changes what. *)

\* An inserted row never becomes one that was not.
LEMMA RowsStay ==
  ASSUME TypeOK, Next, NEW r \in Requests, rowState[r] # "none"
  PROVE  rowState'[r] # "none"
  BY DEF TypeOK, Next, CallStep, SweepStep, rowVars, histVars, RemovePending,
      InsertPending, AuditPending, Approve, Reject, RecordApproval,
      ArmFirstApproval, ClaimApproved, AuditApproval, ReleaseAfterAudit,
      Execute, ExecutorReturns, ExecutorThrows, ReleaseAfterFailure,
      AuditFailure, RemoveExecuted, ClaimRejected, AuditRejection,
      ReleaseRejection, RemoveRejected, AuditStuckRejection, RemoveStuck,
      CallDies, SweepStart, SweepEnd, SweepExecuting, SweepNone, SweepWarn,
      SweepNotify, SweepExpire, SweepClaim, SweepAudit, SweepRelease,
      SweepRemove, SweepDies, Tick

\* Only a returning executor adds to done.
LEMMA DoneChanges ==
  ASSUME TypeOK, Next
  PROVE  done' = done \/ \E c \in Calls : ExecutorReturns(c)
  BY DEF TypeOK, Next, CallStep, SweepStep, rowVars, histVars,
      InsertPending, AuditPending, Approve, Reject, RecordApproval,
      ArmFirstApproval, ClaimApproved, AuditApproval, ReleaseAfterAudit,
      Execute, ExecutorReturns, ExecutorThrows, ReleaseAfterFailure,
      AuditFailure, RemoveExecuted, ClaimRejected, AuditRejection,
      ReleaseRejection, RemoveRejected, AuditStuckRejection, RemoveStuck,
      CallDies, SweepStart, SweepEnd, SweepExecuting, SweepNone, SweepWarn,
      SweepNotify, SweepExpire, SweepClaim, SweepAudit, SweepRelease,
      SweepRemove, SweepDies, Tick

\* Only Execute invokes the executor.
LEMMA RunsChanges ==
  ASSUME TypeOK, Next
  PROVE  runs' = runs \/ \E c \in Calls : Execute(c)
  BY DEF TypeOK, Next, CallStep, SweepStep, rowVars, histVars,
      InsertPending, AuditPending, Approve, Reject, RecordApproval,
      ArmFirstApproval, ClaimApproved, AuditApproval, ReleaseAfterAudit,
      Execute, ExecutorReturns, ExecutorThrows, ReleaseAfterFailure,
      AuditFailure, RemoveExecuted, ClaimRejected, AuditRejection,
      ReleaseRejection, RemoveRejected, AuditStuckRejection, RemoveStuck,
      CallDies, SweepStart, SweepEnd, SweepExecuting, SweepNone, SweepWarn,
      SweepNotify, SweepExpire, SweepClaim, SweepAudit, SweepRelease,
      SweepRemove, SweepDies, Tick

\* Only a death leaves a claim behind.
LEMMA DeadChanges ==
  ASSUME TypeOK, Next
  PROVE  dead' = dead \/ SweepDies \/ \E c \in Calls : CallDies(c)
  BY DEF TypeOK, Next, CallStep, SweepStep, rowVars, histVars,
      InsertPending, AuditPending, Approve, Reject, RecordApproval,
      ArmFirstApproval, ClaimApproved, AuditApproval, ReleaseAfterAudit,
      Execute, ExecutorReturns, ExecutorThrows, ReleaseAfterFailure,
      AuditFailure, RemoveExecuted, ClaimRejected, AuditRejection,
      ReleaseRejection, RemoveRejected, AuditStuckRejection, RemoveStuck,
      CallDies, SweepStart, SweepEnd, SweepExecuting, SweepNone, SweepWarn,
      SweepNotify, SweepExpire, SweepClaim, SweepAudit, SweepRelease,
      SweepRemove, SweepDies, Tick

\* Only the first approval sets first_approved_at.
LEMMA FirstAtChanges ==
  ASSUME TypeOK, Next
  PROVE  firstAt' = firstAt \/ \E c \in Calls : ArmFirstApproval(c)
  BY DEF TypeOK, Next, CallStep, SweepStep, rowVars, histVars,
      InsertPending, AuditPending, Approve, Reject, RecordApproval,
      ArmFirstApproval, ClaimApproved, AuditApproval, ReleaseAfterAudit,
      Execute, ExecutorReturns, ExecutorThrows, ReleaseAfterFailure,
      AuditFailure, RemoveExecuted, ClaimRejected, AuditRejection,
      ReleaseRejection, RemoveRejected, AuditStuckRejection, RemoveStuck,
      CallDies, SweepStart, SweepEnd, SweepExecuting, SweepNone, SweepWarn,
      SweepNotify, SweepExpire, SweepClaim, SweepAudit, SweepRelease,
      SweepRemove, SweepDies, Tick

\* Only the sweep warns the owner.
LEMMA WarnedChanges ==
  ASSUME TypeOK, Next
  PROVE  warned' = warned \/ SweepNotify
  BY DEF TypeOK, Next, CallStep, SweepStep, rowVars, histVars,
      InsertPending, AuditPending, Approve, Reject, RecordApproval,
      ArmFirstApproval, ClaimApproved, AuditApproval, ReleaseAfterAudit,
      Execute, ExecutorReturns, ExecutorThrows, ReleaseAfterFailure,
      AuditFailure, RemoveExecuted, ClaimRejected, AuditRejection,
      ReleaseRejection, RemoveRejected, AuditStuckRejection, RemoveStuck,
      CallDies, SweepStart, SweepEnd, SweepExecuting, SweepNone, SweepWarn,
      SweepNotify, SweepExpire, SweepClaim, SweepAudit, SweepRelease,
      SweepRemove, SweepDies, Tick

\* The only writer of 'timeout' and 'abandoned' rows is the sweep, and of
\* 'approved' rows a call about to execute.
LEMMA AuditChanges ==
  ASSUME TypeOK, Next
  PROVE  \/ audit' = audit
         \/ \E r \in Requests : \E s \in Status :
              /\ Audited(r, s)
              /\ s \in {"timeout", "abandoned"} => SweepAudit /\ r = sweep.cur
<1>t. /\ sweep.cur \in Requests
      /\ \A d \in Calls : call[d].req \in Requests
  BY DEF TypeOK, CallType, SweepType
<1>s. \A s \in {"pending", "approved", "rejected", "failed"} :
        s \in Status /\ s \notin {"timeout", "abandoned"}
  BY DEF Status
<1>1. CASE SweepAudit
  BY <1>1, <1>t DEF SweepAudit, AuditFails, Status
<1>2. ASSUME NEW r \in Requests, AuditPending(r)
      PROVE  audit' = audit \/ Audited(r, "pending")
  BY <1>2 DEF AuditPending, AuditFails
<1>3. ASSUME NEW c \in Calls, CallStep(c) \/ CallDies(c)
      PROVE  audit' = audit \/ \E s \in {"approved", "rejected", "failed"} :
                                 Audited(call[c].req, s)
  BY <1>3 DEF CallStep, AuditFails,
      RecordApproval, ArmFirstApproval, ClaimApproved, AuditApproval,
      ReleaseAfterAudit, Execute, ExecutorReturns, ExecutorThrows,
      ReleaseAfterFailure, AuditFailure, RemoveExecuted, ClaimRejected,
      AuditRejection, ReleaseRejection, RemoveRejected, AuditStuckRejection,
      RemoveStuck, CallDies
<1>4. ASSUME ~SweepAudit, \A c \in Calls : ~CallStep(c) /\ ~CallDies(c),
             \A r \in Requests : ~AuditPending(r)
      PROVE  audit' = audit
  BY <1>4 DEF Next, SweepStep, InsertPending, Approve, Reject, SweepStart, SweepEnd,
      SweepExecuting, SweepNone, SweepWarn, SweepNotify, SweepExpire, SweepClaim,
      SweepRelease, SweepRemove, SweepDies, Tick
<1>5. QED
  BY <1>1, <1>2, <1>3, <1>4, <1>s, <1>t

\* The log only grows.
LEMMA AuditGrows ==
  ASSUME TypeOK, Next, NEW r \in Requests, NEW s \in Status
  PROVE  audit'[r][s] \in Nat /\ audit'[r][s] >= audit[r][s]
<1>1. audit \in [Requests -> [Status -> Nat]] /\ faults \in Nat
  BY DEF TypeOK
<1>2. CASE audit' = audit
  BY <1>1, <1>2
<1>3. ASSUME NEW q \in Requests, NEW t \in Status, Audited(q, t)
      PROVE  audit'[r][s] \in Nat /\ audit'[r][s] >= audit[r][s]
  BY <1>1, <1>3, AuditEffect
<1>4. QED BY <1>2, <1>3, AuditChanges

\* A call moves by its own steps, to one control point.
LEMMA CallStepGoes ==
  ASSUME TypeOK, NEW c \in Calls, CallStep(c) \/ CallDies(c)
  PROVE  \E l \in CallPC : Goto(c, l)
<1>1. CallPC = {"idle", "record", "arm", "claim", "auditApproval", "execute",
                "running", "releaseFailed", "releaseAudit", "remove",
                "auditFailure", "rejClaim", "rejAudit", "rejRelease",
                "rejRemove", "stuckAudit", "stuckRemove"}
  BY DEF CallPC, CallHolding, ApproveHolding, RejectHolding
<1>2. CASE RecordApproval(c)
  BY <1>1, <1>2, RecordOutcomeType DEF RecordApproval
<1>3. CASE ~RecordApproval(c)
  BY <1>1, <1>3 DEF CallStep,
      RecordApproval, ArmFirstApproval, ClaimApproved, AuditApproval,
      ReleaseAfterAudit, Execute, ExecutorReturns, ExecutorThrows,
      ReleaseAfterFailure, AuditFailure, RemoveExecuted, ClaimRejected,
      AuditRejection, ReleaseRejection, RemoveRejected, AuditStuckRejection,
      RemoveStuck, CallDies
<1>4. QED BY <1>2, <1>3

\* Nobody moves somebody else's call.
LEMMA CallChanges ==
  ASSUME TypeOK, Next, NEW d \in Calls
  PROVE  \/ call'[d] = call[d]
         \/ CallStep(d) \/ CallDies(d)
         \/ \E r \in Requests : Approve(d, r) \/ Reject(d, r)
<1>1. call \in [Calls -> CallType]
  BY DEF TypeOK
<1>2. ASSUME NEW c \in Calls, c # d, CallStep(c) \/ CallDies(c)
      PROVE  call'[d] = call[d]
  BY <1>1, <1>2, CallStepGoes, GotoEffect
<1>3. ASSUME NEW c \in Calls, c # d, NEW r \in Requests, Approve(c, r) \/ Reject(c, r)
      PROVE  call'[d] = call[d]
  BY <1>1, <1>3 DEF Approve, Reject
<1>4. ASSUME \A c \in Calls : /\ ~CallStep(c) /\ ~CallDies(c)
                               /\ \A r \in Requests : ~Approve(c, r) /\ ~Reject(c, r)
      PROVE  call' = call
  BY <1>4 DEF Next, SweepStep, InsertPending, AuditPending, SweepStart, SweepEnd,
      SweepExecuting, SweepNone, SweepWarn, SweepNotify, SweepExpire, SweepClaim,
      SweepAudit, SweepRelease, SweepRemove, SweepDies, Tick
<1>5. QED BY <1>2, <1>3, <1>4

\* A call that has executed can only end.
LEMMA RemoveIsLast ==
  ASSUME TypeOK, Next, NEW d \in Calls, call[d].pc = "remove"
  PROVE  call'[d] = call[d] \/ call'[d].pc = "idle"
<1>1. call \in [Calls -> CallType] /\ "idle" \in CallPC
  BY DEF TypeOK, CallPC
<1>2. CASE CallStep(d) \/ CallDies(d)
  <2>1. Goto(d, "idle")
    BY <1>2 DEF CallStep,
      RecordApproval, ArmFirstApproval, ClaimApproved, AuditApproval,
      ReleaseAfterAudit, Execute, ExecutorReturns, ExecutorThrows,
      ReleaseAfterFailure, AuditFailure, RemoveExecuted, ClaimRejected,
      AuditRejection, ReleaseRejection, RemoveRejected, AuditStuckRejection,
      RemoveStuck, CallDies
  <2>2. QED BY <1>1, <2>1, GotoEffect
<1>3. QED BY <1>2, CallChanges DEF Approve, Reject

\* A sweep that has audited a timeout can only delete the row, or die.
LEMMA SweepRemoveIsLast ==
  ASSUME TypeOK, Next, sweep.pc = "remove"
  PROVE  sweep' = sweep \/ sweep'.pc \in {"loop", "idle"}
<1>1. sweep \in SweepType /\ "idle" \in SweepPC /\ "loop" \in SweepPC
  BY DEF TypeOK, SweepPC
<1>2. sweep' = sweep \/ SweepGoto("loop") \/ SweepGoto("idle")
  BY DEF Next, SweepStep, CallStep, Take,
      InsertPending, AuditPending, Approve, Reject, RecordApproval,
      ArmFirstApproval, ClaimApproved, AuditApproval, ReleaseAfterAudit,
      Execute, ExecutorReturns, ExecutorThrows, ReleaseAfterFailure,
      AuditFailure, RemoveExecuted, ClaimRejected, AuditRejection,
      ReleaseRejection, RemoveRejected, AuditStuckRejection, RemoveStuck,
      CallDies, SweepStart, SweepEnd, SweepExecuting, SweepNone, SweepWarn,
      SweepNotify, SweepExpire, SweepClaim, SweepAudit, SweepRelease,
      SweepRemove, SweepDies, Tick
<1>3. QED BY <1>1, <1>2, SweepGotoEffect

-----------------------------------------------------------------------------
(* The claim is a lock. *)

Lock == AtMostOneHolder /\ HoldersTake

\* Initially nobody holds anything, and nothing has run or timed out.
LEMMA InitSafety == Init => SafetyInv
<1> SUFFICES ASSUME Init PROVE SafetyInv
  OBVIOUS
<1>1. TypeOK
  <2>1. 0 \in Time
    BY TimeAssumption DEF Time
  <2>2. QED BY <2>1, IdleTypes DEF Init, TypeOK
<1>2. /\ \A c \in Calls : call[c].pc = "idle" /\ call[c].at = 0
      /\ sweep.pc = "idle" /\ sweep.todo = {}
  BY DEF Init, IdleCall, IdleSweep
<1>3. "idle" \notin CallHolding /\ "idle" \notin SweepHolding
  BY DEF CallHolding, ApproveHolding, RejectHolding, SweepHolding
<1>4. AtMostOneHolder /\ HoldersTake /\ NewRowsFree
  BY <1>2, <1>3 DEF Init, NewRowsFree, AtMostOneHolder, HoldersTake, Holds, SweepHolds
<1>5. DoneSealed /\ DeadSealed /\ TimeoutSealed /\ RunCovered
  BY <1>2 DEF Init, DoneSealed, DeadSealed, TimeoutSealed, RunCovered, Status
<1>6. WaitOver /\ WarningsRecorded /\ WarnedOnce
  BY <1>2 DEF Init, WaitOver, WarningsRecorded, WarnedOnce, ApproveHolding
<1>7. QED BY <1>1, <1>4, <1>5, <1>6 DEF SafetyInv

\* A step takes a claim only from nobody and gives it back only if it is its own.
LEMMA LockStep ==
  ASSUME TypeOK, Lock, Next
  PROVE  Lock'
<1> SUFFICES ASSUME NEW r \in Requests
             PROVE  /\ \A c, d \in Calls : Holds(c, r)' /\ Holds(d, r)' => c = d
                    /\ \A c \in Calls : Holds(c, r)' => ~SweepHolds(r)'
                    /\ (SweepHolds(r)' \/ \E c \in Calls : Holds(c, r)')
                         => Taken(r)' /\ rowState'[r] # "none"
  BY DEF Lock, AtMostOneHolder, HoldersTake
<1>1. /\ \A c, d \in Calls : Holds(c, r) /\ Holds(d, r) => c = d
      /\ \A c \in Calls : Holds(c, r) => ~SweepHolds(r)
      /\ (SweepHolds(r) \/ \E c \in Calls : Holds(c, r)) => Taken(r) /\ rowState[r] # "none"
  BY DEF Lock, AtMostOneHolder, HoldersTake
<1>2. Shape(r)
  BY StepShape
<1>3. rowState[r] # "none" => rowState'[r] # "none"
  BY RowsStay
<1>4. ~Taken(r) => rowState[r] # "none"
  BY DEF Taken, Claimable, Live
<1>5. CASE Quiet(r)
  BY <1>1, <1>3, <1>5 DEF Quiet, NobodyNew
<1>6. CASE Inserts(r)
  BY <1>1, <1>6 DEF Inserts, NobodyNew
<1>7. CASE SweepClaims(r)
  BY <1>1, <1>3, <1>4, <1>7 DEF SweepClaims
<1>8. CASE SweepReleases(r)
  BY <1>1, <1>8 DEF SweepReleases, NobodyNew
<1>9. ASSUME NEW c \in Calls, CallClaims(c, r)
      PROVE  /\ \A b, d \in Calls : Holds(b, r)' /\ Holds(d, r)' => b = d
             /\ \A d \in Calls : Holds(d, r)' => ~SweepHolds(r)'
             /\ (SweepHolds(r)' \/ \E d \in Calls : Holds(d, r)')
                  => Taken(r)' /\ rowState'[r] # "none"
  BY <1>1, <1>3, <1>4, <1>9 DEF CallClaims
<1>10. ASSUME NEW c \in Calls, CallReleases(c, r)
      PROVE  \A d \in Calls : ~Holds(d, r)' /\ ~SweepHolds(r)'
  BY <1>1, <1>10 DEF CallReleases, NobodyNew
<1>11. QED
  BY <1>2, <1>5, <1>6, <1>7, <1>8, <1>9, <1>10 DEF Shape

\* A request that is taken, whose holders do not release, stays taken and gets no
\* new holder.
LEMMA SealStays ==
  ASSUME TypeOK, Next, NEW r \in Requests, Taken(r), rowState[r] # "none",
         SweepHolds(r) => sweep.pc # "release",
         \A c \in Calls : Holds(c, r) =>
           call[c].pc \notin {"releaseAudit", "releaseFailed", "rejRelease"}
  PROVE  Taken(r)' /\ rowState'[r] # "none" /\ NobodyNew(r)
<1>1. Shape(r)
  BY StepShape
<1>2. rowState'[r] # "none"
  BY RowsStay
<1>3. QED
  BY <1>1, <1>2 DEF Shape, Quiet, Inserts, SweepClaims, SweepReleases, CallClaims,
                    CallReleases

-----------------------------------------------------------------------------
(* What a success, a death and a timeout leave behind is never undone. *)

\* A success seals the request.
LEMMA DoneStep ==
  ASSUME TypeOK, Lock, DoneSealed, Next
  PROVE  DoneSealed'
<1> SUFFICES ASSUME NEW r \in Requests, done'[r] # 0
             PROVE  /\ done'[r] = 1 /\ Taken(r)' /\ rowState'[r] # "none" /\ ~SweepHolds(r)'
                    /\ \A c \in Calls : Holds(c, r)' => call'[c].pc = "remove"
  BY DEF DoneSealed
<1>1. CASE done[r] # 0 /\ done'[r] = done[r]
  <2>1. /\ done[r] = 1 /\ Taken(r) /\ rowState[r] # "none" /\ ~SweepHolds(r)
        /\ \A c \in Calls : Holds(c, r) => call[c].pc = "remove"
    BY <1>1 DEF DoneSealed
  <2>2. Taken(r)' /\ rowState'[r] # "none" /\ NobodyNew(r)
    BY <2>1, SealStays
  <2>3. ASSUME NEW c \in Calls, Holds(c, r)' PROVE call'[c].pc = "remove"
    <3>1. call[c].pc = "remove"
      BY <2>1, <2>2, <2>3 DEF NobodyNew
    <3>2. call'[c].pc # "idle"
      BY <2>3 DEF Holds, CallHolding, ApproveHolding, RejectHolding
    <3>3. QED BY <3>1, <3>2, RemoveIsLast
  <2>4. QED BY <1>1, <2>1, <2>2, <2>3 DEF NobodyNew
<1>2. ASSUME NEW c \in Calls, ExecutorReturns(c), call[c].req = r
      PROVE  /\ done'[r] = 1 /\ Taken(r)' /\ rowState'[r] # "none" /\ ~SweepHolds(r)'
             /\ \A d \in Calls : Holds(d, r)' => call'[d].pc = "remove"
  <2>1. call \in [Calls -> CallType] /\ done \in [Requests -> Nat]
    BY DEF TypeOK
  <2>2. Holds(c, r) /\ call[c].pc = "running"
    BY <1>2 DEF ExecutorReturns, Holds, CallHolding, ApproveHolding
  <2>3. done[r] = 0
    BY <2>2 DEF DoneSealed
  <2>4. done'[r] = 1
    BY <1>2, <2>1, <2>3 DEF ExecutorReturns
  <2>5. /\ Taken(r) /\ rowState[r] # "none" /\ ~SweepHolds(r)
        /\ \A d \in Calls : Holds(d, r) => d = c
    BY <2>2 DEF Lock, HoldersTake, AtMostOneHolder
  <2>6. Taken(r)' /\ rowState'[r] # "none" /\ NobodyNew(r)
    BY <2>2, <2>5, SealStays
  <2>7. call'[c].pc = "remove"
    <3>1. "remove" \in CallPC
      BY DEF CallPC, CallHolding, ApproveHolding
    <3>2. QED BY <1>2, <2>1, <3>1, GotoEffect DEF ExecutorReturns
  <2>8. QED BY <2>4, <2>5, <2>6, <2>7 DEF NobodyNew
<1>3. done'[r] = done[r] \/ \E c \in Calls : ExecutorReturns(c) /\ call[c].req = r
  BY DoneChanges DEF TypeOK, ExecutorReturns
<1>4. QED BY <1>1, <1>2, <1>3

\* A death seals the request.
LEMMA DeadStep ==
  ASSUME TypeOK, Lock, DeadSealed, Next
  PROVE  DeadSealed'
<1> SUFFICES ASSUME NEW r \in Requests, dead'[r] = "yes"
             PROVE  /\ Taken(r)' /\ rowState'[r] # "none" /\ ~SweepHolds(r)'
                    /\ \A c \in Calls : ~Holds(c, r)'
  BY DEF DeadSealed
<1>t. /\ call \in [Calls -> CallType] /\ sweep \in SweepType
      /\ dead \in [Requests -> {"yes", "no"}]
      /\ "idle" \in CallPC \ CallHolding /\ "idle" \in SweepPC \ SweepHolding
  BY DEF TypeOK, CallPC, CallHolding, ApproveHolding, RejectHolding, SweepPC, SweepHolding
<1>1. CASE dead[r] = "yes"
  <2>1. /\ Taken(r) /\ rowState[r] # "none" /\ ~SweepHolds(r)
        /\ \A c \in Calls : ~Holds(c, r)
    BY <1>1 DEF DeadSealed
  <2>2. QED BY <2>1, SealStays DEF NobodyNew
<1>2. ASSUME NEW c \in Calls, CallDies(c), Holds(c, r)
      PROVE  /\ Taken(r)' /\ rowState'[r] # "none" /\ ~SweepHolds(r)'
             /\ \A d \in Calls : ~Holds(d, r)'
  <2>1. /\ Taken(r) /\ rowState[r] # "none" /\ ~SweepHolds(r)
        /\ \A d \in Calls : Holds(d, r) => d = c
    BY <1>2 DEF Lock, HoldersTake, AtMostOneHolder
  <2>2. UNCHANGED <<rowState, executingAt, sweep>>
    BY <1>2 DEF CallDies, rowVars
  <2>3. \A d \in Calls : ~Holds(d, r)'
    BY <1>2, <1>t, <2>1, GotoEffect DEF CallDies, Holds
  <2>4. QED BY <2>1, <2>2, <2>3 DEF Taken, Claimable, Live, SweepHolds
<1>3. CASE SweepDies /\ SweepHolds(r)
  <2>1. /\ Taken(r) /\ rowState[r] # "none" /\ \A d \in Calls : ~Holds(d, r)
    BY <1>3 DEF Lock, HoldersTake, AtMostOneHolder
  <2>2. UNCHANGED <<rowState, executingAt, call>>
    BY <1>3 DEF SweepDies, rowVars
  <2>3. ~SweepHolds(r)'
    BY <1>3, <1>t, SweepGotoEffect DEF SweepDies, SweepHolds
  <2>4. QED BY <2>1, <2>2, <2>3 DEF Taken, Claimable, Live, Holds
<1>4. \/ dead[r] = "yes"
      \/ \E c \in Calls : CallDies(c) /\ Holds(c, r)
      \/ SweepDies /\ SweepHolds(r)
  BY <1>t, DeadChanges DEF CallDies, SweepDies, MarkDead, Holds, SweepHolds
<1>5. QED BY <1>1, <1>2, <1>3, <1>4

\* A timeout in the log seals the request.
LEMMA TimeoutStep ==
  ASSUME TypeOK, Lock, TimeoutSealed, Next
  PROVE  TimeoutSealed'
<1> SUFFICES ASSUME NEW r \in Requests, audit'[r]["timeout"] + audit'[r]["abandoned"] > 0
             PROVE  /\ Taken(r)' /\ rowState'[r] # "none"
                    /\ SweepHolds(r)' => sweep'.pc = "remove"
                    /\ \A c \in Calls : ~Holds(c, r)'
  BY DEF TimeoutSealed
<1>t. /\ sweep \in SweepType /\ audit \in [Requests -> [Status -> Nat]] /\ faults \in Nat
      /\ "timeout" \in Status /\ "abandoned" \in Status
  BY DEF TypeOK, Status
<1>1. CASE audit[r]["timeout"] + audit[r]["abandoned"] > 0
  <2>1. /\ Taken(r) /\ rowState[r] # "none"
        /\ SweepHolds(r) => sweep.pc = "remove"
        /\ \A c \in Calls : ~Holds(c, r)
    BY <1>1 DEF TimeoutSealed
  <2>2. Taken(r)' /\ rowState'[r] # "none" /\ NobodyNew(r)
    BY <2>1, SealStays
  <2>3. SweepHolds(r)' => sweep'.pc = "remove"
    BY <2>1, <2>2, SweepRemoveIsLast DEF NobodyNew, SweepHolds, SweepHolding
  <2>4. QED BY <2>1, <2>2, <2>3 DEF NobodyNew
<1>2. CASE SweepAudit /\ r = sweep.cur /\ audit' # audit
  <2>1. SweepHolds(r) /\ sweep.pc = "audit"
    BY <1>2 DEF SweepAudit, SweepHolds, SweepHolding
  <2>2. /\ Taken(r) /\ rowState[r] # "none" /\ \A c \in Calls : ~Holds(c, r)
    BY <2>1 DEF Lock, HoldersTake, AtMostOneHolder
  <2>3. Taken(r)' /\ rowState'[r] # "none" /\ NobodyNew(r)
    BY <2>1, <2>2, SealStays
  <2>4. "remove" \in SweepPC
    BY DEF SweepPC, SweepHolding
  <2>5. SweepGoto("remove")
    BY <1>2 DEF SweepAudit, AuditFails
  <2>6. sweep'.pc = "remove"
    BY <1>t, <2>4, <2>5, SweepGotoEffect
  <2>7. QED BY <2>2, <2>3, <2>6 DEF NobodyNew
<1>3. ASSUME audit[r]["timeout"] + audit[r]["abandoned"] = 0
      PROVE  SweepAudit /\ r = sweep.cur /\ audit' # audit
  <2>1. audit' # audit
    BY <1>3
  <2>2. PICK q \in Requests, s \in Status :
          Audited(q, s) /\ (s \in {"timeout", "abandoned"} => SweepAudit /\ q = sweep.cur)
    BY <2>1, AuditChanges
  <2>3. q = r /\ s \in {"timeout", "abandoned"}
    BY <1>t, <1>3, <2>2, AuditEffect
  <2>4. QED BY <2>1, <2>2, <2>3
<1>4. audit[r]["timeout"] \in Nat /\ audit[r]["abandoned"] \in Nat
  BY <1>t
<1>5. QED BY <1>1, <1>2, <1>3, <1>4

-----------------------------------------------------------------------------
(* Approvals are audited and waited for before anything runs. *)

\* A call is about to execute only right after its 'approved' row was written.
LEMMA ExecuteEntry ==
  ASSUME TypeOK, Next, NEW c \in Calls, call'[c].pc = "execute", call'[c] # call[c]
  PROVE  Audited(call[c].req, "approved") /\ Goto(c, "execute") /\ runs' = runs
<1>1. call \in [Calls -> CallType]
  BY DEF TypeOK
<1>2. CallStep(c) \/ CallDies(c)
  BY <1>1, CallChanges DEF Approve, Reject
<1>3. CASE AuditApproval(c)
  <2>1. "releaseAudit" \in CallPC
    BY DEF CallPC, CallHolding, ApproveHolding
  <2>2. ~Goto(c, "releaseAudit")
    BY <1>1, <2>1, GotoEffect
  <2>3. QED BY <1>3, <2>2 DEF AuditApproval, histVars
<1>4. ASSUME ~AuditApproval(c)
      PROVE  \E l \in CallPC \ {"execute"} : Goto(c, l)
  <2>1. CallPC \ {"execute"} = {"idle", "record", "arm", "claim", "auditApproval",
          "running", "releaseFailed", "releaseAudit", "remove", "auditFailure",
          "rejClaim", "rejAudit", "rejRelease", "rejRemove", "stuckAudit", "stuckRemove"}
    BY DEF CallPC, CallHolding, ApproveHolding, RejectHolding
  <2>2. CASE RecordApproval(c)
    BY <2>1, <2>2, RecordOutcomeType DEF RecordApproval
  <2>3. CASE ~RecordApproval(c)
    BY <1>2, <1>4, <2>1, <2>3 DEF CallStep,
      RecordApproval, ArmFirstApproval, ClaimApproved, AuditApproval,
      ReleaseAfterAudit, Execute, ExecutorReturns, ExecutorThrows,
      ReleaseAfterFailure, AuditFailure, RemoveExecuted, ClaimRejected,
      AuditRejection, ReleaseRejection, RemoveRejected, AuditStuckRejection,
      RemoveStuck, CallDies
  <2>4. QED BY <2>2, <2>3
<1>5. QED BY <1>1, <1>3, <1>4, GotoEffect

\* Every run uses up one 'approved' row.
LEMMA RunStep ==
  ASSUME TypeOK, Lock, RunCovered, Next
  PROVE  RunCovered'
<1> SUFFICES ASSUME NEW r \in Requests
             PROVE  /\ runs'[r] <= audit'[r]["approved"]
                    /\ \A c \in Calls : call'[c].req = r /\ call'[c].pc = "execute"
                                          => runs'[r] < audit'[r]["approved"]
  BY DEF RunCovered
<1>t. /\ call \in [Calls -> CallType] /\ runs \in [Requests -> Nat]
      /\ audit \in [Requests -> [Status -> Nat]] /\ faults \in Nat
      /\ "approved" \in Status /\ audit[r]["approved"] \in Nat /\ runs[r] \in Nat
      /\ "execute" \in CallPC /\ "running" \in CallPC
      /\ "execute" \in CallHolding
      /\ \A d \in Calls : call[d].req \in Requests
  BY DEF TypeOK, Status, CallPC, CallHolding, ApproveHolding, CallType
<1>g. audit'[r]["approved"] \in Nat /\ audit'[r]["approved"] >= audit[r]["approved"]
  BY <1>t, AuditGrows
<1>i. /\ runs[r] <= audit[r]["approved"]
      /\ \A c \in Calls : call[c].req = r /\ call[c].pc = "execute"
                            => runs[r] < audit[r]["approved"]
  BY DEF RunCovered
<1>1. CASE runs' = runs
  <2>1. ASSUME NEW c \in Calls, call'[c].req = r, call'[c].pc = "execute"
        PROVE  runs[r] < audit'[r]["approved"]
    <3>1. CASE call'[c] = call[c]
      BY <1>t, <1>g, <1>i, <2>1, <3>1
    <3>2. CASE call'[c] # call[c]
      <4>1. Audited(call[c].req, "approved") /\ Goto(c, "execute")
        BY <2>1, <3>2, ExecuteEntry
      <4>2. call[c].req = r
        BY <1>t, <2>1, <4>1, GotoEffect
      <4>3. audit'[r]["approved"] = audit[r]["approved"] + 1
        BY <1>t, <4>1, <4>2, AuditEffect
      <4>4. QED BY <1>t, <1>i, <4>3
    <3>3. QED BY <3>1, <3>2
  <2>2. QED BY <1>1, <1>t, <1>g, <1>i, <2>1
<1>2. ASSUME NEW c \in Calls, Execute(c)
      PROVE  /\ runs'[r] <= audit'[r]["approved"]
             /\ \A d \in Calls : call'[d].req = r /\ call'[d].pc = "execute"
                                   => runs'[r] < audit'[r]["approved"]
  <2>1. /\ call[c].pc = "execute" /\ Goto(c, "running") /\ audit' = audit
        /\ runs' = [runs EXCEPT ![call[c].req] = @ + 1]
    BY <1>2 DEF Execute
  <2>2. call'[c].pc = "running" /\ \A d \in Calls : d # c => call'[d] = call[d]
    BY <1>t, <2>1, GotoEffect
  <2>3. CASE call[c].req = r
    <3>1. runs'[r] = runs[r] + 1 /\ runs[r] < audit[r]["approved"]
      BY <1>t, <1>i, <2>1, <2>3
    <3>2. \A d \in Calls : Holds(d, r) => d = c
      BY <1>t, <2>1, <2>3 DEF Lock, AtMostOneHolder, Holds
    <3>3. \A d \in Calls : ~(call'[d].req = r /\ call'[d].pc = "execute")
      BY <1>t, <2>2, <3>2 DEF Holds
    <3>4. QED BY <1>t, <2>1, <3>1, <3>3
  <2>4. CASE call[c].req # r
    <3>1. runs'[r] = runs[r]
      BY <1>t, <2>1, <2>4
    <3>2. QED BY <1>i, <2>1, <2>2, <3>1
  <2>5. QED BY <2>3, <2>4
<1>3. QED BY <1>1, <1>2, RunsChanges

\* A first approval, once recorded, is not moved.
LEMMA FirstAtStays ==
  ASSUME TypeOK, Next, NEW r \in Requests, firstAt[r] # Null
  PROVE  firstAt'[r] = firstAt[r]
<1>1. firstAt \in [Requests -> Time \cup {Null}] /\ \A c \in Calls : call[c].req \in Requests
  BY DEF TypeOK, CallType
<1>2. QED BY <1>1, FirstAtChanges DEF ArmFirstApproval

\* The clock does not go back.
LEMMA ClockGrows ==
  ASSUME TypeOK, Next
  PROVE  now' \in Nat /\ now <= now' /\ now \in Nat
<1>1. now \in Nat
  BY TimeAssumption DEF TypeOK, Time
<1>2. now' = now \/ now' = now + 1
  BY DEF Next, CallStep, SweepStep,
      InsertPending, AuditPending, Approve, Reject, RecordApproval,
      ArmFirstApproval, ClaimApproved, AuditApproval, ReleaseAfterAudit,
      Execute, ExecutorReturns, ExecutorThrows, ReleaseAfterFailure,
      AuditFailure, RemoveExecuted, ClaimRejected, AuditRejection,
      ReleaseRejection, RemoveRejected, AuditStuckRejection, RemoveStuck,
      CallDies, SweepStart, SweepEnd, SweepExecuting, SweepNone, SweepWarn,
      SweepNotify, SweepExpire, SweepClaim, SweepAudit, SweepRelease,
      SweepRemove, SweepDies, Tick
<1>3. QED BY <1>1, <1>2

\* A call comes to hold the claim of an approval from "claim", and to "claim" only
\* when recordApproval lets it.
LEMMA ClaimEntry ==
  ASSUME TypeOK, Next, NEW c \in Calls, call'[c] # call[c],
         call'[c].pc \in ApproveHolding \cup {"claim"}
  PROVE  /\ \/ call[c].pc \in ApproveHolding \cup {"claim"}
            \/ RecordApproval(c) /\ RecordOutcome(call[c].req, call[c].at) = "claim"
         /\ call'[c].req = call[c].req /\ call'[c].at = call[c].at
<1>1. call \in [Calls -> CallType]
  BY DEF TypeOK
<1>2. CallStep(c) \/ CallDies(c)
  BY <1>1, CallChanges DEF Approve, Reject, ApproveHolding
<1>3. PICK l \in CallPC : Goto(c, l)
  BY <1>2, CallStepGoes
<1>4. l # "idle" /\ l \in ApproveHolding \cup {"claim"}
  BY <1>1, <1>3, GotoEffect DEF ApproveHolding
<1>5. call'[c].req = call[c].req /\ call'[c].at = call[c].at
  BY <1>1, <1>3, <1>4, GotoEffect
<1>6. CASE RecordApproval(c)
  <2>1. RecordOutcome(call[c].req, call[c].at) \in CallPC
    BY RecordOutcomeType DEF CallPC
  <2>2. RecordOutcome(call[c].req, call[c].at) = call'[c].pc
    BY <1>1, <1>6, <2>1, GotoEffect DEF RecordApproval
  <2>3. QED BY <1>5, <1>6, <2>2, RecordOutcomeType DEF ApproveHolding
<1>7. CASE ~RecordApproval(c)
  <2>1. \/ call[c].pc \in ApproveHolding \cup {"claim"}
        \/ \E m \in {"idle", "record", "rejAudit", "rejRelease", "rejRemove",
                      "stuckAudit", "stuckRemove"} : Goto(c, m)
    BY <1>2, <1>7 DEF CallStep, ApproveHolding,
      RecordApproval, ArmFirstApproval, ClaimApproved, AuditApproval,
      ReleaseAfterAudit, Execute, ExecutorReturns, ExecutorThrows,
      ReleaseAfterFailure, AuditFailure, RemoveExecuted, ClaimRejected,
      AuditRejection, ReleaseRejection, RemoveRejected, AuditStuckRejection,
      RemoveStuck, CallDies
  <2>2. ASSUME NEW m \in {"idle", "record", "rejAudit", "rejRelease", "rejRemove",
                          "stuckAudit", "stuckRemove"}, Goto(c, m)
        PROVE  FALSE
    <3>1. m \in CallPC /\ m \notin ApproveHolding \cup {"claim"}
      BY <2>2 DEF CallPC, CallHolding, ApproveHolding, RejectHolding
    <3>2. QED BY <1>1, <2>2, <3>1, GotoEffect
  <2>3. QED BY <1>5, <2>1, <2>2
<1>8. QED BY <1>6, <1>7

\* The wait stays over.
LEMMA WaitStep ==
  ASSUME TypeOK, WaitOver, Next
  PROVE  WaitOver'
<1> SUFFICES ASSUME NEW c \in Calls
             PROVE  /\ call'[c].at <= now'
                    /\ /\ call'[c].pc \in ApproveHolding \cup {"claim"}
                       /\ Level[call'[c].req] = "dual-confirm"
                       => /\ firstAt'[call'[c].req] # Null
                          /\ firstAt'[call'[c].req] + Delay <= call'[c].at
  BY DEF WaitOver
<1>t. /\ call \in [Calls -> CallType] /\ call[c].at \in Nat /\ call[c].req \in Requests
      /\ firstAt \in [Requests -> Time \cup {Null}]
  BY TimeAssumption DEF TypeOK, CallType, Time
<1>1. call'[c].at <= now'
  <2>1. CASE call'[c] = call[c]
    BY <1>t, <2>1, ClockGrows DEF WaitOver
  <2>2. ASSUME NEW r \in Requests, Approve(c, r) \/ Reject(c, r)
        PROVE  call'[c].at <= now'
    BY <1>t, <2>2, ClockGrows DEF Approve, Reject
  <2>3. CASE CallStep(c) \/ CallDies(c)
    <3>1. PICK l \in CallPC : Goto(c, l)
      BY <2>3, CallStepGoes
    <3>2. call'[c].at = call[c].at \/ call'[c].at = 0
      BY <1>t, <3>1, GotoEffect
    <3>3. QED BY <1>t, <3>2, ClockGrows DEF WaitOver
  <2>4. QED BY <2>1, <2>2, <2>3, CallChanges
<1>2. ASSUME call'[c].pc \in ApproveHolding \cup {"claim"},
             Level[call'[c].req] = "dual-confirm"
      PROVE  /\ firstAt'[call'[c].req] # Null
             /\ firstAt'[call'[c].req] + Delay <= call'[c].at
  <2>1. call'[c].req = call[c].req /\ call'[c].at = call[c].at
    BY <1>2, ClaimEntry
  <2>2. CASE call[c].pc \in ApproveHolding \cup {"claim"}
    BY <1>t, <1>2, <2>1, <2>2, FirstAtStays DEF WaitOver
  <2>3. CASE call[c].pc \notin ApproveHolding \cup {"claim"}
    <3>1. RecordOutcome(call[c].req, call[c].at) = "claim"
      BY <1>2, <2>3, ClaimEntry
    <3>2. firstAt[call[c].req] # Null /\ firstAt[call[c].req] + Delay <= call[c].at
      <4>1. firstAt[call[c].req] # Null
        BY <1>2, <2>1, <3>1 DEF RecordOutcome
      <4>2. CanAcceptSecondApproval(firstAt[call[c].req], call[c].at)
        BY <1>2, <2>1, <3>1, <4>1 DEF RecordOutcome
      <4>3. firstAt[call[c].req] \in Nat
        BY <1>t, <4>1 DEF Time
      <4>4. QED BY <1>t, <4>1, <4>2, <4>3, TimeAssumption DEF CanAcceptSecondApproval
    <3>3. QED BY <1>t, <2>1, <3>2, FirstAtStays
  <2>4. QED BY <2>2, <2>3
<1>3. QED BY <1>1, <1>2

-----------------------------------------------------------------------------
(* The warning goes out once. *)

\* A deleted row stays deleted and a recorded warning stays recorded.
LEMMA MarksStay ==
  ASSUME TypeOK, Next, NEW r \in Requests
  PROVE  /\ rowState[r] = "gone" => rowState'[r] = "gone"
         /\ escalated[r] # Null => escalated'[r] # Null
<1>1. /\ rowState \in [Requests -> {"none", "live", "gone"}]
      /\ escalated \in [Requests -> Time \cup {Null}]
      /\ sweep.at \in Time /\ Null \notin Time
      /\ sweep.cur \in Requests /\ \A c \in Calls : call[c].req \in Requests
  BY NullAssumption DEF TypeOK, SweepType, CallType, Time
<1>2. \/ rowState' = rowState
      \/ \E q \in Requests : RemovePending(q) \/ InsertPending(q)
  BY <1>1 DEF Next, CallStep, SweepStep, rowVars,
      InsertPending, AuditPending, Approve, Reject, RecordApproval,
      ArmFirstApproval, ClaimApproved, AuditApproval, ReleaseAfterAudit,
      Execute, ExecutorReturns, ExecutorThrows, ReleaseAfterFailure,
      AuditFailure, RemoveExecuted, ClaimRejected, AuditRejection,
      ReleaseRejection, RemoveRejected, AuditStuckRejection, RemoveStuck,
      CallDies, SweepStart, SweepEnd, SweepExecuting, SweepNone, SweepWarn,
      SweepNotify, SweepExpire, SweepClaim, SweepAudit, SweepRelease,
      SweepRemove, SweepDies, Tick
<1>3. escalated' = escalated \/ \E q \in Requests : SweepWarn(q)
  BY DEF Next, CallStep, SweepStep, rowVars,
      InsertPending, AuditPending, Approve, Reject, RecordApproval,
      ArmFirstApproval, ClaimApproved, AuditApproval, ReleaseAfterAudit,
      Execute, ExecutorReturns, ExecutorThrows, ReleaseAfterFailure,
      AuditFailure, RemoveExecuted, ClaimRejected, AuditRejection,
      ReleaseRejection, RemoveRejected, AuditStuckRejection, RemoveStuck,
      CallDies, SweepStart, SweepEnd, SweepExecuting, SweepNone, SweepWarn,
      SweepNotify, SweepExpire, SweepClaim, SweepAudit, SweepRelease,
      SweepRemove, SweepDies, Tick
<1>4. QED
  BY <1>1, <1>2, <1>3 DEF RemovePending, InsertPending, SweepWarn

\* How the sweep moves.
LEMMA SweepChanges ==
  ASSUME TypeOK, Next
  PROVE  \/ sweep' = sweep \/ SweepStart \/ SweepNotify
         \/ \E r \in Requests : SweepWarn(r) \/ Take(r, "loop") \/ Take(r, "claim")
         \/ \E l \in SweepPC \ {"warn"} : SweepGoto(l)
<1>1. SweepPC \ {"warn"} = {"idle", "loop", "claim", "audit", "release", "remove"}
  BY DEF SweepPC, SweepHolding
<1>2. QED
  BY <1>1 DEF Next, CallStep, SweepStep,
      InsertPending, AuditPending, Approve, Reject, RecordApproval,
      ArmFirstApproval, ClaimApproved, AuditApproval, ReleaseAfterAudit,
      Execute, ExecutorReturns, ExecutorThrows, ReleaseAfterFailure,
      AuditFailure, RemoveExecuted, ClaimRejected, AuditRejection,
      ReleaseRejection, RemoveRejected, AuditStuckRejection, RemoveStuck,
      CallDies, SweepStart, SweepEnd, SweepExecuting, SweepNone, SweepWarn,
      SweepNotify, SweepExpire, SweepClaim, SweepAudit, SweepRelease,
      SweepRemove, SweepDies, Tick

\* The second warning is never sent.
LEMMA WarnStep ==
  ASSUME TypeOK, WarningsRecorded, WarnedOnce, Next
  PROVE  WarningsRecorded' /\ WarnedOnce'
<1>t. /\ sweep \in SweepType /\ sweep.cur \in Requests /\ sweep.todo \subseteq Requests
      /\ warned \in [Requests -> Nat] /\ sweep.at \in Time /\ Null \notin Time
      /\ rowState \in [Requests -> {"none", "live", "gone"}]
      /\ escalated \in [Requests -> Time \cup {Null}]
      /\ {"idle", "loop", "claim", "warn"} \subseteq SweepPC
  BY NullAssumption DEF TypeOK, SweepType, SweepPC, Time
<1>i. /\ \A r \in Requests : warned[r] # 0 => rowState[r] = "gone" \/ escalated[r] # Null
      /\ \A r \in sweep.todo : /\ rowState[r] # "none"
                               /\ warned[r] # 0 => sweep.snap[r].escalated # Null
      /\ sweep.pc = "warn" =>
           /\ warned[sweep.cur] = 0
           /\ sweep.cur \notin sweep.todo
           /\ rowState[sweep.cur] = "gone" \/ escalated[sweep.cur] # Null
      /\ \A r \in Requests : warned[r] <= 1
  BY DEF WarningsRecorded, WarnedOnce
<1>m. \A r \in Requests : /\ rowState[r] = "gone" => rowState'[r] = "gone"
                          /\ escalated[r] # Null => escalated'[r] # Null
                          /\ rowState[r] # "none" => rowState'[r] # "none"
  BY MarksStay, RowsStay
<1>1. CASE SweepNotify
  <2>1. /\ sweep.pc = "warn" /\ warned' = [warned EXCEPT ![sweep.cur] = @ + 1]
        /\ SweepGoto("loop")
    BY <1>1 DEF SweepNotify
  <2>2. sweep'.pc = "loop" /\ sweep'.todo = sweep.todo /\ sweep'.snap = sweep.snap
    BY <1>t, <2>1, SweepGotoEffect
  <2>3. warned'[sweep.cur] = 1 /\ \A r \in Requests : r # sweep.cur => warned'[r] = warned[r]
    BY <1>t, <1>i, <2>1
  <2>4. \A r \in Requests : warned'[r] # 0 => rowState'[r] = "gone" \/ escalated'[r] # Null
    BY <1>i, <1>m, <2>1, <2>3
  <2>5. \A r \in sweep'.todo : /\ rowState'[r] # "none"
                               /\ warned'[r] # 0 => sweep'.snap[r].escalated # Null
    BY <1>t, <1>i, <1>m, <2>1, <2>2, <2>3
  <2>6. \A r \in Requests : warned'[r] <= 1
    BY <1>i, <2>3
  <2>7. QED BY <2>2, <2>4, <2>5, <2>6 DEF WarningsRecorded, WarnedOnce
<1>2. ASSUME warned' = warned
      PROVE  WarningsRecorded' /\ WarnedOnce'
  <2>1. \A r \in Requests : warned'[r] # 0 => rowState'[r] = "gone" \/ escalated'[r] # Null
    BY <1>2, <1>i, <1>m
  <2>2. WarnedOnce'
    BY <1>2 DEF WarnedOnce
  <2>3. CASE sweep' = sweep
    BY <1>t, <1>2, <1>i, <1>m, <2>1, <2>2, <2>3 DEF WarningsRecorded
  <2>4. CASE SweepStart
    <3>1. sweep'.pc = "loop"
      BY <2>4 DEF SweepStart
    <3>2. \A r \in sweep'.todo : /\ r \in Requests /\ rowState[r] = "live"
                                 /\ sweep'.snap[r].escalated = escalated[r]
      BY <2>4 DEF SweepStart, Live
    <3>3. \A r \in sweep'.todo : /\ rowState'[r] # "none"
                                 /\ warned'[r] # 0 => sweep'.snap[r].escalated # Null
      BY <1>2, <1>i, <1>m, <3>2
    <3>4. QED BY <2>1, <2>2, <3>1, <3>3 DEF WarningsRecorded
  <2>5. ASSUME NEW q \in Requests, SweepWarn(q)
        PROVE  WarningsRecorded' /\ WarnedOnce'
    <3>1. /\ Take(q, "warn") /\ Outcome(q) = "escalate-warning"
          /\ escalated' = IF Live(q) THEN [escalated EXCEPT ![q] = sweep.at] ELSE escalated
      BY <2>5 DEF SweepWarn
    <3>2. /\ sweep'.pc = "warn" /\ sweep'.cur = q /\ sweep'.todo = sweep.todo \ {q}
          /\ sweep'.snap = sweep.snap /\ q \in sweep.todo
      BY <1>t, <3>1, TakeEffect DEF Take
    <3>3. sweep.snap[q].escalated = Null
      BY <3>1 DEF Outcome, DecideTimeoutOutcome
    <3>4. warned'[q] = 0
      BY <1>2, <1>i, <3>2, <3>3
    <3>5. rowState'[q] = "gone" \/ escalated'[q] # Null
      BY <1>t, <1>i, <1>m, <3>1, <3>2 DEF Live
    <3>6. \A r \in sweep'.todo : /\ rowState'[r] # "none"
                                 /\ warned'[r] # 0 => sweep'.snap[r].escalated # Null
      BY <1>t, <1>2, <1>i, <1>m, <3>2
    <3>7. QED BY <2>1, <2>2, <3>2, <3>4, <3>5, <3>6 DEF WarningsRecorded
  <2>6. ASSUME NEW q \in Requests, Take(q, "loop") \/ Take(q, "claim")
        PROVE  WarningsRecorded' /\ WarnedOnce'
    <3>1. /\ sweep'.pc # "warn" /\ sweep'.todo = sweep.todo \ {q} /\ sweep'.snap = sweep.snap
      BY <1>t, <2>6, TakeEffect
    <3>2. \A r \in sweep'.todo : /\ rowState'[r] # "none"
                                 /\ warned'[r] # 0 => sweep'.snap[r].escalated # Null
      BY <1>t, <1>2, <1>i, <1>m, <3>1
    <3>3. QED BY <2>1, <2>2, <3>1, <3>2 DEF WarningsRecorded
  <2>7. ASSUME NEW l \in SweepPC \ {"warn"}, SweepGoto(l)
        PROVE  WarningsRecorded' /\ WarnedOnce'
    <3>1. /\ sweep'.pc # "warn"
          /\ sweep'.todo = {} \/ (sweep'.todo = sweep.todo /\ sweep'.snap = sweep.snap)
      BY <1>t, <2>7, SweepGotoEffect
    <3>2. \A r \in sweep'.todo : /\ rowState'[r] # "none"
                                 /\ warned'[r] # 0 => sweep'.snap[r].escalated # Null
      BY <1>t, <1>2, <1>i, <1>m, <3>1
    <3>3. QED BY <2>1, <2>2, <3>1, <3>2 DEF WarningsRecorded
  <2>8. CASE SweepNotify
    BY <1>1, <2>8
  <2>9. QED BY <2>3, <2>4, <2>5, <2>6, <2>7, <2>8, SweepChanges
<1>3. QED BY <1>1, <1>2, WarnedChanges

-----------------------------------------------------------------------------
(* The table's view of a step: insert, claim, release, delete, or nothing. *)

Claims(r) == Claimable(r) /\ ClaimForExecution(r) /\ UNCHANGED <<rowState, done>>

Releases(r) ==
  /\ ReleaseClaim(r) /\ UNCHANGED <<rowState, done>>
  /\ \/ SweepHolds(r)
     \/ \E c \in Calls : Holds(c, r) /\ call[c].pc # "remove"

Deletes(r) ==
  /\ RemovePending(r) /\ UNCHANGED <<executingAt, done>>
  /\ Live(r) \/ SweepHolds(r) \/ \E c \in Calls : Holds(c, r)

\* Every step is one of these for one request, or leaves table and successes alone.
LEMMA TableStep ==
  ASSUME TypeOK, Next
  PROVE  \/ UNCHANGED <<rowState, executingAt, done>>
         \/ \E r \in Requests : InsertPending(r) \/ Claims(r) \/ Releases(r) \/ Deletes(r)
         \/ \E c \in Calls : ExecutorReturns(c)
<1>t. sweep.cur \in Requests /\ \A c \in Calls : call[c].req \in Requests
  BY DEF TypeOK, SweepType, CallType
<1>1. ASSUME NEW c \in Calls, ClaimApproved(c) \/ ClaimRejected(c)
      PROVE  UNCHANGED <<rowState, executingAt, done>> \/ Claims(call[c].req)
  BY <1>1 DEF ClaimApproved, ClaimRejected, Claims, histVars
<1>2. ASSUME NEW c \in Calls,
             ReleaseAfterAudit(c) \/ ReleaseAfterFailure(c) \/ ReleaseRejection(c)
      PROVE  Releases(call[c].req)
  BY <1>2 DEF ReleaseAfterAudit, ReleaseAfterFailure, ReleaseRejection, Releases, Holds,
              CallHolding, ApproveHolding, RejectHolding, histVars
<1>3. ASSUME NEW c \in Calls, RemoveExecuted(c) \/ RemoveRejected(c)
      PROVE  Deletes(call[c].req)
  BY <1>3 DEF RemoveExecuted, RemoveRejected, Deletes, Holds, CallHolding,
              ApproveHolding, RejectHolding, histVars
<1>4. ASSUME NEW c \in Calls, RemoveStuck(c)
      PROVE  UNCHANGED <<rowState, executingAt, done>> \/ Deletes(call[c].req)
  BY <1>4 DEF RemoveStuck, Deletes, histVars
<1>5. SweepClaim => UNCHANGED <<rowState, executingAt, done>> \/ Claims(sweep.cur)
  BY DEF SweepClaim, Claims, histVars
<1>6. SweepRelease => Releases(sweep.cur)
  BY DEF SweepRelease, Releases, SweepHolds, SweepHolding, histVars
<1>7. SweepRemove => Deletes(sweep.cur)
  BY DEF SweepRemove, Deletes, SweepHolds, SweepHolding, histVars
<1>8. ASSUME \A r \in Requests : ~InsertPending(r),
             \A c \in Calls : /\ ~ClaimApproved(c) /\ ~ClaimRejected(c)
                              /\ ~ReleaseAfterAudit(c) /\ ~ReleaseAfterFailure(c)
                              /\ ~ReleaseRejection(c) /\ ~RemoveExecuted(c)
                              /\ ~RemoveRejected(c) /\ ~RemoveStuck(c)
                              /\ ~ExecutorReturns(c),
             ~SweepClaim, ~SweepRelease, ~SweepRemove
      PROVE  UNCHANGED <<rowState, executingAt, done>>
  BY <1>8 DEF Next, CallStep, SweepStep, rowVars, histVars, AuditPending, Approve,
      Reject, RecordApproval, ArmFirstApproval, AuditApproval, Execute, ExecutorThrows,
      AuditFailure, AuditRejection, AuditStuckRejection, CallDies, SweepStart, SweepEnd,
      SweepExecuting, SweepNone, SweepWarn, SweepNotify, SweepExpire, SweepAudit,
      SweepDies, Tick
<1>9. QED
  BY <1>t, <1>1, <1>2, <1>3, <1>4, <1>5, <1>6, <1>7, <1>8

\* A row that was not inserted is not claimed.
LEMMA NewRowsStep ==
  ASSUME TypeOK, NewRowsFree, Next
  PROVE  NewRowsFree'
<1>1. /\ rowState \in [Requests -> {"none", "live", "gone"}]
      /\ executingAt \in [Requests -> Time \cup {Null}]
  BY DEF TypeOK
<1>2. ASSUME NEW r \in Requests, InsertPending(r) \/ Claims(r) \/ Releases(r) \/ Deletes(r)
      PROVE  NewRowsFree'
  BY <1>1, <1>2 DEF NewRowsFree, InsertPending, Claims, ClaimForExecution, Claimable, Live,
                    Releases, ReleaseClaim, Deletes, RemovePending
<1>3. QED
  BY <1>2, TableStep DEF NewRowsFree, ExecutorReturns, rowVars

-----------------------------------------------------------------------------
(* The theorems. *)

\* Every step keeps the inductive invariant.
LEMMA SafetyStep == SafetyInv /\ [Next]_vars => SafetyInv'
<1> SUFFICES ASSUME SafetyInv, [Next]_vars PROVE SafetyInv'
  OBVIOUS
<1>1. CASE Next
  <2>1. TypeOK'
    BY <1>1, TypeStep DEF SafetyInv
  <2>2. Lock'
    BY <1>1, LockStep DEF SafetyInv, Lock
  <2>n. NewRowsFree'
    BY <1>1, NewRowsStep DEF SafetyInv
  <2>3. DoneSealed' /\ DeadSealed' /\ TimeoutSealed'
    BY <1>1, DoneStep, DeadStep, TimeoutStep DEF SafetyInv, Lock
  <2>4. RunCovered' /\ WaitOver'
    BY <1>1, RunStep, WaitStep DEF SafetyInv, Lock
  <2>5. WarningsRecorded' /\ WarnedOnce'
    BY <1>1, WarnStep DEF SafetyInv
  <2>6. QED BY <2>1, <2>2, <2>n, <2>3, <2>4, <2>5 DEF SafetyInv, Lock
<1>2. CASE UNCHANGED vars
  BY <1>2 DEF vars, rowVars, histVars, SafetyInv, TypeOK, NewRowsFree, AtMostOneHolder, HoldersTake,
       DoneSealed, DeadSealed, TimeoutSealed, RunCovered, WaitOver, WarningsRecorded,
       WarnedOnce, Taken, Claimable, Live, Holds, SweepHolds
<1>3. QED BY <1>1, <1>2

\* The inductive invariant holds in every state the approval cycle reaches.
THEOREM Safety == Spec => []SafetyInv
  BY InitSafety, SafetyStep, PTL DEF Spec

\* One claim, one holder: approvals, rejections and the sweep exclude each other.
THEOREM HolderUnique == Spec => []AtMostOneHolder
<1>1. SafetyInv => AtMostOneHolder
  BY DEF SafetyInv
<1>2. QED BY <1>1, Safety, PTL

\* The irreversible action of a request succeeds at most once.
THEOREM ExecutesOnce == Spec => []ExecutedOnce
<1>1. SafetyInv => ExecutedOnce
  <2> SUFFICES ASSUME SafetyInv, NEW r \in Requests
               PROVE  /\ done[r] <= 1
                      /\ done[r] = 1 => \A c \in Calls :
                           call[c].req = r => call[c].pc \notin {"execute", "running"}
    BY DEF ExecutedOnce
  <2>1. done[r] \in Nat /\ DoneSealed
    BY DEF SafetyInv, TypeOK
  <2>2. done[r] <= 1
    BY <2>1 DEF DoneSealed
  <2>3. ASSUME done[r] = 1, NEW c \in Calls, call[c].req = r
        PROVE  call[c].pc \notin {"execute", "running"}
    BY <2>1, <2>3 DEF DoneSealed, Holds, CallHolding, ApproveHolding
  <2>4. QED BY <2>2, <2>3
<1>2. QED BY <1>1, Safety, PTL

\* No executor invocation without an 'approved' row written before it.
THEOREM RunsAreAudited == Spec => []AuditedBeforeRun
<1>1. SafetyInv => AuditedBeforeRun
  BY DEF SafetyInv, RunCovered, AuditedBeforeRun
<1>2. QED BY <1>1, Safety, PTL

\* The second approval of a dual-confirm comes at least Delay after the first.
THEOREM SecondWaits == Spec => []SecondApprovalWaited
<1>1. SafetyInv => SecondApprovalWaited
  BY DEF SafetyInv, WaitOver, SecondApprovalWaited
<1>2. QED BY <1>1, Safety, PTL

\* What the log says timed out is never executed.
THEOREM TimeoutsAreFinal == Spec => []TimeoutFinal
<1>1. SafetyInv => TimeoutFinal
  BY DEF SafetyInv, TimeoutSealed, TimeoutFinal, Holds, CallHolding
<1>2. QED BY <1>1, Safety, PTL

\* The owner is warned at most once per request.
THEOREM WarnsOnce == Spec => []WarnedOnce
<1>1. SafetyInv => WarnedOnce
  BY DEF SafetyInv
<1>2. QED BY <1>1, Safety, PTL

\* Nothing is retried after a call died holding the claim.
THEOREM DeadNeverRuns == Spec => DeadClaimNeverRuns
<1>1. SafetyInv /\ [Next]_vars =>
        [\A r \in Requests : dead[r] = "yes" => runs'[r] = runs[r]]_vars
  <2> SUFFICES ASSUME SafetyInv, Next, NEW r \in Requests, dead[r] = "yes"
               PROVE  runs'[r] = runs[r]
    OBVIOUS
  <2>1. TypeOK /\ DeadSealed
    BY DEF SafetyInv
  <2>2. ASSUME NEW c \in Calls, Execute(c) PROVE runs'[r] = runs[r]
    <3>1. call[c].req # r
      BY <2>1, <2>2 DEF DeadSealed, Execute, Holds, CallHolding, ApproveHolding
    <3>2. QED BY <2>1, <2>2, <3>1 DEF Execute, TypeOK
  <2>3. QED BY <2>1, <2>2, RunsChanges
<1>2. QED BY <1>1, Safety, PTL DEF Spec, DeadClaimNeverRuns

\* The approval cycle implements OneShot.
THEOREM Refinement == Spec => ImplementsOneShot
<1> DEFINE ph == [r \in Requests |-> Phase(r)]
<1>1. Init => Abstract!Init
  BY DEF Init, Abstract!Init, Phase
<1>2. SafetyInv /\ [Next]_vars => [Abstract!Next]_<<ph, done>>
  <2> SUFFICES ASSUME SafetyInv, [Next]_vars
               PROVE  Abstract!Next \/ UNCHANGED <<ph, done>>
    OBVIOUS
  <2>t. /\ rowState \in [Requests -> {"none", "live", "gone"}]
        /\ executingAt \in [Requests -> Time \cup {Null}] /\ now \in Time
        /\ done \in [Requests -> Nat]
        /\ \A c \in Calls : call[c].req \in Requests
        /\ Null \notin Time
    BY NullAssumption DEF SafetyInv, TypeOK, CallType, Time
  <2>1. CASE UNCHANGED <<rowState, executingAt, done>>
    BY <2>1 DEF Phase
  <2>2. ASSUME NEW r \in Requests, InsertPending(r) PROVE Abstract!Open(r)
    <3>1. ph[r] = "none" /\ done' = done
      BY <2>2 DEF InsertPending, Phase, histVars
    <3>2. ph' = [ph EXCEPT ![r] = "open"]
      BY <2>2, <2>t DEF InsertPending, Phase, SafetyInv, NewRowsFree
    <3>3. QED BY <3>1, <3>2 DEF Abstract!Open
  <2>3. ASSUME NEW r \in Requests, Claims(r) PROVE Abstract!Claim(r)
    <3>1. ph[r] = "open" /\ done' = done
      BY <2>3 DEF Claims, Claimable, Live, Phase
    <3>2. done[r] = 0
      BY <2>3, <2>t DEF Claims, SafetyInv, DoneSealed, Taken
    <3>3. ph' = [ph EXCEPT ![r] = "claimed"]
      BY <2>3, <2>t DEF Claims, Claimable, Live, ClaimForExecution, Phase
    <3>4. QED BY <3>1, <3>2, <3>3 DEF Abstract!Claim
  <2>4. ASSUME NEW r \in Requests, Releases(r)
        PROVE  Abstract!Release(r) \/ UNCHANGED <<ph, done>>
    <3>1. done[r] = 0 /\ done' = done
      BY <2>4, <2>t DEF Releases, SafetyInv, DoneSealed
    <3>2. Taken(r) /\ rowState[r] # "none"
      BY <2>4 DEF Releases, SafetyInv, HoldersTake
    <3>3. CASE rowState[r] = "live"
      <4>1. ph[r] = "claimed"
        BY <3>2, <3>3 DEF Phase, Taken, Claimable, Live
      <4>2. ph' = [ph EXCEPT ![r] = "open"]
        BY <2>4, <2>t, <3>3 DEF Releases, ReleaseClaim, Phase
      <4>3. QED BY <3>1, <4>1, <4>2 DEF Abstract!Release
    <3>4. CASE rowState[r] = "gone"
      BY <2>4, <2>t, <3>1, <3>4 DEF Releases, ReleaseClaim, Phase
    <3>5. QED BY <2>t, <3>2, <3>3, <3>4
  <2>5. ASSUME NEW r \in Requests, Deletes(r)
        PROVE  Abstract!Close(r) \/ UNCHANGED <<ph, done>>
    <3>1. rowState[r] # "none" /\ done' = done
      BY <2>5 DEF Deletes, SafetyInv, HoldersTake, Live
    <3>2. CASE rowState[r] = "live"
      <4>1. ph[r] \in {"open", "claimed"}
        BY <3>2 DEF Phase
      <4>2. ph' = [ph EXCEPT ![r] = "closed"]
        BY <2>5, <2>t DEF Deletes, RemovePending, Phase
      <4>3. QED BY <3>1, <4>1, <4>2 DEF Abstract!Close
    <3>3. CASE rowState[r] = "gone"
      BY <2>5, <2>t, <3>1, <3>3 DEF Deletes, RemovePending, Phase
    <3>4. QED BY <2>t, <3>1, <3>2, <3>3
  <2>6. ASSUME NEW c \in Calls, ExecutorReturns(c) PROVE Abstract!Succeed(call[c].req)
    <3>1. Holds(c, call[c].req) /\ call[c].pc = "running"
      BY <2>6 DEF ExecutorReturns, Holds, CallHolding, ApproveHolding
    <3>2. Taken(call[c].req) /\ rowState[call[c].req] # "none"
      BY <2>t, <3>1 DEF SafetyInv, HoldersTake
    <3>3. done[call[c].req] = 0
      BY <2>t, <3>1 DEF SafetyInv, DoneSealed
    <3>4. ph[call[c].req] \in {"claimed", "closed"}
      BY <2>t, <3>2 DEF Taken, Claimable, Live, Phase
    <3>5. ph' = ph
      BY <2>6 DEF ExecutorReturns, rowVars, Phase
    <3>6. done' = [done EXCEPT ![call[c].req] = 1]
      BY <2>t, <2>6, <3>3 DEF ExecutorReturns
    <3>7. QED BY <3>3, <3>4, <3>5, <3>6 DEF Abstract!Succeed
  <2>7. CASE UNCHANGED vars
    BY <2>7 DEF vars, rowVars, histVars, Phase
  <2>8. CASE Next
    BY <2>8, <2>t, <2>1, <2>2, <2>3, <2>4, <2>5, <2>6, TableStep DEF Abstract!Next, SafetyInv
  <2>9. QED BY <2>7, <2>8
<1>3. QED
  BY <1>1, <1>2, Safety, PTL DEF Spec, ImplementsOneShot, Abstract!Spec
=============================================================================
