------------------------------ MODULE Approvals ------------------------------
(***************************************************************************)
(* The human-in-the-loop approval cycle of Jin_Core: the rows of           *)
(* pending_approvals, the owner's approve and reject calls                 *)
(* (ApprovalExecutionService over DualConfirmService), the hourly sweep    *)
(* (TimeoutService) and the audit rows all of them write.                  *)
(*                                                                         *)
(* Every `await` of the code is a point where other calls run, so each     *)
(* database statement, audit append and executor call is an action of its  *)
(* own.  Any call may die at any of those points: its process is killed,   *)
(* or a statement outside every try/catch throws.                          *)
(***************************************************************************)
EXTENDS Integers, FiniteSets

CONSTANTS
  Requests,      \* request ids: each is created at most once (randomUUID)
  Calls,         \* concurrent owner calls: HTTP, Telegram, retries, double clicks
  Level,         \* Level[r]: "confirm" or "dual-confirm"
  Behavior,      \* Behavior[r]: the tool's timeoutBehavior
  Null,          \* SQL NULL
  Delay,         \* DUAL_CONFIRM_DELAY_MS
  StuckAfter,    \* STUCK_CLAIM_AFTER_MS
  WarnAfter,     \* ESCALATION_WARNING_MS
  Ttl,           \* APPROVAL_TTL_MS
  MaxTime,       \* bound: the clock stops here
  LastCreation,  \* bound: no request is created after this time
  MaxFaults      \* bound: audit failures, executor failures and dead calls

ASSUME RequestsAssumption == Requests # {}
ASSUME LevelAssumption == Level \in [Requests -> {"confirm", "dual-confirm"}]
ASSUME BehaviorAssumption == Behavior \in [Requests -> {"discard", "escalate"}]
ASSUME NullAssumption == Null \notin Nat
ASSUME TimeAssumption ==
  /\ Delay \in Nat /\ StuckAfter \in Nat /\ WarnAfter \in Nat /\ Ttl \in Nat
  /\ MaxTime \in Nat /\ LastCreation \in Nat /\ MaxFaults \in Nat

VARIABLES
  \* pending_approvals
  rowState,     \* "none" (never inserted), "live", "gone" (deleted)
  created,      \* created_at
  firstAt,      \* first_approved_at; available_at is this plus Delay
  escalated,    \* escalated_at
  executingAt,  \* executing_at: the claim
  \* audit_log
  audit,        \* audit[r][s]: rows of request r with approvalStatus s
  \* control
  creator,      \* createPendingApproval of each request
  call,         \* the owner calls: where each is, and its locals
  sweep,        \* TimeoutService.sweep: where it is, and its locals
  \* environment
  now, faults,
  \* history
  runs,         \* executor invocations per request
  done,         \* executor invocations that returned
  failed,       \* executor invocations that threw
  dead,         \* "yes" once a call died while it held the claim of r
  warned,       \* HITL_APPROVAL_ESCALATED_EVENTs emitted for r
  stuckSeen     \* "yes" once HITL_APPROVAL_STUCK_EVENT was emitted for r

rowVars  == <<rowState, created, firstAt, escalated, executingAt>>
histVars == <<runs, done, failed, dead, warned, stuckSeen>>
vars == <<rowVars, audit, creator, call, sweep, now, faults, histVars>>

-----------------------------------------------------------------------------
(* Control points and types. *)

Time == 0..MaxTime
Status == {"pending", "approved", "rejected", "failed", "timeout", "abandoned"}

\* Where a call is while it owns the claim it took with claimForExecution.
ApproveHolding == {"auditApproval", "execute", "running", "releaseFailed",
                   "releaseAudit", "remove"}
RejectHolding  == {"rejAudit", "rejRelease", "rejRemove"}
CallHolding    == ApproveHolding \cup RejectHolding
SweepHolding   == {"audit", "release", "remove"}

CallPC  == CallHolding \cup {"idle", "record", "arm", "claim", "auditFailure",
                             "rejClaim", "stuckAudit", "stuckRemove"}
SweepPC == SweepHolding \cup {"idle", "loop", "warn", "claim"}

SomeRequest == CHOOSE r \in Requests : TRUE

\* A call's locals: requestId, recordApproval's `now`, the executing_at of the
\* row resolveRejection read, and (history) the executions that had failed when
\* the owner approved.
IdleCall == [pc |-> "idle", req |-> SomeRequest, at |-> 0, seen |-> Null, known |-> 0]

NoSnap == [created |-> 0, escalated |-> Null, executingAt |-> Null]
IdleSweep == [pc |-> "idle", todo |-> {}, snap |-> [r \in Requests |-> NoSnap],
              at |-> 0, cur |-> SomeRequest]

CallType == [pc : CallPC, req : Requests, at : Time, seen : Time \cup {Null}, known : Nat]
SnapType == [created : Time, escalated : Time \cup {Null}, executingAt : Time \cup {Null}]
SweepType == [pc : SweepPC, todo : SUBSET Requests, snap : [Requests -> SnapType],
              at : Time, cur : Requests]

Holds(c, r) == call[c].req = r /\ call[c].pc \in CallHolding
SweepHolds(r) == sweep.cur = r /\ sweep.pc \in SweepHolding

-----------------------------------------------------------------------------
(* pending_approvals statements. *)

Live(r) == rowState[r] = "live"
Claimable(r) == Live(r) /\ executingAt[r] = Null

\* UPDATE ... SET executing_at = now WHERE executing_at IS NULL
ClaimForExecution(r) == executingAt' = [executingAt EXCEPT ![r] = now]

\* UPDATE ... SET executing_at = NULL, with no condition on who claimed it.
ReleaseClaim(r) == executingAt' = [executingAt EXCEPT ![r] = Null]

\* DELETE ... WHERE request_id = r
RemovePending(r) == rowState' = [rowState EXCEPT ![r] = "gone"]

\* The WHERE clause of removeIfNotExecuting.
NotExecuting(r) ==
  \/ executingAt[r] = Null
  \/ executingAt[r] < now - StuckAfter

-----------------------------------------------------------------------------
(* Audit appends and faults. *)

AuditRow(r, s) == audit' = [audit EXCEPT ![r][s] = @ + 1]

Fault == faults < MaxFaults /\ faults' = faults + 1

\* An append either writes its row and goes on, or throws (chain locked or
\* database error) and leaves the log alone.
Audited(r, s) == AuditRow(r, s) /\ UNCHANGED faults
AuditFails == Fault /\ UNCHANGED audit

-----------------------------------------------------------------------------
(* DualConfirmService.createPendingApproval: the row, then its audit row. *)

InsertPending(r) ==
  /\ rowState[r] = "none"
  /\ now <= LastCreation
  /\ rowState' = [rowState EXCEPT ![r] = "live"]
  /\ created' = [created EXCEPT ![r] = now]
  /\ creator' = [creator EXCEPT ![r] = "audit"]
  /\ UNCHANGED <<firstAt, escalated, executingAt, audit, call, sweep, now,
                 faults, histVars>>

AuditPending(r) ==
  /\ creator[r] = "audit"
  /\ \/ Audited(r, "pending") /\ creator' = [creator EXCEPT ![r] = "done"]
     \/ AuditFails /\ creator' = [creator EXCEPT ![r] = "failed"]
  /\ UNCHANGED <<rowVars, call, sweep, now, histVars>>

-----------------------------------------------------------------------------
(* ApprovalExecutionService.resolveAndExecute. *)

\* A call that returns or throws forgets its locals.
Goto(c, l) ==
  call' = [call EXCEPT ![c] = IF l = "idle" THEN IdleCall ELSE [@ EXCEPT !.pc = l]]

\* The owner approves: getPending finds the row, recordApproval reads the clock.
Approve(c, r) ==
  /\ call[c].pc = "idle"
  /\ Live(r)
  /\ call' = [call EXCEPT ![c] = [pc |-> "record", req |-> r, at |-> now,
                                  seen |-> Null, known |-> failed[r]]]
  /\ UNCHANGED <<rowVars, audit, creator, sweep, now, faults, histVars>>

\* Mutant: a second approval is taken at any later time.
AcceptAnySecond(first, t) == t >= first

\* canAcceptSecondApproval(computeAvailableAt(first), t)
CanAcceptSecondApproval(first, t) == t >= first + Delay

\* What recordApproval does with the row it has just read.
RecordOutcome(r, t) ==
  CASE ~Live(r)                                -> "idle"
    [] Live(r) /\ Level[r] = "confirm"         -> "claim"
    [] Live(r) /\ Level[r] = "dual-confirm" /\ firstAt[r] = Null -> "arm"
    [] OTHER -> IF CanAcceptSecondApproval(firstAt[r], t) THEN "claim" ELSE "idle"

RecordApproval(c) ==
  /\ call[c].pc = "record"
  /\ Goto(c, RecordOutcome(call[c].req, call[c].at))
  /\ UNCHANGED <<rowVars, audit, creator, sweep, now, faults, histVars>>

\* The conditional first approval; the loser of a race reads the row again.
ArmFirstApproval(c) ==
  /\ call[c].pc = "arm"
  /\ LET r == call[c].req IN
     IF Live(r) /\ firstAt[r] = Null
       THEN firstAt' = [firstAt EXCEPT ![r] = call[c].at] /\ Goto(c, "idle")
       ELSE UNCHANGED firstAt /\ Goto(c, "record")
  /\ UNCHANGED <<rowState, created, escalated, executingAt, audit, creator,
                 sweep, now, faults, histVars>>

ClaimApproved(c) ==
  /\ call[c].pc = "claim"
  /\ IF Claimable(call[c].req)
       THEN ClaimForExecution(call[c].req) /\ Goto(c, "auditApproval")
       ELSE UNCHANGED executingAt /\ Goto(c, "idle")
  /\ UNCHANGED <<rowState, created, firstAt, escalated, audit, creator, sweep,
                 now, faults, histVars>>

\* Mutant: fail-open, the action runs though its intention was not audited.
AuditApprovalOpen(c) ==
  /\ call[c].pc = "auditApproval"
  /\ Audited(call[c].req, "approved") \/ AuditFails
  /\ Goto(c, "execute")
  /\ UNCHANGED <<rowVars, creator, sweep, now, histVars>>

\* The intention is audited before anything runs (fail-closed).
AuditApproval(c) ==
  /\ call[c].pc = "auditApproval"
  /\ \/ Audited(call[c].req, "approved") /\ Goto(c, "execute")
     \/ AuditFails /\ Goto(c, "releaseAudit")
  /\ UNCHANGED <<rowVars, creator, sweep, now, histVars>>

ReleaseAfterAudit(c) ==
  /\ call[c].pc = "releaseAudit"
  /\ ReleaseClaim(call[c].req)
  /\ Goto(c, "idle")
  /\ UNCHANGED <<rowState, created, firstAt, escalated, audit, creator, sweep,
                 now, faults, histVars>>

Execute(c) ==
  /\ call[c].pc = "execute"
  /\ runs' = [runs EXCEPT ![call[c].req] = @ + 1]
  /\ Goto(c, "running")
  /\ UNCHANGED <<rowVars, audit, creator, sweep, now, faults, done, failed,
                 dead, warned, stuckSeen>>

ExecutorReturns(c) ==
  /\ call[c].pc = "running"
  /\ done' = [done EXCEPT ![call[c].req] = @ + 1]
  /\ Goto(c, "remove")
  /\ UNCHANGED <<rowVars, audit, creator, sweep, now, faults, runs, failed,
                 dead, warned, stuckSeen>>

ExecutorThrows(c) ==
  /\ call[c].pc = "running"
  /\ Fault
  /\ failed' = [failed EXCEPT ![call[c].req] = @ + 1]
  /\ Goto(c, "releaseFailed")
  /\ UNCHANGED <<rowVars, audit, creator, sweep, now, runs, done, dead, warned,
                 stuckSeen>>

ReleaseAfterFailure(c) ==
  /\ call[c].pc = "releaseFailed"
  /\ ReleaseClaim(call[c].req)
  /\ Goto(c, "auditFailure")
  /\ UNCHANGED <<rowState, created, firstAt, escalated, audit, creator, sweep,
                 now, faults, histVars>>

\* A failure to audit the failure is only logged.
AuditFailure(c) ==
  /\ call[c].pc = "auditFailure"
  /\ Audited(call[c].req, "failed") \/ AuditFails
  /\ Goto(c, "idle")
  /\ UNCHANGED <<rowVars, creator, sweep, now, histVars>>

\* Mutant: the executed request is only released.
RemoveExecutedReleases(c) ==
  /\ call[c].pc = "remove"
  /\ ReleaseClaim(call[c].req)
  /\ Goto(c, "idle")
  /\ UNCHANGED <<rowState, created, firstAt, escalated, audit, creator, sweep,
                 now, faults, histVars>>

RemoveExecuted(c) ==
  /\ call[c].pc = "remove"
  /\ RemovePending(call[c].req)
  /\ Goto(c, "idle")
  /\ UNCHANGED <<created, firstAt, escalated, executingAt, audit, creator,
                 sweep, now, faults, histVars>>

-----------------------------------------------------------------------------
(* ApprovalExecutionService.resolveRejection. *)

Reject(c, r) ==
  /\ call[c].pc = "idle"
  /\ Live(r)
  /\ call' = [call EXCEPT ![c] = [pc |-> "rejClaim", req |-> r, at |-> 0,
                                  seen |-> executingAt[r], known |-> 0]]
  /\ UNCHANGED <<rowVars, audit, creator, sweep, now, faults, histVars>>

\* isStuck is decided from the row read before the claim was attempted.
IsStuck(since) == since # Null /\ now - since > StuckAfter

ClaimRejected(c) ==
  /\ call[c].pc = "rejClaim"
  /\ IF Claimable(call[c].req)
       THEN ClaimForExecution(call[c].req) /\ Goto(c, "rejAudit")
       ELSE /\ UNCHANGED executingAt
            /\ Goto(c, IF IsStuck(call[c].seen) THEN "stuckAudit" ELSE "idle")
  /\ UNCHANGED <<rowState, created, firstAt, escalated, audit, creator, sweep,
                 now, faults, histVars>>

AuditRejection(c) ==
  /\ call[c].pc = "rejAudit"
  /\ \/ Audited(call[c].req, "rejected") /\ Goto(c, "rejRemove")
     \/ AuditFails /\ Goto(c, "rejRelease")
  /\ UNCHANGED <<rowVars, creator, sweep, now, histVars>>

ReleaseRejection(c) ==
  /\ call[c].pc = "rejRelease"
  /\ ReleaseClaim(call[c].req)
  /\ Goto(c, "idle")
  /\ UNCHANGED <<rowState, created, firstAt, escalated, audit, creator, sweep,
                 now, faults, histVars>>

RemoveRejected(c) ==
  /\ call[c].pc = "rejRemove"
  /\ RemovePending(call[c].req)
  /\ Goto(c, "idle")
  /\ UNCHANGED <<created, firstAt, escalated, executingAt, audit, creator,
                 sweep, now, faults, histVars>>

AuditStuckRejection(c) ==
  /\ call[c].pc = "stuckAudit"
  /\ \/ Audited(call[c].req, "rejected") /\ Goto(c, "stuckRemove")
     \/ AuditFails /\ Goto(c, "idle")
  /\ UNCHANGED <<rowVars, creator, sweep, now, histVars>>

\* removeIfNotExecuting, whose answer resolveRejection ignores.
RemoveStuck(c) ==
  /\ call[c].pc = "stuckRemove"
  /\ IF Live(call[c].req) /\ NotExecuting(call[c].req)
       THEN RemovePending(call[c].req)
       ELSE UNCHANGED rowState
  /\ Goto(c, "idle")
  /\ UNCHANGED <<created, firstAt, escalated, executingAt, audit, creator,
                 sweep, now, faults, histVars>>

-----------------------------------------------------------------------------
(* A call dies at an await. *)

MarkDead(r, holding) == dead' = IF holding THEN [dead EXCEPT ![r] = "yes"] ELSE dead

\* Mutant: the claim of a dead call is freed for the next one.
CallDiesReleasing(c) ==
  /\ call[c].pc # "idle"
  /\ Fault
  /\ MarkDead(call[c].req, call[c].pc \in CallHolding)
  /\ ReleaseClaim(call[c].req)
  /\ Goto(c, "idle")
  /\ UNCHANGED <<rowState, created, firstAt, escalated, audit, creator, sweep,
                 now, runs, done, failed, warned, stuckSeen>>

CallDies(c) ==
  /\ call[c].pc # "idle"
  /\ Fault
  /\ MarkDead(call[c].req, call[c].pc \in CallHolding)
  /\ Goto(c, "idle")
  /\ UNCHANGED <<rowVars, audit, creator, sweep, now, runs, done, failed,
                 warned, stuckSeen>>

-----------------------------------------------------------------------------
(* TimeoutService.sweep, over a snapshot of the table. *)

DecideTimeoutOutcome(behavior, elapsed, alreadyEscalated) ==
  CASE behavior = "discard" /\ elapsed >= Ttl  -> "discard"
    [] behavior = "escalate" /\ elapsed >= Ttl -> "abandon"
    [] /\ behavior = "escalate"
       /\ elapsed >= WarnAfter /\ elapsed < Ttl
       /\ ~alreadyEscalated                    -> "escalate-warning"
    [] OTHER                                   -> "none"

Outcome(r) == DecideTimeoutOutcome(Behavior[r], sweep.at - sweep.snap[r].created,
                                   sweep.snap[r].escalated # Null)

SweepGoto(l) == sweep' = IF l = "idle" THEN IdleSweep ELSE [sweep EXCEPT !.pc = l]

SweepStart ==
  /\ sweep.pc = "idle"
  /\ sweep' = [pc |-> "loop", todo |-> {r \in Requests : Live(r)},
               snap |-> [r \in Requests |->
                           IF Live(r) THEN [created |-> created[r],
                                            escalated |-> escalated[r],
                                            executingAt |-> executingAt[r]]
                                      ELSE NoSnap],
               at |-> now, cur |-> SomeRequest]
  /\ UNCHANGED <<rowVars, audit, creator, call, now, faults, histVars>>

SweepEnd ==
  /\ sweep.pc = "loop"
  /\ sweep.todo = {}
  /\ SweepGoto("idle")
  /\ UNCHANGED <<rowVars, audit, creator, call, now, faults, histVars>>

\* processPending takes the next row of the snapshot and goes to l.
Take(r, l) ==
  /\ sweep.pc = "loop"
  /\ r \in sweep.todo
  /\ sweep' = [sweep EXCEPT !.pc = l, !.todo = @ \ {r}, !.cur = r]

\* Mutant: a claimed row is skipped without a word.
SweepExecutingSilent(r) ==
  /\ Take(r, "loop")
  /\ sweep.snap[r].executingAt # Null
  /\ UNCHANGED <<rowVars, audit, creator, call, now, faults, histVars>>

\* A claimed row is never expired: at most the owner is told that it is stuck.
SweepExecuting(r) ==
  /\ Take(r, "loop")
  /\ sweep.snap[r].executingAt # Null
  /\ stuckSeen' = IF sweep.at - sweep.snap[r].executingAt > StuckAfter
                    THEN [stuckSeen EXCEPT ![r] = "yes"]
                    ELSE stuckSeen
  /\ UNCHANGED <<rowVars, audit, creator, call, now, faults, runs, done,
                 failed, dead, warned>>

SweepNone(r) ==
  /\ Take(r, "loop")
  /\ sweep.snap[r].executingAt = Null
  /\ Outcome(r) = "none"
  /\ UNCHANGED <<rowVars, audit, creator, call, now, faults, histVars>>

\* The warning is recorded in the row first, and the owner is told after it.
SweepWarn(r) ==
  /\ Take(r, "warn")
  /\ sweep.snap[r].executingAt = Null
  /\ Outcome(r) = "escalate-warning"
  /\ escalated' = IF Live(r) THEN [escalated EXCEPT ![r] = sweep.at] ELSE escalated
  /\ UNCHANGED <<rowState, created, firstAt, executingAt, audit, creator, call,
                 now, faults, histVars>>

SweepNotify ==
  /\ sweep.pc = "warn"
  /\ warned' = [warned EXCEPT ![sweep.cur] = @ + 1]
  /\ SweepGoto("loop")
  /\ UNCHANGED <<rowVars, audit, creator, call, now, faults, runs, done,
                 failed, dead, stuckSeen>>

SweepExpire(r) ==
  /\ Take(r, "claim")
  /\ sweep.snap[r].executingAt = Null
  /\ Outcome(r) \in {"discard", "abandon"}
  /\ UNCHANGED <<rowVars, audit, creator, call, now, faults, histVars>>

\* Mutant: the sweep looks at the row but does not claim it.
SweepClaimless ==
  /\ sweep.pc = "claim"
  /\ SweepGoto(IF Claimable(sweep.cur) THEN "audit" ELSE "loop")
  /\ UNCHANGED <<rowVars, audit, creator, call, now, faults, histVars>>

SweepClaim ==
  /\ sweep.pc = "claim"
  /\ IF Claimable(sweep.cur)
       THEN ClaimForExecution(sweep.cur) /\ SweepGoto("audit")
       ELSE UNCHANGED executingAt /\ SweepGoto("loop")
  /\ UNCHANGED <<rowState, created, firstAt, escalated, audit, creator, call,
                 now, faults, histVars>>

SweepAudit ==
  /\ sweep.pc = "audit"
  /\ \/ /\ Audited(sweep.cur,
                   IF Outcome(sweep.cur) = "discard" THEN "timeout" ELSE "abandoned")
        /\ SweepGoto("remove")
     \/ AuditFails /\ SweepGoto("release")
  /\ UNCHANGED <<rowVars, creator, call, now, histVars>>

\* Mutant: the error is rethrown with the claim still in place.
SweepReleaseForgets ==
  /\ sweep.pc = "release"
  /\ SweepGoto("idle")
  /\ UNCHANGED <<rowVars, audit, creator, call, now, faults, histVars>>

\* The error is rethrown: the rows left in this sweep wait for the next one.
SweepRelease ==
  /\ sweep.pc = "release"
  /\ ReleaseClaim(sweep.cur)
  /\ SweepGoto("idle")
  /\ UNCHANGED <<rowState, created, firstAt, escalated, audit, creator, call,
                 now, faults, histVars>>

SweepRemove ==
  /\ sweep.pc = "remove"
  /\ RemovePending(sweep.cur)
  /\ SweepGoto("loop")
  /\ UNCHANGED <<created, firstAt, escalated, executingAt, audit, creator,
                 call, now, faults, histVars>>

SweepDies ==
  /\ sweep.pc # "idle"
  /\ Fault
  /\ MarkDead(sweep.cur, sweep.pc \in SweepHolding)
  /\ SweepGoto("idle")
  /\ UNCHANGED <<rowVars, audit, creator, call, now, runs, done, failed,
                 warned, stuckSeen>>

Tick ==
  /\ now < MaxTime
  /\ now' = now + 1
  /\ UNCHANGED <<rowVars, audit, creator, call, sweep, faults, histVars>>

-----------------------------------------------------------------------------
(* The specification. *)

Init ==
  /\ rowState = [r \in Requests |-> "none"]
  /\ created = [r \in Requests |-> 0]
  /\ firstAt = [r \in Requests |-> Null]
  /\ escalated = [r \in Requests |-> Null]
  /\ executingAt = [r \in Requests |-> Null]
  /\ audit = [r \in Requests |-> [s \in Status |-> 0]]
  /\ creator = [r \in Requests |-> "idle"]
  /\ call = [c \in Calls |-> IdleCall]
  /\ sweep = IdleSweep
  /\ now = 0
  /\ faults = 0
  /\ runs = [r \in Requests |-> 0]
  /\ done = [r \in Requests |-> 0]
  /\ failed = [r \in Requests |-> 0]
  /\ dead = [r \in Requests |-> "no"]
  /\ warned = [r \in Requests |-> 0]
  /\ stuckSeen = [r \in Requests |-> "no"]

\* What a call does by itself once the owner has made it.
CallStep(c) ==
  \/ RecordApproval(c) \/ ArmFirstApproval(c) \/ ClaimApproved(c)
  \/ AuditApproval(c) \/ ReleaseAfterAudit(c)
  \/ Execute(c) \/ ExecutorReturns(c) \/ ExecutorThrows(c)
  \/ ReleaseAfterFailure(c) \/ AuditFailure(c) \/ RemoveExecuted(c)
  \/ ClaimRejected(c) \/ AuditRejection(c) \/ ReleaseRejection(c)
  \/ RemoveRejected(c) \/ AuditStuckRejection(c) \/ RemoveStuck(c)

SweepStep ==
  \/ SweepStart \/ SweepEnd \/ SweepNotify
  \/ \E r \in Requests : \/ SweepExecuting(r) \/ SweepNone(r)
                         \/ SweepWarn(r) \/ SweepExpire(r)
  \/ SweepClaim \/ SweepAudit \/ SweepRelease \/ SweepRemove

Next ==
  \/ \E r \in Requests : InsertPending(r) \/ AuditPending(r)
  \/ \E c \in Calls :
       \/ \E r \in Requests : Approve(c, r) \/ Reject(c, r)
       \/ CallStep(c)
       \/ CallDies(c)
  \/ SweepStep
  \/ SweepDies
  \/ Tick

Spec == Init /\ [][Next]_vars

\* Node runs every started call to its end, the executor's promise settles, the
\* cron fires again and again, and time passes.  The owner owes nothing.
Fairness ==
  /\ \A r \in Requests : WF_vars(AuditPending(r))
  /\ \A c \in Calls : WF_vars(CallStep(c))
  /\ WF_vars(SweepStep)
  /\ WF_vars(Tick)

FairSpec == Spec /\ Fairness

-----------------------------------------------------------------------------
(* Properties. *)

\* Types of the table, of the log and of the locals of every call.
TypeOK ==
  /\ rowState \in [Requests -> {"none", "live", "gone"}]
  /\ created \in [Requests -> Time]
  /\ firstAt \in [Requests -> Time \cup {Null}]
  /\ escalated \in [Requests -> Time \cup {Null}]
  /\ executingAt \in [Requests -> Time \cup {Null}]
  /\ audit \in [Requests -> [Status -> Nat]]
  /\ creator \in [Requests -> {"idle", "audit", "done", "failed"}]
  /\ call \in [Calls -> CallType]
  /\ sweep \in SweepType
  /\ now \in Time
  /\ faults \in Nat
  /\ runs \in [Requests -> Nat]
  /\ done \in [Requests -> Nat]
  /\ failed \in [Requests -> Nat]
  /\ dead \in [Requests -> {"yes", "no"}]
  /\ warned \in [Requests -> Nat]
  /\ stuckSeen \in [Requests -> {"yes", "no"}]

\* The claim of a request is never held twice: not by two approvals, not by an
\* approval and a rejection, not by an owner's call and the sweep
\* ("una expiración nunca compite con una ejecución").
AtMostOneHolder ==
  \A r \in Requests :
    /\ \A c, d \in Calls : Holds(c, r) /\ Holds(d, r) => c = d
    /\ \A c \in Calls : Holds(c, r) => ~SweepHolds(r)

\* The irreversible action succeeds at most once, and once it has succeeded no
\* call can reach the executor again, whoever dies afterwards
\* ("a lo sumo una vez: N aprobaciones simultáneas ejecutan una sola vez").
ExecutedOnce ==
  \A r \in Requests :
    /\ done[r] <= 1
    /\ done[r] = 1 => \A c \in Calls :
                        call[c].req = r => call[c].pc \notin {"execute", "running"}

\* Every executor invocation has an 'approved' row of its own in the log, written
\* before it started (fail-closed).
AuditedBeforeRun == \A r \in Requests : runs[r] <= audit[r]["approved"]

\* Nothing of level dual-confirm runs unless a first approval was recorded at
\* least Delay before the clock the approving call read, and no running call
\* read a clock of the future.
SecondApprovalWaited ==
  \A c \in Calls :
    /\ call[c].pc \in ApproveHolding
    /\ Level[call[c].req] = "dual-confirm"
    => /\ firstAt[call[c].req] # Null
       /\ firstAt[call[c].req] + Delay <= call[c].at
       /\ call[c].at <= now

\* A request the log says timed out or was abandoned is not, and will not be, in
\* the hands of an approval, even if the sweep died before deleting its row.
TimeoutFinal ==
  \A r \in Requests :
    audit[r]["timeout"] + audit[r]["abandoned"] > 0 =>
      \A c \in Calls : call[c].req = r => call[c].pc \notin ApproveHolding

\* After a call died holding a claim nothing runs the action again by itself or
\* by a new approval: the claim stays until a human rejects it.
DeadClaimNeverRuns ==
  [][\A r \in Requests : dead[r] = "yes" => runs'[r] = runs[r]]_vars

\* The 12 h warning goes out at most once per request, though the sweep decides
\* from a snapshot and runs every hour.
WarnedOnce == \A r \in Requests : warned[r] <= 1

\* Every request is resolved in the end: its row is deleted, or a call died
\* holding its claim and it is left to the owner.
EventuallyResolved ==
  \A r \in Requests : Live(r) ~> (rowState[r] = "gone" \/ dead[r] = "yes")

\* A claim nobody will ever finish is reported to the owner, unless it is cleared
\* first (the clock must still have room for the claim to become stuck).
StuckIsReported ==
  \A r \in Requests :
    Live(r) /\ dead[r] = "yes" /\ executingAt[r] + StuckAfter < MaxTime
      ~> (stuckSeen[r] = "yes" \/ rowState[r] = "gone")

\* Where a request stands, as OneShot sees it.
Phase(r) ==
  CASE rowState[r] = "none"                           -> "none"
    [] rowState[r] = "gone"                           -> "closed"
    [] rowState[r] = "live" /\ executingAt[r] = Null  -> "open"
    [] OTHER                                          -> "claimed"

Abstract == INSTANCE OneShot WITH phase <- [r \in Requests |-> Phase(r)], wins <- done

\* The cycle implements OneShot: claims taken, lost, released, stuck, rejected
\* from under their holder or left behind by a crash add up to one success.
ImplementsOneShot == Abstract!Spec

-----------------------------------------------------------------------------
(* The inductive invariant behind the safety properties. *)

\* Nobody can claim r: it was never inserted or is deleted, or it is claimed.
Taken(r) == ~Claimable(r)

\* A row is inserted unclaimed.
NewRowsFree == \A r \in Requests : rowState[r] = "none" => executingAt[r] = Null

\* Whoever holds r took it, and took a row that existed.
HoldersTake ==
  \A r \in Requests : (SweepHolds(r) \/ \E c \in Calls : Holds(c, r))
                         => Taken(r) /\ rowState[r] # "none"

\* An executed request can only be deleted.
DoneSealed ==
  \A r \in Requests : done[r] # 0 =>
    /\ done[r] = 1 /\ Taken(r) /\ rowState[r] # "none" /\ ~SweepHolds(r)
    /\ \A c \in Calls : Holds(c, r) => call[c].pc = "remove"

\* A claim whose holder died has no holder and is not released.
DeadSealed ==
  \A r \in Requests : dead[r] = "yes" =>
    /\ Taken(r) /\ rowState[r] # "none" /\ ~SweepHolds(r)
    /\ \A c \in Calls : ~Holds(c, r)

\* A request that timed out in the log can only be deleted, by the sweep.
TimeoutSealed ==
  \A r \in Requests : audit[r]["timeout"] + audit[r]["abandoned"] > 0 =>
    /\ Taken(r) /\ rowState[r] # "none"
    /\ SweepHolds(r) => sweep.pc = "remove"
    /\ \A c \in Calls : ~Holds(c, r)

\* A call about to execute has an 'approved' row that no run has used.
RunCovered ==
  \A r \in Requests :
    /\ runs[r] <= audit[r]["approved"]
    /\ \A c \in Calls : call[c].req = r /\ call[c].pc = "execute"
                          => runs[r] < audit[r]["approved"]

\* The wait is over from the moment the call may claim.
WaitOver ==
  \A c \in Calls :
    /\ call[c].at <= now
    /\ /\ call[c].pc \in ApproveHolding \cup {"claim"}
       /\ Level[call[c].req] = "dual-confirm"
       => /\ firstAt[call[c].req] # Null
          /\ firstAt[call[c].req] + Delay <= call[c].at

\* A warned request shows it in its row, and in the snapshot of a later sweep.
WarningsRecorded ==
  /\ \A r \in Requests : warned[r] # 0 => rowState[r] = "gone" \/ escalated[r] # Null
  /\ \A r \in sweep.todo : /\ rowState[r] # "none"
                           /\ warned[r] # 0 => sweep.snap[r].escalated # Null
  /\ sweep.pc = "warn" =>
       /\ warned[sweep.cur] = 0
       /\ sweep.cur \notin sweep.todo
       /\ rowState[sweep.cur] = "gone" \/ escalated[sweep.cur] # Null

SafetyInv ==
  /\ TypeOK /\ NewRowsFree /\ AtMostOneHolder /\ HoldersTake
  /\ DoneSealed /\ DeadSealed /\ TimeoutSealed
  /\ RunCovered /\ WaitOver /\ WarningsRecorded /\ WarnedOnce

-----------------------------------------------------------------------------
(* Statements of the code's comments that the code does not keep. *)

\* "si el executor falla, el pendiente queda vivo y exige una nueva aprobación
\* humana": whoever runs the action approved it after the last failure.
FreshApproval ==
  \A c \in Calls : call[c].pc = "running" => call[c].known = failed[call[c].req]

\* "un rechazo no puede llegar a mitad de la acción": while the action runs under
\* a claim that is not stuck, the log holds no rejection of it.
NoRejectionMidRun ==
  \A c \in Calls :
    call[c].pc = "running" /\ ~NotExecuting(call[c].req)
      => audit[call[c].req]["rejected"] = 0
=============================================================================
