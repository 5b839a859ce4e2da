---------------------------- MODULE Orchestrator ----------------------------
(***************************************************************************)
(* A multi-agent run (OrchestratorService.runObjective over the ledger):   *)
(* the objective is decomposed into tickets with dependencies, ready       *)
(* tickets run as sub-agents in parallel chunks, their results are         *)
(* reconciled, and the run is closed.  The kill switch may go on and off   *)
(* at any time, any database or model call may fail, and the process may   *)
(* die.                                                                    *)
(***************************************************************************)
EXTENDS Naturals, FiniteSets

CONSTANTS
  Tickets,       \* ticket ids; a decomposition uses some of them
  MaxConcurrent  \* maxConcurrentSubAgents

ASSUME ConcurrencyAssumption == MaxConcurrent \in Nat \ {0}
ASSUME TicketsAssumption == IsFiniteSet(Tickets) /\ Tickets # {}

VARIABLES
  \* the ledger
  status,      \* agent_orchestration_runs.status, "none" before createRun
  ticket,      \* agent_tickets.status of every ticket, "none" if not created
  dep,         \* agent_tickets.depends_on
  comments,    \* kinds of agent_ticket_comments of every ticket
  approvals,   \* pending_approvals of resolveAgentConflict, by ticket
  \* runObjective
  pc,
  seen,        \* the statuses the batch loop works on
  queue,       \* ready tickets of this round that have not started
  batch,       \* the chunk Promise.all waits for
  conflict,    \* what the reconciliation found: risk and tickets
  \* runSubAgentForTicket
  sub,         \* control of each sub-agent
  board,       \* completed siblings it was shown
  \* budget_kill_switch
  kill,        \* "on" or "off"
  \* history
  turns,       \* agent turns started per ticket
  cut          \* "yes" if the kill switch, and nothing else, stopped runObjective

ledger == <<status, ticket, dep, comments, approvals>>
loop == <<pc, seen, queue, batch, conflict>>
vars == <<ledger, loop, sub, board, kill, turns, cut>>

TicketStatus == {"none", "pending", "in-progress", "done", "failed", "blocked"}
NoConflict == [risk |-> "none", ids |-> {}]

\* Tickets whose sub-agent was called and has not returned.
Active == {t \in Tickets : sub[t] \notin {"idle", "returned", "threw"}}

-----------------------------------------------------------------------------
(* orchestrator.logic.ts *)

\* computeReadyBatch
ComputeReadyBatch(s) == {t \in Tickets : s[t] = "pending" /\ \A d \in dep[t] : s[d] = "done"}

\* chunk: the chunk that runs next.  The tickets of a run have one created_at, so
\* getTickets orders them any way.
Chunks(items) ==
  {b \in SUBSET items : b # {} /\ (Cardinality(b) = MaxConcurrent \/ b = items)
                               /\ Cardinality(b) <= MaxConcurrent}

\* computeRunStatus
ComputeRunStatus(s, risk) ==
  CASE \/ risk = "material"
       \/ \E t \in Tickets : s[t] \in {"pending", "in-progress", "blocked"} -> "blocked"
    [] OTHER -> IF \E t \in Tickets : s[t] = "failed" THEN "failed" ELSE "done"

-----------------------------------------------------------------------------
(* runObjective *)

\* The call is over, its locals are gone.
Return ==
  /\ seen' = [t \in Tickets |-> "none"]
  /\ queue' = {} /\ batch' = {}
  /\ conflict' = NoConflict

CreateRun ==
  /\ pc = "idle"
  /\ status' = "running"
  /\ pc' = "decompose"
  /\ UNCHANGED <<ticket, dep, comments, approvals, seen, queue, batch, conflict,
                 sub, board, kill, turns, cut>>

\* The model answers with any tickets and dependencies, and createTickets stores
\* them.  Dependencies may be cyclic; an index out of range names no ticket.
Decompose ==
  /\ pc = "decompose"
  /\ \E made \in SUBSET Tickets \ {{}} :
       /\ ticket' = [t \in Tickets |-> IF t \in made THEN "pending" ELSE "none"]
       /\ dep' \in {f \in [Tickets -> SUBSET Tickets] : \A t \in Tickets \ made : f[t] = {}}
  /\ seen' = ticket'
  /\ pc' = "check"
  /\ UNCHANGED <<status, comments, approvals, queue, batch, conflict, sub, board,
                 kill, turns, cut>>

\* Mutant: the loop goes on as long as some ticket is pending.
CheckRoundUntilSettled ==
  /\ pc = "check"
  /\ IF kill = "on"
       THEN pc' = "killed" /\ cut' = "yes" /\ UNCHANGED queue
       ELSE /\ queue' = ComputeReadyBatch(seen)
            /\ pc' = IF \A t \in Tickets : seen[t] # "pending" THEN "reconcile" ELSE "chunk"
            /\ UNCHANGED cut
  /\ UNCHANGED <<ledger, seen, batch, conflict, sub, board, kill, turns>>

\* Mutant: a stopped run is reconciled like any other.
CheckRoundReconciles ==
  /\ pc = "check"
  /\ queue' = IF kill = "on" THEN {} ELSE ComputeReadyBatch(seen)
  /\ cut' = IF kill = "on" THEN "yes" ELSE cut
  /\ pc' = IF queue' = {} THEN "reconcile" ELSE "chunk"
  /\ UNCHANGED <<ledger, seen, batch, conflict, sub, board, kill, turns>>

\* A round of runBatchesUntilDone: the kill switch, then the ready tickets.
CheckRound ==
  /\ pc = "check"
  /\ IF kill = "on"
       THEN pc' = "killed" /\ cut' = "yes" /\ UNCHANGED queue
       ELSE /\ queue' = ComputeReadyBatch(seen)
            /\ pc' = IF queue' = {} THEN "reconcile" ELSE "chunk"
            /\ UNCHANGED cut
  /\ UNCHANGED <<ledger, seen, batch, conflict, sub, board, kill, turns>>

StartChunk ==
  /\ pc = "chunk"
  /\ \E b \in Chunks(queue) :
       /\ batch' = b
       /\ queue' = queue \ b
       /\ sub' = [t \in Tickets |-> IF t \in b THEN "mark" ELSE sub[t]]
  /\ pc' = "batch"
  /\ UNCHANGED <<ledger, seen, conflict, board, kill, turns, cut>>

\* Promise.all resolves.
ChunkDone ==
  /\ pc = "batch"
  /\ \A t \in batch : sub[t] = "returned"
  /\ pc' = "chunk"
  /\ batch' = {}
  /\ UNCHANGED <<ledger, seen, queue, conflict, sub, board, kill, turns, cut>>

\* Mutant: the loop goes on with the statuses it knows.
ReloadForgotten ==
  /\ pc = "chunk" /\ queue = {}
  /\ pc' = "check"
  /\ UNCHANGED <<ledger, seen, queue, batch, conflict, sub, board, kill, turns, cut>>

\* getTickets at the end of a round.
Reload ==
  /\ pc = "chunk" /\ queue = {}
  /\ seen' = ticket
  /\ pc' = "check"
  /\ UNCHANGED <<ledger, queue, batch, conflict, sub, board, kill, turns, cut>>

CompleteKilled ==
  /\ pc = "killed"
  /\ status' = "killed"
  /\ pc' = "end"
  /\ UNCHANGED <<ticket, dep, comments, approvals, seen, queue, batch, conflict, sub,
                 board, kill, turns, cut>>

\* The model reads the board and reports at most one conflict (bound), between any
\* tickets of the run, or between none: the schema accepts an empty list.
Reconcile ==
  /\ pc = "reconcile"
  /\ conflict' \in {NoConflict} \cup
       [risk : {"low", "material"}, ids : SUBSET {t \in Tickets : ticket[t] # "none"}]
  /\ pc' = "apply"
  /\ UNCHANGED <<ledger, seen, queue, batch, sub, board, kill, turns, cut>>

Comment(ids, kind) ==
  comments' = [t \in Tickets |-> IF t \in ids THEN comments[t] \cup {kind} ELSE comments[t]]

\* applyReconciliation of a low conflict, or of none.
ResolveLow ==
  /\ pc = "apply"
  /\ conflict.risk # "material"
  /\ Comment(conflict.ids, "resolution")
  /\ pc' = "complete"
  /\ UNCHANGED <<status, ticket, dep, approvals, seen, queue, batch, conflict, sub,
                 board, kill, turns, cut>>

\* A material conflict becomes an approval in the name of its first ticket.
Escalate ==
  /\ pc = "apply"
  /\ conflict.risk = "material"
  /\ IF conflict.ids = {}
       THEN pc' = "complete" /\ UNCHANGED approvals
       ELSE /\ \E t \in conflict.ids : approvals' = [approvals EXCEPT ![t] = "pending"]
            /\ pc' = "note"
  /\ UNCHANGED <<status, ticket, dep, comments, seen, queue, batch, conflict, sub,
                 board, kill, turns, cut>>

NoteConflict ==
  /\ pc = "note"
  /\ Comment(conflict.ids, "conflict")
  /\ pc' = "complete"
  /\ UNCHANGED <<status, ticket, dep, approvals, seen, queue, batch, conflict, sub,
                 board, kill, turns, cut>>

CompleteRun ==
  /\ pc = "complete"
  /\ status' = ComputeRunStatus(ticket, conflict.risk)
  /\ pc' = "end"
  /\ UNCHANGED <<ticket, dep, comments, approvals, seen, queue, batch, conflict, sub,
                 board, kill, turns, cut>>

\* A statement or model call of runObjective rejects: nobody closes the run.  Of
\* several comments the first ones may be there.
RunThrows ==
  /\ pc \in {"decompose", "check", "chunk", "killed", "reconcile", "apply", "note", "complete"}
  /\ \E ids \in SUBSET conflict.ids :
       CASE pc = "apply" /\ conflict.risk = "low" -> Comment(ids, "resolution")
         [] pc = "note" -> Comment(ids, "conflict")
         [] OTHER -> UNCHANGED comments
  /\ pc' = "threw"
  /\ Return
  /\ cut' = "no"
  /\ UNCHANGED <<status, ticket, dep, approvals, sub, board, kill, turns>>

\* The guarded router refuses the decomposition or the reconciliation.
RunMeetsKill ==
  /\ pc \in {"decompose", "reconcile"}
  /\ kill = "on"
  /\ pc' = "threw"
  /\ Return
  /\ cut' = "yes"
  /\ UNCHANGED <<ledger, sub, board, kill, turns>>

-----------------------------------------------------------------------------
(* runSubAgentForTicket *)

Goto(t, l) == sub' = [sub EXCEPT ![t] = l]
SetStatus(t, s) == ticket' = [ticket EXCEPT ![t] = s]

\* updateTicketStatus and assignSubAgent.
MarkInProgress(t) ==
  /\ sub[t] = "mark"
  /\ SetStatus(t, "in-progress")
  /\ Goto(t, "board")
  /\ UNCHANGED <<status, dep, comments, approvals, loop, board, kill, turns, cut>>

\* Mutant: only the siblings of the same chunk are shown.
ReadBoardOfBatch(t) ==
  /\ sub[t] = "board"
  /\ board' = [board EXCEPT ![t] = {d \in batch \ {t} : ticket[d] = "done"}]
  /\ turns' = [turns EXCEPT ![t] = @ + 1]
  /\ Goto(t, "turn")
  /\ UNCHANGED <<ledger, loop, kill, cut>>

\* getCompletedSiblings; then runTurn starts.
ReadBoard(t) ==
  /\ sub[t] = "board"
  /\ board' = [board EXCEPT ![t] = {d \in Tickets \ {t} : ticket[d] = "done"}]
  /\ turns' = [turns EXCEPT ![t] = @ + 1]
  /\ Goto(t, "turn")
  /\ UNCHANGED <<ledger, loop, kill, cut>>

\* The turn ends, with or without approvals left for the owner.
TurnEnds(t) ==
  /\ sub[t] = "turn"
  /\ \E l \in {"result-done", "result-blocked"} : Goto(t, l)
  /\ UNCHANGED <<ledger, loop, board, kill, turns, cut>>

\* The result comment, before the status that makes dependants ready.
RecordResult(t) ==
  /\ sub[t] \in {"result-done", "result-blocked"}
  /\ Comment({t}, "result")
  /\ Goto(t, IF sub[t] = "result-done" THEN "finish-done" ELSE "finish-blocked")
  /\ UNCHANGED <<status, ticket, dep, approvals, loop, board, kill, turns, cut>>

FinishTicket(t) ==
  /\ sub[t] \in {"finish-done", "finish-blocked"}
  /\ SetStatus(t, IF sub[t] = "finish-done" THEN "done" ELSE "blocked")
  /\ Goto(t, "returned")
  /\ UNCHANGED <<status, dep, comments, approvals, loop, board, kill, turns, cut>>

\* Any other error inside the try leads to the catch: the ticket fails.
SubCatches(t) ==
  /\ sub[t] \in {"turn", "result-done", "result-blocked", "finish-done", "finish-blocked"}
  /\ Goto(t, "fail")
  /\ UNCHANGED <<ledger, loop, board, kill, turns, cut>>

FailTicket(t) ==
  /\ sub[t] = "fail"
  /\ SetStatus(t, "failed")
  /\ Goto(t, "note")
  /\ UNCHANGED <<status, dep, comments, approvals, loop, board, kill, turns, cut>>

NoteFailure(t) ==
  /\ sub[t] = "note"
  /\ Comment({t}, "note")
  /\ Goto(t, "returned")
  /\ UNCHANGED <<status, ticket, dep, approvals, loop, board, kill, turns, cut>>

\* The call rejects.  The first rejection ends Promise.all and with it the run's
\* wait; the other sub-agents of the chunk go on.
Rejects(t, l) ==
  /\ Goto(t, "threw")
  /\ pc' = IF pc = "batch" /\ t \in batch THEN l ELSE pc
  /\ UNCHANGED <<ledger, seen, queue, batch, conflict, board, kill, turns>>

SubMeetsKill(t) ==
  /\ sub[t] = "turn"
  /\ kill = "on"
  /\ Rejects(t, "killed")
  /\ cut' = IF pc = "batch" /\ t \in batch THEN "yes" ELSE cut

\* A statement outside the try, or in the catch, fails.
SubThrows(t) ==
  /\ sub[t] \in {"mark", "board", "fail", "note"}
  /\ Rejects(t, "threw")
  /\ UNCHANGED cut

-----------------------------------------------------------------------------
(* The owner, the kill switch and the process. *)

\* The executor of resolveAgentConflict.
OwnerResolves(t) ==
  /\ approvals[t] = "pending"
  /\ approvals' = [approvals EXCEPT ![t] = "resolved"]
  /\ Comment({t}, "resolution")
  /\ UNCHANGED <<status, ticket, dep, loop, sub, board, kill, turns, cut>>

\* The owner rejects, or the sweep of stale approvals discards it.
OwnerRejects(t) ==
  /\ approvals[t] = "pending"
  /\ approvals' = [approvals EXCEPT ![t] = "rejected"]
  /\ UNCHANGED <<status, ticket, dep, comments, loop, sub, board, kill, turns, cut>>

\* checkRunaway and unpause (bound: only while there is somebody to stop).
SwitchKill ==
  /\ pc \notin {"idle", "end", "threw"} \/ Active # {}
  /\ kill' = IF kill = "on" THEN "off" ELSE "on"
  /\ UNCHANGED <<ledger, loop, sub, board, turns, cut>>

\* The process dies: the ledger is all that is left, and nothing resumes a run.
Crash ==
  /\ pc \notin {"idle", "end", "threw"} \/ Active # {}
  /\ pc' = IF pc = "end" THEN "end" ELSE "threw"
  /\ Return
  /\ sub' = [t \in Tickets |-> IF t \in Active THEN "threw" ELSE sub[t]]
  /\ cut' = "no"
  /\ UNCHANGED <<ledger, board, kill, turns>>

-----------------------------------------------------------------------------
Init ==
  /\ status = "none"
  /\ ticket = [t \in Tickets |-> "none"]
  /\ dep = [t \in Tickets |-> {}]
  /\ comments = [t \in Tickets |-> {}]
  /\ approvals = [t \in Tickets |-> "none"]
  /\ pc = "idle"
  /\ seen = [t \in Tickets |-> "none"]
  /\ queue = {} /\ batch = {}
  /\ conflict = NoConflict
  /\ sub = [t \in Tickets |-> "idle"]
  /\ board = [t \in Tickets |-> {}]
  /\ kill = "off"
  /\ turns = [t \in Tickets |-> 0]
  /\ cut = "no"

RunStep ==
  \/ CreateRun \/ Decompose \/ CheckRound \/ StartChunk \/ ChunkDone \/ Reload
  \/ CompleteKilled \/ Reconcile \/ ResolveLow \/ Escalate \/ NoteConflict
  \/ CompleteRun \/ RunThrows \/ RunMeetsKill

SubStep(t) ==
  \/ MarkInProgress(t) \/ ReadBoard(t) \/ TurnEnds(t) \/ RecordResult(t)
  \/ FinishTicket(t) \/ SubCatches(t) \/ FailTicket(t) \/ NoteFailure(t)
  \/ SubMeetsKill(t) \/ SubThrows(t)

Next ==
  \/ RunStep
  \/ \E t \in Tickets : SubStep(t) \/ OwnerResolves(t) \/ OwnerRejects(t)
  \/ SwitchKill
  \/ Crash

Spec == Init /\ [][Next]_vars

\* Every promise settles: statements return, and a turn has at most maxIterations
\* model calls.
FairSpec == Spec /\ WF_vars(RunStep) /\ \A t \in Tickets : WF_vars(SubStep(t))

-----------------------------------------------------------------------------
(* Properties. *)

\* Types of the ledger and of the control of the run.
TypeOK ==
  /\ status \in {"none", "running", "killed", "blocked", "failed", "done"}
  /\ ticket \in [Tickets -> TicketStatus]
  /\ seen \in [Tickets -> TicketStatus]
  /\ dep \in [Tickets -> SUBSET Tickets]
  /\ comments \in [Tickets -> SUBSET {"result", "note", "conflict", "resolution"}]
  /\ approvals \in [Tickets -> {"none", "pending", "resolved", "rejected"}]
  /\ queue \subseteq Tickets /\ batch \subseteq Tickets
  /\ board \in [Tickets -> SUBSET Tickets]
  /\ turns \in [Tickets -> Nat]
  /\ queue \cap batch = {}

\* A sub-agent works only when everything its ticket depends on is done, and its
\* turn was shown those results.
DependenciesDelivered ==
  \A t \in Tickets :
    /\ t \in Active => \A d \in dep[t] : ticket[d] = "done"
    /\ turns[t] > 0 => dep[t] \subseteq board[t]

\* No ticket is worked on twice, though the loop decides from a copy of the ledger
\* ("el modelo no reintenta automáticamente").
OneAttempt == \A t \in Tickets : turns[t] <= 1

\* Never more than maxConcurrentSubAgents sub-agents work, not even those a killed
\* chunk left behind.
ConcurrencyBound == Cardinality(Active) <= MaxConcurrent

\* Whoever sees a ticket done finds its result: the comment is there first.
DoneHasResult == \A t \in Tickets : ticket[t] = "done" => "result" \in comments[t]

\* The ledger while a run works on it: each ticket is tried once, never more than the allowed
\* sub-agents at a time, and a ticket that is done has its result.
LedgerInv == TypeOK /\ OneAttempt /\ ConcurrencyBound /\ DoneHasResult

\* A run that was closed by reconciliation has nobody working on it, and its final
\* status is the truth about its tickets for good.
FinalStatusSound ==
  status \in {"done", "failed", "blocked"} =>
    /\ Active = {}
    /\ status = "done" => \A t \in Tickets : ticket[t] \in {"none", "done"}
    /\ status = "failed" => /\ \E t \in Tickets : ticket[t] = "failed"
                            /\ \A t \in Tickets : ticket[t] \in {"none", "done", "failed"}

\* A run that the kill switch stopped between its rounds or inside a sub-agent, and that was
\* closed, says so: it is never closed as done, failed or blocked.
StopIsTold == pc = "end" /\ cut = "yes" => status = "killed"

\* A run that is closed over a material conflict between tickets has put an approval before
\* the owner, and each of those tickets says that there is a conflict.
ConflictReachesOwner ==
  pc = "end" /\ conflict.risk = "material" /\ conflict.ids # {} =>
    /\ status # "done"
    /\ \E t \in conflict.ids : approvals[t] # "none"
    /\ \A t \in conflict.ids : "conflict" \in comments[t]

\* How a run is closed is the truth about it, for good: its status fits its tickets, a stop by
\* the kill switch is told, and a material conflict is before the owner.
ClosingInv == FinalStatusSound /\ StopIsTold /\ ConflictReachesOwner

\* A run comes to an end, whatever the dependencies, and whoever fails or is killed.
RunEnds == (pc = "decompose") ~> (pc \in {"end", "threw"})

=============================================================================
