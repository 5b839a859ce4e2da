------------------------- MODULE Orchestrator_proofs -------------------------
(***************************************************************************)
(* The orchestrated run, proved for every set of tickets, every dependency *)
(* graph the model may answer with and every limit of concurrency, however *)
(* calls fail, the kill switch moves and the process dies.                 *)
(***************************************************************************)
EXTENDS Orchestrator, TLAPS, FiniteSetTheorems

-----------------------------------------------------------------------------
(* The inductive invariant. *)

PCs == {"idle", "decompose", "check", "chunk", "batch", "killed", "reconcile", "apply", "note",
        "complete", "end", "threw"}
Working == {"mark", "board", "turn", "result-done", "result-blocked", "finish-done",
            "finish-blocked", "fail", "note"}
SubPCs == Working \cup {"idle", "returned", "threw"}
ConflictType == [risk : {"none", "low", "material"}, ids : SUBSET Tickets]

FullTypeOK ==
  /\ TypeOK
  /\ pc \in PCs
  /\ sub \in [Tickets -> SubPCs]
  /\ conflict \in ConflictType
  /\ kill \in {"on", "off"} /\ cut \in {"yes", "no"}

\* What the ledger holds for a ticket at each point of its sub-agent: what it is
\* marked as, whether its turn has started and whether its result is written.
TicketOK(t) ==
  /\ sub[t] = "idle" => ticket[t] \in {"none", "pending"}
  /\ sub[t] = "mark" => ticket[t] = "pending"
  /\ sub[t] \in Working \ {"mark", "note"} => ticket[t] = "in-progress"
  /\ sub[t] = "note" => ticket[t] = "failed"
  /\ sub[t] = "returned" => ticket[t] \in {"done", "blocked", "failed"}
  /\ sub[t] = "threw" => ticket[t] # "done"
  /\ sub[t] \in {"idle", "mark", "board"} => turns[t] = 0
  /\ turns[t] <= 1
  /\ sub[t] = "finish-done" \/ ticket[t] = "done" => "result" \in comments[t]

TicketsOK == \A t \in Tickets : TicketOK(t)

\* A ticket that is worked on has its dependencies done; one whose turn has started
\* was shown them.
DependenciesOK ==
  \A t \in Tickets :
    /\ sub[t] \in Working => \A d \in dep[t] : ticket[d] = "done"
    /\ turns[t] > 0 => dep[t] \subseteq board[t]

\* The phases of the run in which no sub-agent may be at work.
Calm == {"check", "chunk", "reconcile", "apply", "note", "complete"}

\* Where the run is, and who may be working meanwhile.
PhaseOK ==
  /\ pc \in {"idle", "decompose"} => \A t \in Tickets : sub[t] = "idle" /\ ticket[t] = "none"
  /\ pc \in Calm => \A t \in Tickets : sub[t] \in {"idle", "returned"}
  /\ pc = "batch" => \A t \in Tickets : sub[t] \in {"idle", "returned"}
                                          \/ (sub[t] \in Working /\ t \in batch)
  /\ pc \in Calm \cup {"idle", "decompose"} => batch = {}
  /\ Cardinality(Active) <= MaxConcurrent

\* The loop decides from a copy that is still the truth, and what is queued is ready.
QueueOK ==
  /\ pc = "check" => seen = ticket
  /\ pc \in {"chunk", "batch"} =>
       \A t \in queue : /\ sub[t] = "idle" /\ ticket[t] = "pending"
                        /\ \A d \in dep[t] : ticket[d] = "done"

\* How the run was closed.
ClosedOK ==
  /\ pc # "end" => status \in {"none", "running"}
  /\ pc \notin {"killed", "threw", "end"} => cut = "no"
  /\ status \in {"done", "failed", "blocked"} => \A t \in Tickets : sub[t] \notin Working

\* What became of a conflict on its way to the owner.
ConflictOK ==
  /\ pc \notin {"apply", "note", "complete", "end"} => conflict = NoConflict
  /\ conflict.risk = "material" /\ conflict.ids # {} /\ pc \in {"note", "complete", "end"} =>
       \E t \in conflict.ids : approvals[t] # "none"
  /\ conflict.risk = "material" /\ conflict.ids # {} /\ pc \in {"complete", "end"} =>
       \A t \in conflict.ids : "conflict" \in comments[t]

RunInv ==
  /\ FullTypeOK /\ TicketsOK /\ DependenciesOK /\ PhaseOK /\ QueueOK /\ ClosedOK /\ ConflictOK
  /\ FinalStatusSound /\ StopIsTold /\ ConflictReachesOwner

-----------------------------------------------------------------------------
(* Types. *)

\* Comment only adds comments, of one kind.
LEMMA CommentEffect ==
  ASSUME comments \in [Tickets -> SUBSET {"result", "note", "conflict", "resolution"}],
         NEW ids \in SUBSET Tickets,
         NEW kind \in {"result", "note", "conflict", "resolution"}, Comment(ids, kind)
  PROVE  /\ comments' \in [Tickets -> SUBSET {"result", "note", "conflict", "resolution"}]
         /\ \A t \in Tickets : comments[t] \subseteq comments'[t]
         /\ \A t \in ids : kind \in comments'[t]
  BY DEF Comment

\* The locals of a call that is over.
LEMMA ReturnType ==
  ASSUME Return
  PROVE  /\ seen' \in [Tickets -> TicketStatus]
         /\ queue' = {} /\ batch' = {} /\ conflict' = NoConflict /\ conflict' \in ConflictType
  BY DEF Return, TicketStatus, NoConflict, ConflictType

\* The steps of runObjective keep the types.
LEMMA RunTypeStep == ASSUME RunInv, RunStep  PROVE FullTypeOK'
<1>1. FullTypeOK
  BY DEF RunInv
<1> USE <1>1 DEF FullTypeOK, TypeOK
<1>2. CASE CreateRun
  BY <1>2 DEF CreateRun, PCs
<1>3. CASE Decompose
  <2>1. ticket' \in [Tickets -> TicketStatus] /\ dep' \in [Tickets -> SUBSET Tickets]
    BY <1>3 DEF Decompose, TicketStatus
  <2>2. QED  BY <1>3, <2>1 DEF Decompose, PCs
<1>4. CASE CheckRound
  <2>1. batch = {}
    BY <1>4 DEF CheckRound, RunInv, PhaseOK, Calm
  <2>2. queue' \subseteq Tickets /\ pc' \in PCs /\ cut' \in {"yes", "no"}
    BY <1>4 DEF CheckRound, ComputeReadyBatch, PCs
  <2>3. QED  BY <1>4, <2>1, <2>2 DEF CheckRound, ledger
<1>5. CASE StartChunk
  <2>1. PICK b \in Chunks(queue) : /\ batch' = b
                                   /\ queue' = queue \ b
                                   /\ sub' = [t \in Tickets |-> IF t \in b THEN "mark" ELSE sub[t]]
    BY <1>5 DEF StartChunk
  <2>2. b \subseteq queue
    BY DEF Chunks
  <2>3. sub' \in [Tickets -> SubPCs]
    BY <2>1 DEF SubPCs, Working
  <2>4. QED  BY <1>5, <2>1, <2>2, <2>3 DEF StartChunk, PCs, ledger
<1>6. CASE ChunkDone
  BY <1>6 DEF ChunkDone, PCs, ledger
<1>7. CASE Reload
  BY <1>7 DEF Reload, PCs, ledger
<1>8. CASE CompleteKilled
  BY <1>8 DEF CompleteKilled, PCs
<1>9. CASE Reconcile
  <2>1. conflict' \in ConflictType
    BY <1>9 DEF Reconcile, NoConflict, ConflictType
  <2>2. QED  BY <1>9, <2>1 DEF Reconcile, PCs, ledger
<1>10. CASE ResolveLow
  <2>1. conflict.ids \in SUBSET Tickets
    BY DEF ConflictType
  <2>2. QED  BY <1>10, <2>1, CommentEffect DEF ResolveLow, PCs
<1>11. CASE Escalate
  <2>1. conflict.ids \in SUBSET Tickets
    BY DEF ConflictType
  <2>2. approvals' \in [Tickets -> {"none", "pending", "resolved", "rejected"}] /\ pc' \in PCs
    BY <1>11, <2>1 DEF Escalate, PCs
  <2>3. QED  BY <1>11, <2>2 DEF Escalate
<1>12. CASE NoteConflict
  <2>1. conflict.ids \in SUBSET Tickets
    BY DEF ConflictType
  <2>2. QED  BY <1>12, <2>1, CommentEffect DEF NoteConflict, PCs
<1>13. CASE CompleteRun
  <2>1. status' \in {"none", "running", "killed", "blocked", "failed", "done"}
    BY <1>13 DEF CompleteRun, ComputeRunStatus
  <2>2. QED  BY <1>13, <2>1 DEF CompleteRun, PCs
<1>14. CASE RunThrows
  <2>1. PICK ids \in SUBSET conflict.ids :
          CASE pc = "apply" /\ conflict.risk = "low" -> Comment(ids, "resolution")
            [] pc = "note" -> Comment(ids, "conflict")
            [] OTHER -> UNCHANGED comments
    BY <1>14 DEF RunThrows
  <2>2. ids \in SUBSET Tickets
    BY DEF ConflictType
  <2>3. comments' \in [Tickets -> SUBSET {"result", "note", "conflict", "resolution"}]
    BY <2>1, <2>2, CommentEffect
  <2>4. QED  BY <1>14, <2>3, ReturnType DEF RunThrows, PCs
<1>15. CASE RunMeetsKill
  BY <1>15, ReturnType DEF RunMeetsKill, PCs, ledger
<1>16. QED
  BY <1>2, <1>3, <1>4, <1>5, <1>6, <1>7, <1>8, <1>9, <1>10, <1>11, <1>12, <1>13, <1>14, <1>15
     DEF RunStep

-----------------------------------------------------------------------------
(* What a step of one sub-agent does. *)

\* A sub-agent that is working moves on: it touches its own ticket only, which stays
\* in order, and leaves the run alone unless its call rejects in the chunk that waits.
SubEffect(t) ==
  /\ \A u \in Tickets : u # t => /\ sub'[u] = sub[u] /\ ticket'[u] = ticket[u]
                                 /\ turns'[u] = turns[u] /\ board'[u] = board[u]
  /\ \A u \in Tickets : comments[u] \subseteq comments'[u]
  /\ sub[t] \in Working /\ sub'[t] \in Working \cup {"returned", "threw"}
  /\ TicketOK(t)'
  /\ \/ turns'[t] = turns[t] /\ board'[t] = board[t]
     \/ sub[t] = "board" /\ board'[t] = {d \in Tickets \ {t} : ticket[d] = "done"}
  /\ UNCHANGED <<status, dep, approvals, seen, queue, batch, conflict, kill>>
  /\ \/ pc' = pc /\ cut' = cut /\ (pc = "batch" /\ t \in batch => sub'[t] # "threw")
     \/ pc = "batch" /\ pc' = "killed" /\ cut' = "yes"
     \/ pc = "batch" /\ pc' = "threw" /\ cut' = cut

\* Every step of a sub-agent has that effect, and keeps the types.
LEMMA SubStepEffect ==
  ASSUME RunInv, NEW t \in Tickets, SubStep(t)
  PROVE  FullTypeOK' /\ SubEffect(t)
<1>1. FullTypeOK /\ TicketOK(t)
  BY DEF RunInv, TicketsOK
<1> USE <1>1 DEF FullTypeOK, TypeOK
<1>2. CASE MarkInProgress(t)
  <2>1. ticket' = [ticket EXCEPT ![t] = "in-progress"] /\ sub' = [sub EXCEPT ![t] = "board"]
    BY <1>2 DEF MarkInProgress, SetStatus, Goto
  <2>2. ticket' \in [Tickets -> TicketStatus] /\ sub' \in [Tickets -> SubPCs]
    BY <2>1 DEF TicketStatus, SubPCs, Working
  <2>3. QED
    BY <1>2, <2>1, <2>2 DEF MarkInProgress, loop, SubEffect, TicketOK, Working
<1>3. CASE ReadBoard(t)
  <2>1. /\ board' = [board EXCEPT ![t] = {d \in Tickets \ {t} : ticket[d] = "done"}]
        /\ turns' = [turns EXCEPT ![t] = @ + 1] /\ sub' = [sub EXCEPT ![t] = "turn"]
    BY <1>3 DEF ReadBoard, Goto
  <2>2. /\ board' \in [Tickets -> SUBSET Tickets] /\ turns' \in [Tickets -> Nat]
        /\ sub' \in [Tickets -> SubPCs]
    BY <2>1 DEF SubPCs, Working
  <2>3. QED
    BY <1>3, <2>1, <2>2 DEF ReadBoard, ledger, loop, SubEffect, TicketOK, Working
<1>4. CASE TurnEnds(t)
  <2>1. PICK l \in {"result-done", "result-blocked"} : sub' = [sub EXCEPT ![t] = l]
    BY <1>4 DEF TurnEnds, Goto
  <2>2. sub' \in [Tickets -> SubPCs]
    BY <2>1 DEF SubPCs, Working
  <2>3. QED
    BY <1>4, <2>1, <2>2 DEF TurnEnds, ledger, loop, SubEffect, TicketOK, Working
<1>5. CASE RecordResult(t)
  <2>1. sub' = [sub EXCEPT ![t] = IF sub[t] = "result-done" THEN "finish-done" ELSE "finish-blocked"]
    BY <1>5 DEF RecordResult, Goto
  <2>2. sub' \in [Tickets -> SubPCs]
    BY <2>1 DEF SubPCs, Working
  <2>3. /\ comments' \in [Tickets -> SUBSET {"result", "note", "conflict", "resolution"}]
        /\ \A u \in Tickets : comments[u] \subseteq comments'[u]
        /\ "result" \in comments'[t]
    BY <1>5, CommentEffect DEF RecordResult
  <2>4. QED
    BY <1>5, <2>1, <2>2, <2>3 DEF RecordResult, loop, SubEffect, TicketOK, Working
<1>6. CASE FinishTicket(t)
  <2>1. /\ ticket' = [ticket EXCEPT ![t] = IF sub[t] = "finish-done" THEN "done" ELSE "blocked"]
        /\ sub' = [sub EXCEPT ![t] = "returned"]
    BY <1>6 DEF FinishTicket, SetStatus, Goto
  <2>2. ticket' \in [Tickets -> TicketStatus] /\ sub' \in [Tickets -> SubPCs]
    BY <2>1 DEF TicketStatus, SubPCs, Working
  <2>3. QED
    BY <1>6, <2>1, <2>2 DEF FinishTicket, loop, SubEffect, TicketOK, Working
<1>7. CASE SubCatches(t)
  <2>1. sub' = [sub EXCEPT ![t] = "fail"]
    BY <1>7 DEF SubCatches, Goto
  <2>2. sub' \in [Tickets -> SubPCs]
    BY <2>1 DEF SubPCs, Working
  <2>3. QED
    BY <1>7, <2>1, <2>2 DEF SubCatches, ledger, loop, SubEffect, TicketOK, Working
<1>8. CASE FailTicket(t)
  <2>1. ticket' = [ticket EXCEPT ![t] = "failed"] /\ sub' = [sub EXCEPT ![t] = "note"]
    BY <1>8 DEF FailTicket, SetStatus, Goto
  <2>2. ticket' \in [Tickets -> TicketStatus] /\ sub' \in [Tickets -> SubPCs]
    BY <2>1 DEF TicketStatus, SubPCs, Working
  <2>3. QED
    BY <1>8, <2>1, <2>2 DEF FailTicket, loop, SubEffect, TicketOK, Working
<1>9. CASE NoteFailure(t)
  <2>1. sub' = [sub EXCEPT ![t] = "returned"]
    BY <1>9 DEF NoteFailure, Goto
  <2>2. sub' \in [Tickets -> SubPCs]
    BY <2>1 DEF SubPCs, Working
  <2>3. /\ comments' \in [Tickets -> SUBSET {"result", "note", "conflict", "resolution"}]
        /\ \A u \in Tickets : comments[u] \subseteq comments'[u]
    BY <1>9, CommentEffect DEF NoteFailure
  <2>4. QED
    BY <1>9, <2>1, <2>2, <2>3 DEF NoteFailure, loop, SubEffect, TicketOK, Working
<1>10. CASE SubMeetsKill(t)
  <2>1. sub' = [sub EXCEPT ![t] = "threw"]
    BY <1>10 DEF SubMeetsKill, Rejects, Goto
  <2>2. sub' \in [Tickets -> SubPCs]
    BY <2>1 DEF SubPCs, Working
  <2>3. pc' \in PCs
    BY <1>10 DEF SubMeetsKill, Rejects, PCs
  <2>4. QED
    BY <1>10, <2>1, <2>2, <2>3 DEF SubMeetsKill, Rejects, ledger, SubEffect, TicketOK, Working
<1>11. CASE SubThrows(t)
  <2>1. sub' = [sub EXCEPT ![t] = "threw"]
    BY <1>11 DEF SubThrows, Rejects, Goto
  <2>2. sub' \in [Tickets -> SubPCs]
    BY <2>1 DEF SubPCs, Working
  <2>3. pc' \in PCs
    BY <1>11 DEF SubThrows, Rejects, PCs
  <2>4. QED
    BY <1>11, <2>1, <2>2, <2>3 DEF SubThrows, Rejects, ledger, SubEffect, TicketOK, Working
<1>12. QED
  BY <1>2, <1>3, <1>4, <1>5, <1>6, <1>7, <1>8, <1>9, <1>10, <1>11 DEF SubStep

\* Active is the set of tickets with a sub-agent at work.
LEMMA ActiveIsWorking ==
  ASSUME FullTypeOK
  PROVE  Active = {t \in Tickets : sub[t] \in Working}
  BY DEF FullTypeOK, Active, SubPCs, Working

\* Fewer sub-agents are within the limit, too.
LEMMA ActiveShrinks ==
  ASSUME Cardinality(Active) <= MaxConcurrent, Active' \subseteq Active
  PROVE  Cardinality(Active') <= MaxConcurrent
<1>1. IsFiniteSet(Active)
  <2>1. Active \in SUBSET Tickets
    BY DEF Active
  <2>2. QED  BY <2>1, TicketsAssumption, FS_Subset
<1>2. Cardinality(Active') <= Cardinality(Active) /\ IsFiniteSet(Active')
  BY <1>1, FS_Subset
<1>3. Cardinality(Active') \in Nat /\ Cardinality(Active) \in Nat /\ MaxConcurrent \in Nat
  BY <1>1, <1>2, FS_CardinalityType, ConcurrencyAssumption
<1>4. QED  BY <1>2, <1>3

\* A ticket that is done stays done, and its sub-agent has returned.
LEMMA DoneHasReturned ==
  ASSUME RunInv, NEW t \in Tickets, ticket[t] = "done"
  PROVE  sub[t] = "returned"
<1>1. TicketOK(t) /\ sub[t] \in SubPCs
  BY DEF RunInv, TicketsOK, FullTypeOK
<1>2. QED  BY <1>1 DEF TicketOK, SubPCs, Working

\* Whatever a sub-agent does keeps the invariant.
LEMMA SubInvStep ==
  ASSUME RunInv, NEW t \in Tickets, SubStep(t)
  PROVE  RunInv'
<1>1. FullTypeOK' /\ SubEffect(t) /\ FullTypeOK
  BY SubStepEffect DEF RunInv
<1>2. TicketsOK'
  <2> SUFFICES ASSUME NEW u \in Tickets  PROVE TicketOK(u)'
    BY DEF TicketsOK
  <2>1. CASE u = t
    BY <1>1, <2>1 DEF SubEffect
  <2>2. CASE u # t
    <3>1. TicketOK(u)
      BY DEF RunInv, TicketsOK
    <3>2. /\ sub'[u] = sub[u] /\ ticket'[u] = ticket[u] /\ turns'[u] = turns[u]
          /\ comments[u] \subseteq comments'[u]
      BY <1>1, <2>2 DEF SubEffect
    <3>3. QED  BY <3>1, <3>2 DEF TicketOK
  <2>3. QED  BY <2>1, <2>2
<1>3. \A d \in Tickets : ticket[d] = "done" => ticket'[d] = "done"
  <2> SUFFICES ASSUME NEW d \in Tickets, ticket[d] = "done"  PROVE ticket'[d] = "done"
    OBVIOUS
  <2>1. sub[d] = "returned"
    BY DoneHasReturned
  <2>2. d # t
    BY <1>1, <2>1 DEF SubEffect, Working
  <2>3. QED  BY <1>1, <2>2 DEF SubEffect
<1>4. DependenciesOK'
  <2> SUFFICES ASSUME NEW u \in Tickets
               PROVE  /\ sub'[u] \in Working => \A d \in dep[u] : ticket'[d] = "done"
                      /\ turns'[u] > 0 => dep[u] \subseteq board'[u]
    BY <1>1 DEF DependenciesOK, SubEffect
  <2>1. dep[u] \subseteq Tickets
    BY <1>1 DEF FullTypeOK, TypeOK
  <2>2. /\ sub[u] \in Working => \A d \in dep[u] : ticket[d] = "done"
        /\ turns[u] > 0 => dep[u] \subseteq board[u]
    BY DEF RunInv, DependenciesOK
  <2>3. sub'[u] \in Working => sub[u] \in Working
    BY <1>1 DEF SubEffect
  <2>4. turns'[u] > 0 => dep[u] \subseteq board'[u]
    <3>1. CASE turns'[u] = turns[u] /\ board'[u] = board[u]
      BY <2>2, <3>1
    <3>2. CASE /\ u = t /\ sub[t] = "board"
               /\ board'[t] = {d \in Tickets \ {t} : ticket[d] = "done"}
      <4>1. \A d \in dep[t] : ticket[d] = "done"
        BY <2>2, <3>2 DEF Working
      <4>2. t \notin dep[t]
        BY <3>2, <4>1, DoneHasReturned
      <4>3. QED  BY <2>1, <3>2, <4>1, <4>2
    <3>3. QED  BY <1>1, <3>1, <3>2 DEF SubEffect
  <2>5. QED  BY <1>3, <2>1, <2>2, <2>3, <2>4
<1>5. PhaseOK'
  <2>1. pc \notin Calm \cup {"idle", "decompose"}
    BY <1>1 DEF SubEffect, RunInv, PhaseOK, Working
  <2>2. pc' \notin Calm \cup {"idle", "decompose"}
    BY <1>1, <2>1 DEF SubEffect, Calm
  <2>3. Cardinality(Active') <= MaxConcurrent
    <3>1. Active' \subseteq Active
      BY <1>1 DEF SubEffect, Active, Working
    <3>2. QED  BY <3>1, ActiveShrinks DEF RunInv, PhaseOK
  <2>4. pc' = "batch" => \A u \in Tickets : \/ sub'[u] \in {"idle", "returned"}
                                            \/ (sub'[u] \in Working /\ u \in batch')
    <3> SUFFICES ASSUME pc' = "batch", NEW u \in Tickets
                 PROVE  \/ sub'[u] \in {"idle", "returned"}
                        \/ (sub'[u] \in Working /\ u \in batch')
      OBVIOUS
    <3>1. pc = "batch" /\ batch' = batch
      BY <1>1 DEF SubEffect
    <3>2. sub[u] \in {"idle", "returned"} \/ (sub[u] \in Working /\ u \in batch)
      BY <3>1 DEF RunInv, PhaseOK
    <3>3. CASE u = t
      <4>1. t \in batch
        BY <1>1, <3>2, <3>3 DEF SubEffect, Working
      <4>2. sub'[t] # "threw"
        BY <1>1, <3>1, <4>1 DEF SubEffect
      <4>3. QED  BY <1>1, <3>1, <3>3, <4>1, <4>2 DEF SubEffect
    <3>4. CASE u # t
      BY <1>1, <3>1, <3>2, <3>4 DEF SubEffect
    <3>5. QED  BY <3>3, <3>4
  <2>5. QED  BY <2>2, <2>3, <2>4 DEF PhaseOK
<1>6. QueueOK'
  <2>1. pc' # "check"
    BY <1>1 DEF SubEffect, RunInv, PhaseOK, Calm, Working
  <2> SUFFICES ASSUME pc' \in {"chunk", "batch"}, NEW u \in queue
               PROVE  /\ sub'[u] = "idle" /\ ticket'[u] = "pending"
                      /\ \A d \in dep[u] : ticket'[d] = "done"
    BY <1>1, <2>1 DEF QueueOK, SubEffect
  <2>2. pc \in {"chunk", "batch"} /\ u \in Tickets /\ dep[u] \subseteq Tickets
    BY <1>1 DEF SubEffect, FullTypeOK, TypeOK
  <2>3. sub[u] = "idle" /\ ticket[u] = "pending" /\ \A d \in dep[u] : ticket[d] = "done"
    BY <2>2 DEF RunInv, QueueOK
  <2>4. u # t
    BY <1>1, <2>3 DEF SubEffect, Working
  <2>5. QED  BY <1>1, <1>3, <2>2, <2>3, <2>4 DEF SubEffect
<1>7. ClosedOK' /\ StopIsTold'
  <2>1. status \notin {"done", "failed", "blocked"}
    BY <1>1 DEF SubEffect, RunInv, ClosedOK
  <2>2. QED  BY <1>1, <2>1 DEF SubEffect, RunInv, ClosedOK, StopIsTold
<1>8. FinalStatusSound'
  BY <1>1 DEF SubEffect, RunInv, ClosedOK, FinalStatusSound
<1>9. ConflictOK' /\ ConflictReachesOwner'
  <2>1. conflict.ids \subseteq Tickets
    BY <1>1 DEF FullTypeOK, ConflictType
  <2>2. QED
    BY <1>1, <2>1 DEF SubEffect, RunInv, ConflictOK, ConflictReachesOwner
<1>10. QED  BY <1>1, <1>2, <1>4, <1>5, <1>6, <1>7, <1>8, <1>9 DEF RunInv

-----------------------------------------------------------------------------
(* The steps of the run. *)

\* A step that leaves the tickets and their sub-agents alone, and takes no comment
\* away, keeps what is said about them.
LEMMA TicketsKept ==
  ASSUME RunInv, UNCHANGED <<ticket, dep, sub, board, turns>>,
         \A t \in Tickets : comments[t] \subseteq comments'[t]
  PROVE  /\ TicketsOK' /\ DependenciesOK' /\ Active' = Active
         /\ Cardinality(Active') <= MaxConcurrent
<1>1. TicketsOK'
  <2> SUFFICES ASSUME NEW t \in Tickets  PROVE TicketOK(t)'
    BY DEF TicketsOK
  <2>1. TicketOK(t)
    BY DEF RunInv, TicketsOK
  <2>2. QED  BY <2>1 DEF TicketOK
<1>2. DependenciesOK'
  BY DEF RunInv, DependenciesOK
<1>3. Active' = Active
  BY DEF Active
<1>4. QED  BY <1>1, <1>2, <1>3 DEF RunInv, PhaseOK

\* Steps of the run before its tickets exist, between its chunks and at its end.
LEMMA LoopInvStep ==
  ASSUME RunInv, CreateRun \/ CheckRound \/ ChunkDone \/ Reload \/ CompleteKilled
  PROVE  RunInv'
<1>1. FullTypeOK /\ FullTypeOK'
  BY RunTypeStep DEF RunInv, RunStep
<1>2. UNCHANGED <<ticket, dep, comments, approvals, conflict, sub, board, turns>>
  BY DEF CreateRun, CheckRound, ChunkDone, Reload, CompleteKilled, ledger
<1>3. /\ TicketsOK' /\ DependenciesOK' /\ Active' = Active
      /\ Cardinality(Active') <= MaxConcurrent
  BY <1>2, TicketsKept
<1>4. CASE CreateRun
  <2>1. PhaseOK' /\ QueueOK'
    BY <1>2, <1>3, <1>4 DEF RunInv, PhaseOK, QueueOK, CreateRun, Calm
  <2>2. ClosedOK' /\ FinalStatusSound' /\ StopIsTold' /\ ConflictOK' /\ ConflictReachesOwner'
    BY <1>2, <1>4 DEF RunInv, ClosedOK, FinalStatusSound, StopIsTold, ConflictOK,
                      ConflictReachesOwner, CreateRun
  <2>3. QED  BY <1>1, <1>3, <2>1, <2>2 DEF RunInv
<1>5. CASE CheckRound
  <2>1. PhaseOK'
    BY <1>2, <1>3, <1>5 DEF RunInv, PhaseOK, CheckRound, Calm
  <2>2. QueueOK'
    <3>1. seen = ticket /\ \A t \in Tickets : sub[t] \in {"idle", "returned"} /\ TicketOK(t)
      BY <1>5 DEF RunInv, QueueOK, PhaseOK, TicketsOK, CheckRound, Calm
    <3>2. pc' \in {"chunk", "batch"} => queue' = ComputeReadyBatch(ticket)
      BY <1>5, <3>1 DEF CheckRound
    <3>3. \A t \in ComputeReadyBatch(ticket) : /\ sub[t] = "idle" /\ ticket[t] = "pending"
                                               /\ \A d \in dep[t] : ticket[d] = "done"
      BY <3>1 DEF ComputeReadyBatch, TicketOK
    <3>4. pc' # "check"
      BY <1>5 DEF CheckRound
    <3>5. QED  BY <1>2, <3>2, <3>3, <3>4 DEF QueueOK
  <2>3. ClosedOK' /\ FinalStatusSound' /\ StopIsTold'
    BY <1>2, <1>3, <1>5 DEF RunInv, ClosedOK, FinalStatusSound, StopIsTold, CheckRound, ledger
  <2>4. ConflictOK' /\ ConflictReachesOwner'
    BY <1>2, <1>5 DEF RunInv, ConflictOK, ConflictReachesOwner, CheckRound, NoConflict
  <2>5. QED  BY <1>1, <1>3, <2>1, <2>2, <2>3, <2>4 DEF RunInv
<1>6. CASE ChunkDone
  <2>1. PhaseOK'
    <3>1. \A t \in Tickets : sub[t] \in {"idle", "returned"}
      BY <1>6 DEF RunInv, PhaseOK, ChunkDone, Working
    <3>2. QED  BY <1>2, <1>3, <1>6, <3>1 DEF RunInv, PhaseOK, ChunkDone, Calm
  <2>2. QueueOK'
    BY <1>2, <1>6 DEF RunInv, QueueOK, ChunkDone
  <2>3. ClosedOK' /\ FinalStatusSound' /\ StopIsTold'
    BY <1>2, <1>3, <1>6 DEF RunInv, ClosedOK, FinalStatusSound, StopIsTold, ChunkDone, ledger
  <2>4. ConflictOK' /\ ConflictReachesOwner'
    BY <1>2, <1>6 DEF RunInv, ConflictOK, ConflictReachesOwner, ChunkDone
  <2>5. QED  BY <1>1, <1>3, <2>1, <2>2, <2>3, <2>4 DEF RunInv
<1>7. CASE Reload
  <2>1. PhaseOK' /\ QueueOK'
    BY <1>2, <1>3, <1>7 DEF RunInv, PhaseOK, QueueOK, Reload, Calm
  <2>2. ClosedOK' /\ FinalStatusSound' /\ StopIsTold'
    BY <1>2, <1>3, <1>7 DEF RunInv, ClosedOK, FinalStatusSound, StopIsTold, Reload, ledger
  <2>3. ConflictOK' /\ ConflictReachesOwner'
    BY <1>2, <1>7 DEF RunInv, ConflictOK, ConflictReachesOwner, Reload
  <2>4. QED  BY <1>1, <1>3, <2>1, <2>2, <2>3 DEF RunInv
<1>8. CASE CompleteKilled
  <2>1. PhaseOK' /\ QueueOK'
    BY <1>2, <1>3, <1>8 DEF RunInv, PhaseOK, QueueOK, CompleteKilled, Calm
  <2>2. ClosedOK' /\ FinalStatusSound' /\ StopIsTold'
    BY <1>2, <1>3, <1>8 DEF RunInv, ClosedOK, FinalStatusSound, StopIsTold, CompleteKilled
  <2>3. ConflictOK' /\ ConflictReachesOwner'
    BY <1>2, <1>8 DEF RunInv, ConflictOK, ConflictReachesOwner, CompleteKilled, NoConflict
  <2>4. QED  BY <1>1, <1>3, <2>1, <2>2, <2>3 DEF RunInv
<1>9. QED  BY <1>4, <1>5, <1>6, <1>7, <1>8

\* The decomposition and the start of a chunk, which give sub-agents their tickets.
LEMMA StartInvStep == ASSUME RunInv, Decompose \/ StartChunk  PROVE RunInv'
<1>1. FullTypeOK /\ FullTypeOK'
  BY RunTypeStep DEF RunInv, RunStep
<1>2. CASE Decompose
  <2>1. \A t \in Tickets : sub[t] = "idle" /\ turns[t] = 0
    BY <1>2 DEF RunInv, PhaseOK, TicketsOK, TicketOK, Decompose
  <2>2. \A t \in Tickets : ticket'[t] \in {"none", "pending"}
    BY <1>2 DEF Decompose
  <2>3. TicketsOK'
    BY <1>2, <2>1, <2>2 DEF TicketsOK, TicketOK, Decompose, Working
  <2>4. DependenciesOK'
    BY <1>2, <2>1 DEF DependenciesOK, Decompose, Working
  <2>5. PhaseOK'
    <3>1. Active' = Active
      BY <1>2 DEF Active, Decompose
    <3>2. QED  BY <1>2, <2>1, <3>1 DEF RunInv, PhaseOK, Decompose, Calm
  <2>6. QueueOK'
    BY <1>2 DEF QueueOK, Decompose
  <2>7. ClosedOK' /\ FinalStatusSound' /\ StopIsTold' /\ ConflictOK' /\ ConflictReachesOwner'
    BY <1>2 DEF RunInv, ClosedOK, FinalStatusSound, StopIsTold, ConflictOK,
                ConflictReachesOwner, Decompose
  <2>8. QED  BY <1>1, <2>3, <2>4, <2>5, <2>6, <2>7 DEF RunInv
<1>3. CASE StartChunk
  <2>1. PICK b \in Chunks(queue) : /\ batch' = b
                                   /\ queue' = queue \ b
                                   /\ sub' = [t \in Tickets |-> IF t \in b THEN "mark" ELSE sub[t]]
    BY <1>3 DEF StartChunk
  <2>2. b \subseteq queue /\ Cardinality(b) <= MaxConcurrent /\ queue \subseteq Tickets
    BY <1>1 DEF Chunks, FullTypeOK, TypeOK
  <2>3. \A t \in queue : /\ sub[t] = "idle" /\ ticket[t] = "pending"
                         /\ \A d \in dep[t] : ticket[d] = "done"
    BY <1>3 DEF RunInv, QueueOK, StartChunk
  <2>4. UNCHANGED <<ledger, seen, conflict, board, kill, turns, cut>> /\ pc' = "batch"
        /\ pc = "chunk"
    BY <1>3 DEF StartChunk
  <2>5. \A t \in Tickets : sub'[t] = IF t \in b THEN "mark" ELSE sub[t]
    BY <2>1
  <2>6. TicketsOK'
    <3> SUFFICES ASSUME NEW t \in Tickets  PROVE TicketOK(t)'
      BY DEF TicketsOK
    <3>1. TicketOK(t) /\ UNCHANGED <<ticket, comments, turns>>
      BY <2>4 DEF RunInv, TicketsOK, ledger
    <3>2. CASE t \in b
      BY <2>2, <2>3, <2>5, <3>1, <3>2 DEF TicketOK, Working
    <3>3. CASE t \notin b
      BY <2>5, <3>1, <3>3 DEF TicketOK
    <3>4. QED  BY <3>2, <3>3
  <2>7. DependenciesOK'
    BY <2>2, <2>3, <2>4, <2>5 DEF RunInv, DependenciesOK, ledger
  <2>8. PhaseOK'
    <3>1. \A t \in Tickets : sub[t] \in {"idle", "returned"}
      BY <2>4 DEF RunInv, PhaseOK, Calm
    <3>2. Active' = b
      BY <2>2, <2>5, <3>1 DEF Active
    <3>3. QED  BY <2>1, <2>2, <2>4, <2>5, <3>1, <3>2 DEF PhaseOK, Calm, Working
  <2>9. QueueOK'
    BY <2>1, <2>2, <2>3, <2>4, <2>5 DEF QueueOK, ledger
  <2>10. ClosedOK' /\ FinalStatusSound' /\ StopIsTold' /\ ConflictOK' /\ ConflictReachesOwner'
    BY <2>4 DEF RunInv, ClosedOK, FinalStatusSound, StopIsTold, ConflictOK,
                ConflictReachesOwner, ledger
  <2>11. QED  BY <1>1, <2>6, <2>7, <2>8, <2>9, <2>10 DEF RunInv
<1>4. QED  BY <1>2, <1>3

\* The reconciliation and the way of a conflict to the owner.
LEMMA ConflictInvStep ==
  ASSUME RunInv, Reconcile \/ ResolveLow \/ Escalate \/ NoteConflict
  PROVE  RunInv'
<1>1. FullTypeOK /\ FullTypeOK' /\ conflict.ids \in SUBSET Tickets
  BY RunTypeStep DEF RunInv, RunStep, FullTypeOK, ConflictType
<1>2. UNCHANGED <<status, ticket, dep, seen, queue, batch, sub, board, kill, turns, cut>>
  BY DEF Reconcile, ResolveLow, Escalate, NoteConflict, ledger
<1>3. \A t \in Tickets : comments[t] \subseteq comments'[t]
  <2>1. CASE ResolveLow
    BY <1>1, <2>1, CommentEffect DEF ResolveLow, FullTypeOK, TypeOK
  <2>2. CASE NoteConflict
    BY <1>1, <2>2, CommentEffect DEF NoteConflict, FullTypeOK, TypeOK
  <2>3. CASE UNCHANGED comments
    BY <2>3
  <2>4. QED  BY <2>1, <2>2, <2>3 DEF Reconcile, Escalate, ledger
<1>4. /\ TicketsOK' /\ DependenciesOK' /\ Active' = Active
      /\ Cardinality(Active') <= MaxConcurrent
  BY <1>2, <1>3, TicketsKept
<1>5. pc \in Calm /\ pc' \in Calm /\ pc' \notin {"check", "chunk"}
  BY DEF Reconcile, ResolveLow, Escalate, NoteConflict, Calm
<1>6. PhaseOK' /\ QueueOK'
  BY <1>2, <1>4, <1>5 DEF RunInv, PhaseOK, QueueOK, Calm
<1>7. ClosedOK' /\ FinalStatusSound' /\ StopIsTold' /\ ConflictReachesOwner'
  BY <1>2, <1>4, <1>5 DEF RunInv, ClosedOK, FinalStatusSound, StopIsTold,
     ConflictReachesOwner, Calm
<1>8. ConflictOK'
  <2>1. CASE Reconcile
    BY <2>1 DEF Reconcile, ConflictOK
  <2>2. CASE ResolveLow
    BY <2>2 DEF ResolveLow, ConflictOK
  <2>3. CASE Escalate
    <3>1. CASE conflict.ids = {}
      BY <2>3, <3>1 DEF Escalate, ConflictOK
    <3>2. CASE conflict.ids # {}
      <4>1. PICK t \in conflict.ids : approvals' = [approvals EXCEPT ![t] = "pending"]
        BY <2>3, <3>2 DEF Escalate
      <4>2. approvals'[t] = "pending" /\ conflict' = conflict /\ pc' = "note"
        BY <1>1, <2>3, <3>2, <4>1 DEF Escalate, FullTypeOK, TypeOK
      <4>3. QED  BY <4>2 DEF ConflictOK
    <3>3. QED  BY <3>1, <3>2
  <2>4. CASE NoteConflict
    <3>1. \A t \in conflict.ids : "conflict" \in comments'[t]
      BY <1>1, <2>4, CommentEffect DEF NoteConflict, FullTypeOK, TypeOK
    <3>2. QED  BY <2>4, <3>1 DEF NoteConflict, RunInv, ConflictOK
  <2>5. QED  BY <2>1, <2>2, <2>3, <2>4
<1>9. QED  BY <1>1, <1>4, <1>6, <1>7, <1>8 DEF RunInv

\* completeRun: nobody is at work, and the status is computed from the tickets.
LEMMA CompleteInvStep == ASSUME RunInv, CompleteRun  PROVE RunInv'
<1>1. FullTypeOK /\ FullTypeOK'
  BY RunTypeStep DEF RunInv, RunStep
<1>2. UNCHANGED <<ticket, dep, comments, approvals, conflict, sub, board, kill, turns, cut>>
      /\ pc = "complete" /\ pc' = "end" /\ status' = ComputeRunStatus(ticket, conflict.risk)
  BY DEF CompleteRun
<1>3. /\ TicketsOK' /\ DependenciesOK' /\ Active' = Active
      /\ Cardinality(Active') <= MaxConcurrent
  BY <1>2, TicketsKept
<1>4. \A t \in Tickets : sub[t] \in {"idle", "returned"}
  BY <1>2 DEF RunInv, PhaseOK, Calm
<1>5. PhaseOK' /\ QueueOK'
  BY <1>2, <1>3 DEF RunInv, PhaseOK, QueueOK, CompleteRun, Calm
<1>6. ClosedOK' /\ StopIsTold'
  BY <1>2, <1>4 DEF RunInv, ClosedOK, StopIsTold, Working
<1>7. FinalStatusSound'
  <2>1. Active' = {}
    BY <1>2, <1>4 DEF Active
  <2>2. \A t \in Tickets : ticket[t] \in TicketStatus
    BY <1>1 DEF FullTypeOK, TypeOK
  <2>3. status' = "done" => \A t \in Tickets : ticket[t] \in {"none", "done"}
    BY <1>2, <2>2 DEF ComputeRunStatus, TicketStatus
  <2>4. status' = "failed" => /\ \E t \in Tickets : ticket[t] = "failed"
                              /\ \A t \in Tickets : ticket[t] \in {"none", "done", "failed"}
    BY <1>2, <2>2 DEF ComputeRunStatus, TicketStatus
  <2>5. QED  BY <1>2, <2>1, <2>3, <2>4 DEF FinalStatusSound
<1>8. ConflictOK' /\ ConflictReachesOwner'
  <2>1. conflict.risk = "material" => status' = "blocked"
    BY <1>2 DEF ComputeRunStatus
  <2>2. QED  BY <1>2, <2>1 DEF RunInv, ConflictOK, ConflictReachesOwner
<1>9. QED  BY <1>1, <1>3, <1>5, <1>6, <1>7, <1>8 DEF RunInv

\* The run throws or the router refuses it: it is left open, and whoever still works
\* goes on.
LEMMA ThrowInvStep == ASSUME RunInv, RunThrows \/ RunMeetsKill  PROVE RunInv'
<1>1. FullTypeOK /\ FullTypeOK' /\ conflict.ids \in SUBSET Tickets
  BY RunTypeStep DEF RunInv, RunStep, FullTypeOK, ConflictType
<1>2. /\ UNCHANGED <<status, ticket, dep, approvals, sub, board, kill, turns>>
      /\ pc \notin {"end", "threw"} /\ pc' = "threw" /\ conflict' = NoConflict
  BY ReturnType DEF RunThrows, RunMeetsKill, ledger
<1>3. \A t \in Tickets : comments[t] \subseteq comments'[t]
  <2>1. CASE RunThrows
    <3>1. PICK ids \in SUBSET conflict.ids :
            CASE pc = "apply" /\ conflict.risk = "low" -> Comment(ids, "resolution")
              [] pc = "note" -> Comment(ids, "conflict")
              [] OTHER -> UNCHANGED comments
      BY <2>1 DEF RunThrows
    <3>2. ids \in SUBSET Tickets
      BY <1>1
    <3>3. QED  BY <1>1, <3>1, <3>2, CommentEffect DEF FullTypeOK, TypeOK
  <2>2. CASE RunMeetsKill
    BY <2>2 DEF RunMeetsKill, ledger
  <2>3. QED  BY <2>1, <2>2
<1>4. /\ TicketsOK' /\ DependenciesOK' /\ Active' = Active
      /\ Cardinality(Active') <= MaxConcurrent
  BY <1>2, <1>3, TicketsKept
<1>5. PhaseOK' /\ QueueOK'
  BY <1>2, <1>4 DEF PhaseOK, QueueOK, Calm
<1>6. ClosedOK' /\ FinalStatusSound' /\ StopIsTold'
  BY <1>2, <1>4 DEF RunInv, ClosedOK, FinalStatusSound, StopIsTold
<1>7. ConflictOK' /\ ConflictReachesOwner'
  BY <1>2 DEF ConflictOK, ConflictReachesOwner, NoConflict
<1>8. QED  BY <1>1, <1>4, <1>5, <1>6, <1>7 DEF RunInv

\* The owner's answer, and the kill switch.
LEMMA OwnerInvStep ==
  ASSUME RunInv, SwitchKill \/ \E t \in Tickets : OwnerResolves(t) \/ OwnerRejects(t)
  PROVE  RunInv'
<1>1. FullTypeOK
  BY DEF RunInv
<1>2. UNCHANGED <<status, ticket, dep, loop, sub, board, turns, cut>>
  BY DEF SwitchKill, OwnerResolves, OwnerRejects, ledger
<1>3. /\ approvals' \in [Tickets -> {"none", "pending", "resolved", "rejected"}]
      /\ \A u \in Tickets : approvals[u] # "none" => approvals'[u] # "none"
  BY <1>1 DEF SwitchKill, OwnerResolves, OwnerRejects, ledger, FullTypeOK, TypeOK
<1>4. /\ comments' \in [Tickets -> SUBSET {"result", "note", "conflict", "resolution"}]
      /\ \A u \in Tickets : comments[u] \subseteq comments'[u]
  <2>1. ASSUME NEW t \in Tickets, OwnerResolves(t)
        PROVE  /\ comments' \in [Tickets -> SUBSET {"result", "note", "conflict", "resolution"}]
               /\ \A u \in Tickets : comments[u] \subseteq comments'[u]
    BY <1>1, <2>1, CommentEffect DEF OwnerResolves, FullTypeOK, TypeOK
  <2>2. CASE UNCHANGED comments
    BY <1>1, <2>2 DEF FullTypeOK, TypeOK
  <2>3. QED  BY <2>1, <2>2 DEF SwitchKill, OwnerRejects, ledger
<1>5. kill' \in {"on", "off"}
  BY <1>1 DEF SwitchKill, OwnerResolves, OwnerRejects, FullTypeOK
<1>6. FullTypeOK'
  BY <1>1, <1>2, <1>3, <1>4, <1>5 DEF FullTypeOK, TypeOK, loop
<1>7. /\ TicketsOK' /\ DependenciesOK' /\ Active' = Active
      /\ Cardinality(Active') <= MaxConcurrent
  BY <1>2, <1>4, TicketsKept
<1>8. PhaseOK' /\ QueueOK'
  BY <1>2, <1>7 DEF RunInv, PhaseOK, QueueOK, loop
<1>9. ClosedOK' /\ FinalStatusSound' /\ StopIsTold'
  BY <1>2, <1>7 DEF RunInv, ClosedOK, FinalStatusSound, StopIsTold, loop
<1>10. ConflictOK' /\ ConflictReachesOwner'
  <2>1. conflict.ids \subseteq Tickets
    BY <1>1 DEF FullTypeOK, ConflictType
  <2>2. QED  BY <1>2, <1>3, <1>4, <2>1 DEF RunInv, ConflictOK, ConflictReachesOwner, loop
<1>11. QED  BY <1>6, <1>7, <1>8, <1>9, <1>10 DEF RunInv

\* The process dies: the ledger stays as it is, and nobody works any more.
LEMMA CrashInvStep == ASSUME RunInv, Crash  PROVE RunInv'
<1>1. FullTypeOK
  BY DEF RunInv
<1>2. /\ UNCHANGED <<ledger, board, kill, turns>> /\ cut' = "no"
      /\ pc' = (IF pc = "end" THEN "end" ELSE "threw")
      /\ \A t \in Tickets : sub'[t] = IF t \in Active THEN "threw" ELSE sub[t]
  BY DEF Crash
<1>3. FullTypeOK'
  <2>1. sub' \in [Tickets -> SubPCs]
    BY <1>1 DEF Crash, FullTypeOK, SubPCs
  <2>2. QED  BY <1>1, <1>2, <2>1, ReturnType DEF Crash, FullTypeOK, TypeOK, PCs, ledger
<1>4. TicketsOK'
  <2> SUFFICES ASSUME NEW t \in Tickets  PROVE TicketOK(t)'
    BY DEF TicketsOK
  <2>1. TicketOK(t) /\ UNCHANGED <<ticket, comments, turns>> /\ sub[t] \in SubPCs
    BY <1>1, <1>2 DEF RunInv, TicketsOK, ledger, FullTypeOK
  <2>2. CASE t \in Active
    <3>1. sub[t] \in Working /\ sub'[t] = "threw"
      BY <1>1, <1>2, <2>2, ActiveIsWorking
    <3>2. QED  BY <2>1, <3>1 DEF TicketOK, Working
  <2>3. CASE t \notin Active
    BY <1>2, <2>1, <2>3 DEF TicketOK
  <2>4. QED  BY <2>2, <2>3
<1>5. \A t \in Tickets : sub'[t] \notin Working
  BY <1>1, <1>2, ActiveIsWorking DEF Working
<1>6. DependenciesOK'
  BY <1>2, <1>5 DEF RunInv, DependenciesOK, ledger
<1>7. Active' = {}
  BY <1>3, <1>5, ActiveIsWorking DEF Active, FullTypeOK, SubPCs
<1>8. PhaseOK' /\ QueueOK'
  BY <1>2, <1>7, FS_EmptySet, ConcurrencyAssumption DEF PhaseOK, QueueOK, Calm
<1>9. ClosedOK' /\ FinalStatusSound' /\ StopIsTold'
  BY <1>2, <1>5, <1>7 DEF RunInv, ClosedOK, FinalStatusSound, StopIsTold, ledger
<1>10. ConflictOK' /\ ConflictReachesOwner'
  BY ReturnType DEF Crash, ConflictOK, ConflictReachesOwner, NoConflict
<1>11. QED  BY <1>3, <1>4, <1>6, <1>8, <1>9, <1>10 DEF RunInv

\* Every step keeps the invariant.
LEMMA RunInvStep == RunInv /\ [Next]_vars => RunInv'
<1> SUFFICES ASSUME RunInv, [Next]_vars  PROVE RunInv'
  OBVIOUS
<1>1. CASE RunStep
  BY <1>1, LoopInvStep, StartInvStep, ConflictInvStep, CompleteInvStep, ThrowInvStep DEF RunStep
<1>2. CASE UNCHANGED vars
  <2>1. UNCHANGED <<status, ticket, dep, comments, approvals, loop, sub, board, turns, kill, cut>>
    BY <1>2 DEF vars, ledger
  <2>2. FullTypeOK'
    BY <2>1 DEF RunInv, FullTypeOK, TypeOK, loop
  <2>3. TicketsOK' /\ DependenciesOK' /\ Active' = Active /\ Cardinality(Active') <= MaxConcurrent
    BY <2>1, TicketsKept
  <2>4. QED
    BY <2>1, <2>2, <2>3 DEF RunInv, PhaseOK, QueueOK, ClosedOK, ConflictOK, FinalStatusSound,
       StopIsTold, ConflictReachesOwner, loop
<1>3. QED  BY <1>1, <1>2, SubInvStep, OwnerInvStep, CrashInvStep DEF Next

\* Before the run starts.
LEMMA RunInvInit == Init => RunInv
<1> SUFFICES ASSUME Init  PROVE RunInv
  OBVIOUS
<1>1. FullTypeOK
  BY DEF Init, FullTypeOK, TypeOK, TicketStatus, PCs, SubPCs, ConflictType, NoConflict
<1>2. TicketsOK /\ DependenciesOK
  BY DEF Init, TicketsOK, TicketOK, DependenciesOK, Working
<1>3. Active = {}
  BY DEF Init, Active
<1>4. PhaseOK /\ QueueOK
  BY <1>3, FS_EmptySet, ConcurrencyAssumption DEF Init, PhaseOK, QueueOK, Calm
<1>5. ClosedOK /\ ConflictOK /\ FinalStatusSound /\ StopIsTold /\ ConflictReachesOwner
  BY DEF Init, ClosedOK, ConflictOK, FinalStatusSound, StopIsTold, ConflictReachesOwner
<1>6. QED  BY <1>1, <1>2, <1>4, <1>5 DEF RunInv

-----------------------------------------------------------------------------
(* Theorems. *)

\* The inductive invariant holds in every reachable state.
THEOREM RunSafety == Spec => []RunInv
  BY RunInvInit, RunInvStep, PTL DEF Spec

\* Each ticket is tried at most once, never more than maxConcurrentSubAgents work at
\* a time, even those a killed chunk left behind, and a ticket that is done has its result.
THEOREM LedgerIsSound == Spec => []LedgerInv
<1>1. RunInv => LedgerInv
  BY DEF RunInv, FullTypeOK, LedgerInv, OneAttempt, ConcurrencyBound, DoneHasResult,
         TicketsOK, TicketOK, PhaseOK
<1>2. QED  BY <1>1, RunSafety, PTL

\* A sub-agent works only when everything its ticket depends on is done, and its turn
\* was shown those results, though the loop decides from a copy of the ledger.
THEOREM DependenciesComeFirst == Spec => []DependenciesDelivered
<1>1. RunInv => DependenciesDelivered
  BY ActiveIsWorking DEF RunInv, DependenciesOK, DependenciesDelivered
<1>2. QED  BY <1>1, RunSafety, PTL

\* However a run is closed its status is the truth: it fits the tickets for good, a stop
\* by the kill switch is told, and a material conflict is before the owner.
THEOREM ClosingIsTrue == Spec => []ClosingInv
<1>1. RunInv => ClosingInv
  BY DEF RunInv, ClosingInv
<1>2. QED  BY <1>1, RunSafety, PTL
=============================================================================
