---------------------------- MODULE LiveActivity ----------------------------
(***************************************************************************)
(* The Live Activity that follows a run of the orchestrator on the owner's *)
(* phone (PushService.onRunChanged and the content state it sends).  Each  *)
(* change of the run emits an event and does not wait: the handlers read   *)
(* the run, its tickets, their comments and the phone's tokens with an     *)
(* await between, so they overlap each other and the run.                  *)
(*                                                                         *)
(* The run is that of Orchestrator, here with the changes it announces;    *)
(* Apple and the phone are external: an activity that ended takes no more  *)
(* updates.                                                                *)
(***************************************************************************)
EXTENDS Naturals, FiniteSets

CONSTANTS
  Tickets,        \* the tickets of the run
  Handlers,       \* bound: events handled at once
  MaxRotations,   \* bound: start tokens the phone is given
  MaxPushFaults   \* bound: failed reads, refused and unanswered sends

ASSUME ActivityAssumption == Tickets # {} /\ Handlers # {} /\ MaxRotations \in Nat /\ MaxPushFaults \in Nat

VARIABLES
  stage,      \* "new", "batches", "reconciled" or "completed"
  runStatus, ticket, comment,   \* agent_runs, agent_tickets, their comments' kinds
  handler,    \* handler -> where it is and what it has read
  updateToken, \* push_activity_tokens, purpose update: none, fresh or older than a day
  startTokens, \* purpose start: the rotations registered
  rotation,   \* the phone's registrations of a start token
  phone,      \* what the first activity shows, and the event that brought it
  pushFaults,
  \* history
  event,      \* events emitted
  starts,     \* activities started by push
  crossed,    \* a handler sent after one of a later event had
  followed    \* whether the update token was there before the last event: no, late or yes

activityVars == <<stage, runStatus, ticket, comment, handler, updateToken, startTokens, rotation,
                  phone, pushFaults, event, starts, crossed, followed>>

ledger == <<stage, runStatus, ticket, comment>>
Idle == [pc |-> "idle", event |-> 0, run |-> "running", tickets |-> [t \in Tickets |-> "pending"],
         comments |-> [t \in Tickets |-> {}]]
Final == {"done", "blocked", "failed"}

-----------------------------------------------------------------------------
(* orchestrationContentState *)

HasOpenConflict(kinds) == "conflict" \in kinds /\ "resolution" \notin kinds

Segment(status, kinds) ==
  IF HasOpenConflict(kinds) THEN "conflict"
  ELSE CASE status = "done" -> "done" [] status = "in-progress" -> "running"
         [] status = "failed" -> "failed" [] OTHER -> "pending"

Segments(tickets, comments) == [t \in Tickets |-> Segment(tickets[t], comments[t])]

Phase(run, segments) ==
  CASE run \in {"running", "blocked"} ->
         IF run = "blocked" \/ \E t \in Tickets : segments[t] = "conflict" THEN "conflict" ELSE "running"
    [] run = "done" -> IF \E t \in Tickets : segments[t] = "failed" THEN "failed" ELSE "done"
    [] OTHER -> "failed"

OrchestrationContentState(run, tickets, comments) ==
  LET segments == Segments(tickets, comments) IN [phase |-> Phase(run, segments), segments |-> segments]

-----------------------------------------------------------------------------
(* The run: what it changes and announces *)

ComputeRunStatus(conflicts) ==
  CASE conflicts \/ (\E t \in Tickets : ticket[t] \notin {"done", "failed"}) -> "blocked"
    [] ~conflicts /\ (\A t \in Tickets : ticket[t] \in {"done", "failed"}) ->
         IF \E t \in Tickets : ticket[t] = "failed" THEN "failed" ELSE "done"

\* changed: an event, and a handler that starts on it.
Changed ==
  \E h \in Handlers :
    /\ handler[h].pc = "idle"
    /\ handler' = [handler EXCEPT ![h] = [Idle EXCEPT !.pc = "run", !.event = event + 1]]
    /\ event' = event + 1
    /\ followed' = IF followed = "late" THEN "yes" ELSE followed
    /\ UNCHANGED <<updateToken, startTokens, rotation, phone, pushFaults, starts, crossed>>

CreateTickets ==
  /\ stage = "new" /\ stage' = "batches" /\ Changed
  /\ UNCHANGED <<runStatus, ticket, comment>>

StartTicket(t) ==
  /\ stage = "batches" /\ ticket[t] = "pending"
  /\ ticket' = [ticket EXCEPT ![t] = "in-progress"] /\ Changed
  /\ UNCHANGED <<stage, runStatus, comment>>

EndTicket(t) ==
  /\ stage = "batches" /\ ticket[t] = "in-progress"
  /\ \E end \in Final : ticket' = [ticket EXCEPT ![t] = end]
  /\ Changed
  /\ UNCHANGED <<stage, runStatus, comment>>

\* Material conflicts: their comments, and the event of their approvals; a conflict of low
\* risk leaves a resolution, also on a ticket of a material one.
Escalate ==
  /\ stage = "batches" /\ (\A t \in Tickets : ticket[t] \in Final)
  /\ \E material \in SUBSET Tickets \ {{}}, low \in SUBSET Tickets :
       comment' = [t \in Tickets |-> (IF t \in material THEN {"conflict"} ELSE {}) \cup (IF t \in low THEN {"resolution"} ELSE {})]
  /\ stage' = "reconciled" /\ Changed
  /\ UNCHANGED <<runStatus, ticket>>

CompleteRun ==
  /\ stage \in {"batches", "reconciled"} /\ (\A t \in Tickets : ticket[t] \in Final)
  /\ runStatus' = ComputeRunStatus(stage = "reconciled")
  /\ stage' = "completed" /\ Changed
  /\ UNCHANGED <<ticket, comment>>

KillRun ==
  /\ stage = "batches"
  /\ runStatus' = "killed" /\ stage' = "completed" /\ Changed
  /\ UNCHANGED <<ticket, comment>>

\* The owner resolved a conflict: a comment, and no event.
ResolveConflict(t) ==
  /\ HasOpenConflict(comment[t]) /\ comment' = [comment EXCEPT ![t] = @ \cup {"resolution"}]
  /\ UNCHANGED <<stage, runStatus, ticket, handler, updateToken, startTokens, rotation, phone,
                 pushFaults, event, starts, crossed, followed>>

-----------------------------------------------------------------------------
(* onRunChanged *)

PushFault == pushFaults < MaxPushFaults /\ pushFaults' = pushFaults + 1
At(h, pc) == handler[h].pc = pc
Seen(h) == OrchestrationContentState(handler[h].run, handler[h].tickets, handler[h].comments)

\* Mutant: the tickets are read before the run.
ReadRunLast(h) ==
  /\ \/ At(h, "run") /\ handler' = [handler EXCEPT ![h].pc = "tickets", ![h].tickets = ticket]
     \/ At(h, "tickets") /\ handler' = [handler EXCEPT ![h].pc = "comments", ![h].run = runStatus]
  /\ UNCHANGED <<ledger, updateToken, startTokens, rotation, phone, pushFaults, event, starts, crossed, followed>>

\* orchestrationSnapshot: the run, then the tickets,
ReadSnapshot(h) ==
  /\ \/ At(h, "run") /\ handler' = [handler EXCEPT ![h].pc = "tickets", ![h].run = runStatus]
     \/ At(h, "tickets") /\ handler' = [handler EXCEPT ![h].pc = "comments", ![h].tickets = ticket]
  /\ UNCHANGED <<ledger, updateToken, startTokens, rotation, phone, pushFaults, event, starts, crossed, followed>>

\* then the comments of those tickets.
ReadComments(h) ==
  /\ At(h, "comments") /\ handler' = [handler EXCEPT ![h].pc = "tokens", ![h].comments = comment]
  /\ UNCHANGED <<ledger, updateToken, startTokens, rotation, phone, pushFaults, event, starts, crossed, followed>>

\* A run that has just begun.
NewlyCreated(h) == Seen(h).phase = "running" /\ \A t \in Tickets : Seen(h).segments[t] = "pending"

\* activityTokensFor: old tokens are deleted first; without one, the activity may be started.
ReadTokens(h) ==
  /\ At(h, "tokens")
  /\ updateToken' = IF updateToken = "old" THEN "none" ELSE updateToken
  /\ handler' = [handler EXCEPT ![h] =
       CASE updateToken' # "none" -> [@ EXCEPT !.pc = "send"]
         [] updateToken' = "none" /\ NewlyCreated(h) -> [@ EXCEPT !.pc = "start"]
         [] OTHER -> Idle]
  /\ UNCHANGED <<ledger, startTokens, rotation, phone, pushFaults, event, starts, crossed, followed>>

\* safely: a read that fails ends the handler, and nobody hears of it.
ReadFails(h) ==
  /\ handler[h].pc \in {"run", "tickets", "comments", "tokens"} /\ PushFault
  /\ handler' = [handler EXCEPT ![h] = Idle]
  /\ UNCHANGED <<ledger, updateToken, startTokens, rotation, phone, event, starts, crossed, followed>>

\* startActivity: every start token is tried; Apple takes the last one the phone was given,
\* and the others are deleted.
StartActivity(h) ==
  /\ At(h, "start") /\ handler' = [handler EXCEPT ![h] = Idle]
  /\ LET valid == startTokens \cap {rotation.given} IN
       /\ startTokens' = valid
       /\ starts' = starts + Cardinality(valid)
       /\ phone' = IF valid = {} \/ phone.shows # "nothing" THEN phone
                   ELSE [shows |-> "activity", state |-> Seen(h), of |-> handler[h].event]
  /\ UNCHANGED <<ledger, updateToken, rotation, pushFaults, event, crossed, followed>>

StartFails(h) ==
  /\ At(h, "start") /\ PushFault /\ handler' = [handler EXCEPT ![h] = Idle]
  /\ UNCHANGED <<ledger, updateToken, startTokens, rotation, phone, event, starts, crossed, followed>>

\* What the phone makes of an update: nothing, once the activity has ended.
Updated(h) ==
  IF phone.shows = "ended" THEN phone
  ELSE [shows |-> IF Seen(h).phase = "done" THEN "ended" ELSE "activity",
        state |-> Seen(h), of |-> handler[h].event]

\* The update, or the end, is sent to the token.
SendUpdate(h) ==
  /\ At(h, "send") /\ handler' = [handler EXCEPT ![h] = Idle]
  /\ phone' = Updated(h)
  /\ crossed' = IF handler[h].event < phone.of THEN "yes" ELSE crossed
  /\ UNCHANGED <<ledger, updateToken, startTokens, rotation, pushFaults, event, starts, followed>>

\* Refused for good, the token is deleted; without an answer, it may have arrived.
SendUpdateFails(h) ==
  /\ At(h, "send") /\ PushFault /\ handler' = [handler EXCEPT ![h] = Idle]
  /\ \/ updateToken' = "none" /\ UNCHANGED <<phone, crossed>>
     \/ phone' \in {phone, Updated(h)} /\ UNCHANGED <<updateToken, crossed>>
  /\ UNCHANGED <<ledger, startTokens, rotation, event, starts, followed>>

-----------------------------------------------------------------------------
(* The phone's registrations *)

\* upsertActivityToken, update: once the phone shows the activity.
RegisterUpdateToken ==
  /\ phone.shows = "activity" /\ followed = "no"
  /\ updateToken' = "fresh" /\ followed' = "late"
  /\ UNCHANGED <<ledger, handler, startTokens, rotation, phone, pushFaults, event, starts, crossed>>

TokenAges ==
  /\ updateToken = "fresh" /\ updateToken' = "old"
  /\ UNCHANGED <<ledger, handler, startTokens, rotation, phone, pushFaults, event, starts, crossed, followed>>

\* upsertActivityToken, start: the old ones are deleted, then the new one is inserted;
\* the next rotation may come before that.
DeleteStartTokens ==
  /\ rotation.given < MaxRotations /\ rotation' = [rotation EXCEPT !.given = @ + 1, !.waits = @ \cup {rotation.given + 1}]
  /\ startTokens' = {}
  /\ UNCHANGED <<ledger, handler, updateToken, phone, pushFaults, event, starts, crossed, followed>>

InsertStartToken ==
  /\ \E r \in rotation.waits : /\ rotation' = [rotation EXCEPT !.waits = @ \ {r}]
                               /\ startTokens' = startTokens \cup {r}
  /\ UNCHANGED <<ledger, handler, updateToken, phone, pushFaults, event, starts, crossed, followed>>

-----------------------------------------------------------------------------
ActivityInit ==
  /\ stage = "new" /\ runStatus = "running"
  /\ ticket = [t \in Tickets |-> "pending"] /\ comment = [t \in Tickets |-> {}]
  /\ handler = [h \in Handlers |-> Idle]
  /\ updateToken = "none" /\ startTokens = {} /\ rotation = [given |-> 0, waits |-> {}]
  /\ phone = [shows |-> "nothing", state |-> Seen(CHOOSE h \in Handlers : TRUE), of |-> 0]
  /\ pushFaults = 0 /\ event = 0 /\ starts = 0 /\ crossed = "no" /\ followed = "no"

ActivityNext ==
  \/ CreateTickets \/ Escalate \/ CompleteRun \/ KillRun
  \/ \E t \in Tickets : StartTicket(t) \/ EndTicket(t) \/ ResolveConflict(t)
  \/ \E h \in Handlers : \/ ReadSnapshot(h) \/ ReadComments(h) \/ ReadTokens(h) \/ ReadFails(h)
                         \/ StartActivity(h) \/ StartFails(h) \/ SendUpdate(h) \/ SendUpdateFails(h)
  \/ RegisterUpdateToken \/ TokenAges \/ DeleteStartTokens \/ InsertStartToken

ActivitySpec == ActivityInit /\ [][ActivityNext]_activityVars

-----------------------------------------------------------------------------
ContentStates == [phase : {"running", "conflict", "done", "failed"},
                  segments : [Tickets -> {"done", "running", "pending", "conflict", "failed"}]]

\* Types of the run, the handlers, the tokens and the phone.
ActivityTypeOK ==
  /\ runStatus \in {"running", "blocked", "done", "failed", "killed"}
  /\ ticket \in [Tickets -> {"pending", "in-progress"} \cup Final]
  /\ comment \in [Tickets -> SUBSET {"conflict", "resolution"}]
  /\ \A h \in Handlers : /\ handler[h].pc \in {"idle", "run", "tickets", "comments", "tokens", "start", "send"}
                         /\ Seen(h) \in ContentStates
  /\ updateToken \in {"none", "fresh", "old"} /\ startTokens \subseteq 1 .. MaxRotations
  /\ phone \in [shows : {"nothing", "activity", "ended"}, state : ContentStates, of : 0 .. event]
  /\ phone.shows = "ended" => phone.state.phase = "done"

\* A phone that follows a run shows how it ended once the handlers have run: unless one
\* of them failed, or sent after the handler of a later event, or the token grew old or
\* came only after the last event.  The answers to a conflict do not change the phase.
EndIsShown ==
  /\ stage = "completed" /\ (\A h \in Handlers : handler[h].pc = "idle")
  /\ pushFaults = 0 /\ crossed = "no" /\ updateToken = "fresh" /\ followed = "yes"
  => LET now == OrchestrationContentState(runStatus, ticket, comment) IN
       /\ phone.state.phase = now.phase
       /\ \A t \in Tickets : "resolution" \in comment[t] \/ phone.state.segments[t] = now.segments[t]

\* An activity never says that a run is done while it shows a ticket that is not: the run
\* is read before the tickets, which were final when it was completed.
DoneMeansDone ==
  phone.state.phase = "done" => \A t \in Tickets : phone.state.segments[t] = "done"

\* A run is announced at most once, however its handlers overlap and the phone's tokens
\* rotate: unless one of its tickets waits for an approval, which counts as pending.
StartedOnce == starts <= 1 \/ \E t \in Tickets : ticket[t] = "blocked"

\* The live activity of a run, though its handlers overtake each other: it starts once, shows
\* the end, and says done only over tickets that are done.
ActivityInv == ActivityTypeOK /\ EndIsShown /\ DoneMeansDone /\ StartedOnce
=============================================================================
