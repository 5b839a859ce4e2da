------------------------------ MODULE Autonomy ------------------------------
(***************************************************************************)
(* The autonomy modes of the human-in-the-loop gate (AutonomyService): the *)
(* single row of autonomy_mode_state, the tool calls that read it to skip  *)
(* an approval, the emergency brake that counts them, the owner's mode     *)
(* changes and the cron that expires a relaxed mode.                       *)
(*                                                                         *)
(* Every database statement and audit append is an await: the clock and    *)
(* the row a call has read may be stale when it acts on them.              *)
(***************************************************************************)
EXTENDS Integers, FiniteSets

CONSTANTS
  Procs,        \* concurrent tool calls, owner requests and approved changes
  Cron,         \* the process of the expiry cron
  Changes,      \* approval requests for a mode change (randomUUID)
  HoursAsked,   \* the hours an owner may ask for
  SemiHours,    \* max_hours of semi_auto
  AutoHours,    \* max_hours of auto
  Hour,         \* ticks of the clock in an hour
  MaxRelaxed,   \* maxRelaxedActionsPerHour
  Null,
  MaxTime,      \* bound: the clock stops here
  MaxFaults     \* bound: failed audits and dead calls

ASSUME CronAssumption == Cron \notin Procs
ASSUME ProcsAssumption == IsFiniteSet(Procs)
ASSUME NullAssumption == Null \notin Nat /\ Null \notin Changes
ASSUME LimitsAssumption ==
  /\ SemiHours \in Nat \ {0} /\ AutoHours \in Nat \ {0} /\ MaxRelaxed \in Nat \ {0}
  /\ Hour \in Nat \ {0} /\ MaxTime \in Nat /\ MaxFaults \in Nat /\ HoursAsked \subseteq Int

VARIABLES
  row,         \* autonomy_mode_state
  change,      \* pending mode changes; an approval is resolved as in Approvals
  proc,        \* every call: control and locals
  now, faults,
  \* history
  audits,      \* audit rows of approved changes
  applied,     \* approved changes written to the row
  inWindow,    \* relaxations granted since the counter was last reset
  stale        \* relaxations granted since the row became supervised

histVars == <<audits, applied, inWindow, stale>>
autonomyVars == <<row, change, proc, now, faults, histVars>>

All == Procs \cup {Cron}
Modes == {"supervised", "semi-auto", "auto"}
Tools == {"plain", "guarded", "decision"}   \* guardedInSemiAuto, humanDecision
Levels == {"confirm", "dual-confirm"}

Idle == [pc |-> "idle", mode |-> "supervised", hours |-> 0, at |-> 0,
         why |-> "expired", id |-> Null]

-----------------------------------------------------------------------------
(* autonomy.types.ts and autonomy.logic.ts *)

Ordinal(m) == CASE m = "supervised" -> 0 [] m = "semi-auto" -> 1 [] m = "auto" -> 2

\* Mutant: renewing the same mode is immediate.
RenewalIsImmediate(current, target) ==
  target # "supervised" /\ Ordinal(target) > Ordinal(current)

RequiresDualConfirm(current, target) ==
  target # "supervised" /\ Ordinal(target) >= Ordinal(current)

\* relaxDecision: the call runs without approval.
Relaxes(level, mode, tool) ==
  /\ mode # "supervised"
  /\ level = "confirm"
  /\ tool # "decision"
  /\ ~(mode = "semi-auto" /\ tool = "guarded")

MaxHours(m) == IF m = "auto" THEN AutoHours ELSE SemiHours

\* clampHours; a request without hours asks for the default, which is in range.
ClampHours(h, m) ==
  CASE h < 1           -> 1
    [] h > MaxHours(m) -> MaxHours(m)
    [] OTHER           -> h

\* getState: the mode in force for a caller whose clock says t.
Effective(t) ==
  IF row.mode = "supervised" \/ row.expires = Null \/ row.expires <= t
    THEN "supervised" ELSE row.mode

-----------------------------------------------------------------------------
Fault == faults < MaxFaults /\ faults' = faults + 1

Return(p) == proc' = [proc EXCEPT ![p] = Idle]

\* writeState begins: it reads the clock, and an approved change is audited first.
EnterWrite(p, m, h, reason) ==
  proc' = [proc EXCEPT ![p] = [pc |-> IF reason = "approved" THEN "audit" ELSE "write",
                               mode |-> m, hours |-> h, why |-> reason, at |-> now,
                               id |-> proc[p].id]]

\* getState begins: it reads the clock, then awaits the row.
GetState(p, l) ==
  /\ proc[p].pc = "idle"
  /\ proc' = [proc EXCEPT ![p] = [Idle EXCEPT !.pc = l, !.at = now]]
  /\ UNCHANGED <<row, change, now, faults, histVars>>

(* relax *)

\* A call of `tool`, classified as `level`, has the row.
RelaxRead(p, tool, level) ==
  /\ proc[p].pc = "relaxRead"
  /\ IF Relaxes(level, Effective(proc[p].at), tool)
       THEN proc' = [proc EXCEPT ![p].pc = "bump", ![p].at = 0]
       ELSE Return(p)
  /\ UNCHANGED <<row, change, now, faults, histVars>>

\* The emergency brake.
Brakes(count) == count > MaxRelaxed

\* bumpRelaxedCounter, one UPDATE, and what relax does with the count.
Bump(p) ==
  /\ proc[p].pc = "bump"
  /\ LET fresh == row.window < now - Hour
         count == IF fresh THEN 1 ELSE row.count + 1
         window == IF fresh THEN 0 ELSE inWindow
     IN /\ row' = [row EXCEPT !.count = count, !.window = IF fresh THEN now ELSE @]
        /\ IF Brakes(count)
             THEN /\ EnterWrite(p, "supervised", 0, "circuit-breaker")
                  /\ inWindow' = window
                  /\ UNCHANGED stale
             ELSE /\ Return(p)
                  /\ inWindow' = window + 1
                  /\ stale' = IF row.mode = "supervised" THEN stale + 1 ELSE 0
  /\ UNCHANGED <<change, now, faults, audits, applied>>

(* requestModeChange *)

\* The owner asks for m, h hours.  A more restrictive mode than the one just read
\* is written at once.
RequestRestrictive(p, m, h) ==
  /\ proc[p].pc = "modeRead"
  /\ ~RequiresDualConfirm(Effective(proc[p].at), m)
  /\ EnterWrite(p, m, IF m = "supervised" THEN 0 ELSE ClampHours(h, m), "downgrade")
  /\ UNCHANGED <<row, change, now, faults, histVars>>

\* Anything else waits for a dual approval under a new request id.
RequestDual(p, m, h, q) ==
  /\ proc[p].pc = "modeRead"
  /\ RequiresDualConfirm(Effective(proc[p].at), m)
  /\ change[q].state = "none"
  /\ change' = [change EXCEPT ![q] = [state |-> "open", mode |-> m,
                                      hours |-> ClampHours(h, m)]]
  /\ Return(p)
  /\ UNCHANGED <<row, now, faults, histVars>>

\* applyApprovedChange, run by the approval cycle under the claim of q.
ApplyApproved(p, q) ==
  /\ proc[p].pc = "idle"
  /\ change[q].state = "open"
  /\ change' = [change EXCEPT ![q].state = "claimed"]
  /\ proc' = [proc EXCEPT ![p] = [Idle EXCEPT !.pc = "audit", !.at = now, !.id = q,
                          !.mode = change[q].mode, !.why = "approved",
                          !.hours = ClampHours(change[q].hours, change[q].mode)]]
  /\ UNCHANGED <<row, now, faults, histVars>>

(* expireIfNeeded *)

\* Mutant: a mode that expires right now is left alone.
ExpireReadLate ==
  /\ proc[Cron].pc = "expireRead"
  /\ IF row.mode = "supervised" \/ row.expires >= proc[Cron].at
       THEN Return(Cron)
       ELSE EnterWrite(Cron, "supervised", 0, "expired")
  /\ UNCHANGED <<row, change, now, faults, histVars>>

ExpireRead ==
  /\ proc[Cron].pc = "expireRead"
  /\ IF row.mode = "supervised" \/ (row.expires # Null /\ row.expires > proc[Cron].at)
       THEN Return(Cron)
       ELSE EnterWrite(Cron, "supervised", 0, "expired")
  /\ UNCHANGED <<row, change, now, faults, histVars>>

(* writeState *)

\* Fail-closed: an approved change that cannot be audited stays pending.
AuditFirst(p) ==
  /\ proc[p].pc = "audit"
  /\ \/ /\ audits' = audits + 1
        /\ proc' = [proc EXCEPT ![p].pc = "write"]
        /\ UNCHANGED <<change, faults>>
     \/ /\ Fault
        /\ change' = [change EXCEPT ![proc[p].id].state = "open"]
        /\ Return(p)
        /\ UNCHANGED audits
  /\ UNCHANGED <<row, now, applied, inWindow, stale>>

\* The UPDATE, with no condition on the row it replaces.
UpdateState(p) ==
  /\ proc[p].pc = "write"
  /\ LET w == proc[p] IN
     /\ row' = [mode |-> w.mode, by |-> w.why, count |-> 0, window |-> w.at,
                expires |-> IF w.mode = "supervised" THEN Null ELSE w.at + w.hours * Hour]
     /\ inWindow' = 0
     /\ stale' = IF row.mode = "supervised" /\ w.mode = "supervised" THEN stale ELSE 0
     /\ applied' = IF w.why = "approved" THEN applied + 1 ELSE applied
     /\ IF w.why = "approved"
          THEN Return(p) /\ change' = [change EXCEPT ![w.id].state = "done"]
          ELSE proc' = [proc EXCEPT ![p] = [Idle EXCEPT !.pc = "auditAfter"]] /\ UNCHANGED change
  /\ UNCHANGED <<now, faults, audits>>

\* A restrictive change is audited after it applied; a failure is only logged.
AuditAfter(p) ==
  /\ proc[p].pc = "auditAfter"
  /\ Return(p)
  /\ UNCHANGED <<row, change, now, faults, histVars>>

\* The process dies, or a statement throws.
Dies(p) ==
  /\ proc[p].pc # "idle"
  /\ Fault
  /\ Return(p)
  /\ UNCHANGED <<row, change, now, histVars>>

Tick ==
  /\ now < MaxTime
  /\ now' = now + 1
  /\ UNCHANGED <<row, change, proc, faults, histVars>>

-----------------------------------------------------------------------------
AutonomyInit ==
  /\ row = [mode |-> "supervised", expires |-> Null, by |-> "expired", count |-> 0,
            window |-> 0]
  /\ change = [q \in Changes |-> [state |-> "none", mode |-> "supervised", hours |-> 0]]
  /\ proc = [p \in All |-> Idle]
  /\ now = 0 /\ faults = 0
  /\ audits = 0 /\ applied = 0 /\ inWindow = 0 /\ stale = 0

ExpiryStep ==
  \/ GetState(Cron, "expireRead") \/ ExpireRead
  \/ UpdateState(Cron) \/ AuditAfter(Cron)

AutonomyNext ==
  \/ \E p \in Procs :
       \/ \E l \in {"relaxRead", "modeRead"} : GetState(p, l)
       \/ \E tool \in Tools, level \in Levels : RelaxRead(p, tool, level)
       \/ Bump(p)
       \/ \E m \in Modes, h \in HoursAsked :
            \/ RequestRestrictive(p, m, h)
            \/ \E q \in Changes : RequestDual(p, m, h, q)
       \/ \E q \in Changes : ApplyApproved(p, q)
       \/ AuditFirst(p) \/ UpdateState(p) \/ AuditAfter(p)
  \/ ExpiryStep
  \/ \E p \in All : Dies(p)
  \/ Tick

\* The cron fires every minute, and what it started it finishes.
AutonomyFairness == WF_autonomyVars(ExpiryStep)

AutonomySpec == AutonomyInit /\ [][AutonomyNext]_autonomyVars /\ AutonomyFairness

-----------------------------------------------------------------------------
(* Properties. *)

\* Types, and the range clampHours promises for whatever is going to be written.
AutonomyTypeOK ==
  /\ row \in [mode : Modes, expires : Nat \cup {Null}, count : Nat, window : 0..MaxTime,
              by : {"downgrade", "circuit-breaker", "expired", "approved"}]
  /\ \A q \in Changes : change[q].state \in {"none", "open", "claimed", "done"}
  /\ \A p \in All : proc[p].pc = "write" /\ proc[p].mode # "supervised"
                      => proc[p].hours \in 1..MaxHours(proc[p].mode)
  /\ now \in 0..MaxTime

\* A relaxed mode always has an expiry, and never one further away than the limit
\* of that mode, whichever stale clock it was computed from ("Todo modo relajado
\* caduca solo").
RelaxedModeExpires ==
  row.mode # "supervised" =>
    /\ row.expires # Null
    /\ row.expires <= now + MaxHours(row.mode) * Hour

\* The least protected mode is entered, and renewed, only by a dual approval,
\* whatever the requests of the owner have read.
AutoNeedsApproval == row.mode = "auto" => row.by = "approved"

\* Every approved change that was applied has its audit row, written before it.
ApprovedChangesAudited == applied <= audits

\* Concurrent calls never get more than MaxRelaxed relaxations out of one window
\* of the counter.
BrakeHolds == inWindow <= MaxRelaxed

\* Once the row is supervised only calls that had read a relaxed mode before still
\* skip their approval: no more than were in flight.
StaleRelaxationsInFlight ==
  row.mode = "supervised" =>
    stale + Cardinality({p \in Procs : proc[p].pc = "bump"}) <= Cardinality(Procs)

\* What the autonomy modes promise: a relaxed mode expires within its limit, auto is entered
\* and renewed only by an approval, which is audited first, and the emergency brake counts
\* concurrent relaxations exactly and stops all but those in flight.
AutonomyInv ==
  /\ AutonomyTypeOK /\ RelaxedModeExpires /\ AutoNeedsApproval
  /\ ApprovedChangesAudited /\ BrakeHolds /\ StaleRelaxationsInFlight

\* A mode that has expired is taken out of the table, unless a newer one replaces it.
ExpiredModeReverts ==
  (row.mode # "supervised" /\ row.expires <= now)
    ~> (row.mode = "supervised" \/ row.expires > now)

=============================================================================
