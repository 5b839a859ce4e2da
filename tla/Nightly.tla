------------------------------- MODULE Nightly -------------------------------
(***************************************************************************)
(* The academic report (ShadowingService) and the morning alert            *)
(* (MorningAlertService): a run at midnight reads Canvas, asks the model,  *)
(* audits and stores its outcome; at six the owner is told the outcome     *)
(* that was stored last, if it is recent, and otherwise that there is none. *)
(*                                                                         *)
(* The clock counts spans of six hours: midnight, six, noon, evening.  A   *)
(* run is over before noon, by the limits of the calls it makes.           *)
(***************************************************************************)
EXTENDS Naturals, FiniteSets

CONSTANTS
  MaxNights,        \* bound: nights
  MaxNightFaults    \* bound: failed calls, queries and writes, deaths of the process

ASSUME NightAssumption == MaxNights \in Nat \ {0} /\ MaxNightFaults \in Nat

VARIABLES
  clock,      \* spans of six hours
  report,     \* the run: where it is, and its night
  stored,     \* shadowing_runs: [night, at, status]
  morning,    \* the alert: where it is
  nightFaults,
  \* history
  ended,      \* night -> how its run ended: none, ok, failed or lost
  toldOf,     \* night -> what the owner was told at six, and of which night
  deaf        \* nights whose alert failed before it was sent

nightVars == <<clock, report, stored, morning, nightFaults, ended, toldOf, deaf>>

Nights == 1 .. MaxNights
Night(t) == 1 + (t \div 4)
Hour(t) == CASE t % 4 = 0 -> "midnight" [] t % 4 = 1 -> "six" [] OTHER -> "day"
NoReport == [pc |-> "idle", night |-> 0]
Untold == [kind |-> "none", night |-> 0]
NightFault == nightFaults < MaxNightFaults /\ nightFaults' = nightFaults + 1

-----------------------------------------------------------------------------
\* handleCron, at midnight.
BeginReport ==
  /\ Hour(clock) = "midnight" /\ report.pc = "idle" /\ ended[Night(clock)] = "none"
  /\ report' = [pc |-> "canvas", night |-> Night(clock)]
  /\ UNCHANGED <<clock, stored, morning, nightFaults, ended, toldOf, deaf>>

\* runShadowing: Canvas, then the model (ModelCalls), then the audit row.
ReportStep ==
  /\ \/ report.pc = "canvas" /\ report' = [report EXCEPT !.pc = "model"]
     \/ report.pc = "model" /\ report' = [report EXCEPT !.pc = "audit"]
     \/ report.pc = "audit" /\ report' = [report EXCEPT !.pc = "ok"]
  /\ UNCHANGED <<clock, stored, morning, nightFaults, ended, toldOf, deaf>>

\* Any of them fails, and the failure is what is stored.
ReportFails ==
  /\ report.pc \in {"canvas", "model", "audit"} /\ NightFault
  /\ report' = [report EXCEPT !.pc = "failed"]
  /\ UNCHANGED <<clock, stored, morning, ended, toldOf, deaf>>

\* persistRun, with the hour of the insert; a write that fails is logged, and nothing is stored.
PersistRun ==
  /\ report.pc \in {"ok", "failed"} /\ report' = NoReport
  /\ \/ /\ stored' = stored \cup {[night |-> report.night, at |-> clock, status |-> report.pc]}
        /\ ended' = [ended EXCEPT ![report.night] = report.pc] /\ UNCHANGED nightFaults
     \/ /\ NightFault /\ ended' = [ended EXCEPT ![report.night] = "lost"] /\ UNCHANGED stored
  /\ UNCHANGED <<clock, morning, toldOf, deaf>>

-----------------------------------------------------------------------------
\* Mutant: a run of the day before counts.
RecentDay == {r \in stored : clock - r.at <= 5}

\* MAX_RUN_AGE_MS: twelve hours.
Recent == {r \in stored : clock - r.at <= 2}

Latest(S) == CHOOSE r \in S : \A q \in S : r.at >= q.at

\* What is told of a stored run: a summary, or that there is none.
MorningEvent ==
  IF Recent = {} THEN [kind |-> "missing", night |-> 0]
  ELSE [kind |-> IF Latest(Recent).status = "ok" THEN "summary" ELSE "failed", night |-> Latest(Recent).night]

\* run, at six: the row is read and the event emitted, whatever becomes of the audit row;
\* a query that fails leaves the owner without an alert.
MorningAlert ==
  /\ Hour(clock) = "six" /\ morning = "idle" /\ toldOf[Night(clock)] = Untold
  /\ \/ /\ toldOf' = [toldOf EXCEPT ![Night(clock)] = MorningEvent]
        /\ morning' = "told" /\ UNCHANGED <<nightFaults, deaf>>
     \/ /\ NightFault /\ deaf' = deaf \cup {Night(clock)}
        /\ morning' = "told" /\ UNCHANGED toldOf
  /\ UNCHANGED <<clock, report, stored, ended>>

\* Time passes: the crons ran on their hour if the process lived, and a run is over by noon.
TimePasses ==
  /\ clock < 4 * MaxNights - 1
  /\ Hour(clock) = "midnight" => report.pc # "idle" \/ ended[Night(clock)] # "none"
  /\ Hour(clock) = "six" => morning = "told" /\ report.pc = "idle"
  /\ clock' = clock + 1 /\ morning' = "idle"
  /\ UNCHANGED <<report, stored, nightFaults, ended, toldOf, deaf>>

\* The process dies: the run under way is gone, and so are the crons of this hour.
NightCrash ==
  /\ NightFault /\ report' = NoReport
  /\ ended' = CASE report.pc # "idle" -> [ended EXCEPT ![report.night] = "lost"]
                [] report.pc = "idle" /\ Hour(clock) = "midnight" /\ ended[Night(clock)] = "none" -> [ended EXCEPT ![Night(clock)] = "lost"]
                [] OTHER -> ended
  /\ deaf' = IF Hour(clock) = "six" /\ morning = "idle" THEN deaf \cup {Night(clock)} ELSE deaf
  /\ morning' = IF Hour(clock) = "six" THEN "told" ELSE morning
  /\ UNCHANGED <<clock, stored, toldOf>>

-----------------------------------------------------------------------------
NightInit ==
  /\ clock = 0 /\ report = NoReport /\ stored = {} /\ morning = "idle" /\ nightFaults = 0
  /\ ended = [n \in Nights |-> "none"] /\ toldOf = [n \in Nights |-> Untold] /\ deaf = {}

NightNext ==
  BeginReport \/ ReportStep \/ ReportFails \/ PersistRun \/ MorningAlert \/ TimePasses \/ NightCrash

NightSpec == NightInit /\ [][NightNext]_nightVars

-----------------------------------------------------------------------------
\* The owner is told at six of this night's run and of no other: its summary only if it
\* went well, its failure, or that there is none; never a summary of the night before.
MorningTellsTheTruth ==
  \A n \in Nights :
    /\ toldOf[n].kind = "summary" => toldOf[n].night = n /\ ended[n] = "ok"
    /\ toldOf[n].kind = "failed" => toldOf[n].night = n /\ ended[n] = "failed"

\* Every morning brings an alert, whether the run failed, was lost or is still under way and
\* whatever the audit log does, unless the query failed or the process died.
NoSilentMorning ==
  \A n \in Nights : clock > 4 * (n - 1) + 1 => toldOf[n].kind # "none" \/ n \in deaf

\* Every morning brings an alert, and it is about the night before.
NightInv == MorningTellsTheTruth /\ NoSilentMorning
=============================================================================
