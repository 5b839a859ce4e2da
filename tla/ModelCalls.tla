----------------------------- MODULE ModelCalls -----------------------------
(***************************************************************************)
(* A call of BudgetGuardedModelRouter: the kill switch and the budget are  *)
(* read before it, the router picks two candidate models, the failover     *)
(* makes up to three attempts, and the usage is recorded after it.  Several*)
(* calls are in flight, and between any two of those steps the budget, the *)
(* switch and the clock move.                                              *)
(***************************************************************************)
EXTENDS Budget

CONSTANTS
  Calls,        \* calls of the guarded router that can be in flight together
  Models,       \* ids of models
  Primary, Fallback,  \* the models of the task profile
  Streaming,    \* models whose provider implements completeStream
  AlwaysThinks, \* models of ALWAYS_ON_THINKING_PREFIXES
  Price,        \* cost of a token of each model
  Requested,    \* maxOutputTokens of a request
  ThinkingMin,  \* ALWAYS_ON_THINKING_MIN_MAX_TOKENS
  None,         \* no preference, no override
  MaxFaults     \* bound on database failures and restarts

ASSUME ModelCallsAssumption ==
  /\ {Primary, Fallback} \cup Streaming \cup AlwaysThinks \subseteq Models
  /\ Price \in [Models -> Nat]
  /\ {Requested, ThinkingMin} \subseteq Nat \ {0}
  /\ None \notin Models
  /\ MaxFaults \in Nat
ASSUME CallsAssumption == IsFiniteSet(Calls) /\ Calls # {}

VARIABLES
  call,     \* the calls: where each is, and what it holds
  voices,   \* history: the attempts of a call whose text reached the caller
  late,     \* history: attempts begun during the present pause
  spent,    \* history: tokens of the answers providers gave
  faults    \* how many faults happened

callVars == <<call, voices, late, spent, faults>>
vars == <<budgetVars, callVars>>

\* model is the candidate in use, other the one to fall back on, n the attempt.
Idle == [pc |-> "idle", session |-> None, model |-> None, other |-> None,
         n |-> 0, tokens |-> 0]

Init ==
  /\ BudgetInit
  /\ call = [c \in Calls |-> Idle]
  /\ voices = [c \in Calls |-> {}]
  /\ late = 0
  /\ spent = 0
  /\ faults = 0

Goto(c, pc) == call' = [call EXCEPT ![c].pc = pc]

\* The call returns or throws: its promise settles.
Settle(c) ==
  /\ call' = [call EXCEPT ![c] = Idle]
  /\ voices' = [voices EXCEPT ![c] = {}]

AnthropicMaxTokens(model) ==
  IF model \in AlwaysThinks THEN Max({Requested, ThinkingMin}) ELSE Requested

\* Mutant: the kill switch is not read.
CheckKillIgnored(c) ==
  /\ call[c].pc = "idle"
  /\ \E s \in Sessions :
       /\ ~WouldExceedSessionBudget(s, Requested)
       /\ call' = [call EXCEPT ![c].pc = "daily", ![c].session = s]
  /\ UNCHANGED <<budgetVars, voices, late, spent, faults>>

\* Mutant: the session's budget is not checked.
CheckKillNoSession(c) ==
  /\ call[c].pc = "idle"
  /\ ~active
  /\ \E s \in Sessions :
       call' = [call EXCEPT ![c].pc = "daily", ![c].session = s]
  /\ UNCHANGED <<budgetVars, voices, late, spent, faults>>

\* A call begins with await isActive(): KillSwitchActiveError while paused.
\* Then checkBeforeCall up to its await: the session's map in memory.
CheckKill(c) ==
  /\ call[c].pc = "idle"
  /\ ~active
  /\ \E s \in Sessions :
       /\ ~WouldExceedSessionBudget(s, Requested)
       /\ call' = [call EXCEPT ![c].pc = "daily", ![c].session = s]
  /\ UNCHANGED <<budgetVars, voices, late, spent, faults>>

---------------------------------------------------------------------------
(* Routing                                                                 *)

\* selectModel: a large input, a low latency or a low budget degrade.
SelectModel(primary, degrade) ==
  IF degrade \/ LowBudget THEN Fallback ELSE primary

\* resolveCandidates: the owner's preference for the chat wins over the
\* feature flag, which wins over the profile.
EffectivePrimary(preference, override) ==
  IF preference # None THEN preference
  ELSE IF override # None THEN override ELSE Primary

CountLate == late' = IF active THEN late + 1 ELSE late

\* The rest of checkBeforeCall, then resolveCandidates and the first attempt.
CheckDaily(c) ==
  /\ call[c].pc = "daily"
  /\ \/ /\ Exhausted
        /\ Settle(c)
        /\ UNCHANGED late
     \/ /\ ~Exhausted
        /\ \E preference, override \in Models \cup {None}, degrade \in BOOLEAN :
             LET primary == EffectivePrimary(preference, override)
                 selected == SelectModel(primary, degrade)
                 secondary == IF selected = primary THEN Fallback ELSE primary
             IN  call' = [call EXCEPT ![c].pc = "attempt", ![c].n = 1,
                            ![c].model = selected, ![c].other = secondary]
        /\ CountLate
        /\ UNCHANGED voices
  /\ UNCHANGED <<budgetVars, spent, faults>>

---------------------------------------------------------------------------
(* Failover: two attempts on the first candidate, one on the second        *)

\* Mutant: what has left is not remembered.
EmittedForgotten(c) == FALSE

Emitted(c) == voices[c] # {}

\* A delta of a streaming provider reaches the caller.  A call of complete()
\* is one whose deltas nobody sees: one of which this action is not taken.
Delta(c) ==
  /\ call[c].pc = "attempt"
  /\ call[c].model \in Streaming
  /\ call[c].n \notin voices[c]
  /\ voices' = [voices EXCEPT ![c] = @ \cup {call[c].n}]
  /\ UNCHANGED <<budgetVars, call, late, spent, faults>>

\* The attempt resolves, and recordUsage runs up to its first await.  A
\* provider without streaming sends its whole text as one delta.
AttemptSucceeds(c) ==
  /\ call[c].pc = "attempt"
  /\ \E tokens \in 1..AnthropicMaxTokens(call[c].model) :
       /\ call' = [call EXCEPT ![c].pc = "upsertDaily", ![c].tokens = tokens,
                               ![c].other = None, ![c].n = 0]
       /\ AddToSession(call[c].session, tokens)
       /\ spent' = spent + tokens
  /\ voices' = IF call[c].model \in Streaming
                 THEN voices
                 ELSE [voices EXCEPT ![c] = @ \cup {call[c].n}]
  /\ UNCHANGED <<now, daily, hourly, active, notified, lastResetDate, lastKill,
                 told, late, faults>>

\* The attempt rejects: no retry once text was emitted.
AttemptFails(c) ==
  /\ call[c].pc = "attempt"
  /\ IF Emitted(c) \/ call[c].n = 3
       THEN /\ Settle(c)
            /\ UNCHANGED late
       ELSE /\ call' = [call EXCEPT ![c].n = @ + 1,
                     ![c].model = IF call[c].n = 2 THEN call[c].other ELSE @]
            /\ CountLate
            /\ UNCHANGED voices
  /\ UNCHANGED <<budgetVars, spent, faults>>

---------------------------------------------------------------------------
(* The upserts of recordUsage                                              *)

RecordDaily(c) ==
  /\ call[c].pc = "upsertDaily"
  /\ UpsertDaily(call[c].tokens, call[c].tokens * Price[call[c].model])
  /\ Goto(c, "upsertHourly")
  /\ UNCHANGED <<now, sessionUsage, hourly, active, notified, lastResetDate,
                 lastKill, told, voices, late, spent, faults>>

RecordHourly(c) ==
  /\ call[c].pc = "upsertHourly"
  /\ UpsertHourly(call[c].tokens)
  /\ Settle(c)
  /\ UNCHANGED <<now, sessionUsage, daily, active, notified, lastResetDate,
                 lastKill, told, late, spent, faults>>

\* A query of the call fails and the call with it.
QueryFails(c) ==
  /\ call[c].pc \in {"daily", "upsertDaily", "upsertHourly"}
  /\ faults < MaxFaults
  /\ faults' = faults + 1
  /\ Settle(c)
  /\ UNCHANGED <<budgetVars, late, spent>>

---------------------------------------------------------------------------
(* The rest of the process                                                 *)

Sweep ==
  /\ CheckRunaway
  /\ UNCHANGED callVars

Owner ==
  /\ Unpause
  /\ late' = 0
  /\ UNCHANGED <<call, voices, spent, faults>>

Monitor == MonitorCheck /\ UNCHANGED callVars

Clock == Tick /\ UNCHANGED callVars

Restart ==
  /\ faults < MaxFaults
  /\ faults' = faults + 1
  /\ BudgetRestart
  /\ call' = [c \in Calls |-> Idle]
  /\ voices' = [c \in Calls |-> {}]
  /\ UNCHANGED <<late, spent>>

Step(c) ==
  \/ CheckDaily(c) \/ AttemptSucceeds(c) \/ AttemptFails(c)
  \/ RecordDaily(c) \/ RecordHourly(c)

Next ==
  \/ \E c \in Calls : CheckKill(c) \/ Step(c) \/ Delta(c) \/ QueryFails(c)
  \/ Sweep \/ Owner \/ Monitor \/ Clock \/ Restart

Spec == Init /\ [][Next]_vars

---------------------------------------------------------------------------
(* Properties                                                              *)

TypeOK ==
  /\ BudgetTypeOK
  /\ call \in [Calls ->
       [pc : {"idle", "daily", "attempt", "upsertDaily",
              "upsertHourly"},
        session : Sessions \cup {None},
        model : Models \cup {None}, other : Models \cup {None},
        n : 0..3, tokens : Nat]]
  /\ voices \in [Calls -> SUBSET (1..3)]
  /\ late \in Nat
  /\ spent \in Nat
  /\ faults \in 0..MaxFaults

\* The most one call can spend, by the cap its provider sends.
CallMax == Max({AnthropicMaxTokens(model) : model \in Models})

\* checkBeforeCall and recordUsage are apart: the day ends over its limit by
\* what the calls in flight together can spend, and never by more.
DailyOvershootBounded ==
  \A d \in Days :
    daily[d].tokens <= DailyMaxTokens - 1 + CallMax * Cardinality(Calls)

\* The same for a session, whose check counts on maxOutputTokens while a
\* model that always thinks is given a larger cap.
SessionOvershootBounded ==
  \A s \in Sessions :
    sessionUsage[s] <= SessionMax - Requested + CallMax * Cardinality(Calls)

\* Spending passes the daily and the session limit by what the calls in flight can spend, and
\* never by more.
SpendInv == TypeOK /\ DailyOvershootBounded /\ SessionOvershootBounded

Recording(places) == {c \in Calls : call[c].pc \in places}

\* The sum of the rows of a ledger, of 0 to the last one.
SumOfRows(row, last) ==
  LET sum[i \in 0..last] == row[i] + (IF i = 0 THEN 0 ELSE sum[i - 1])
  IN  sum[last]

DailyTotal == SumOfRows([d \in Days |-> daily[d].tokens], MaxHour \div DayHours)
HourlyTotal == SumOfRows(hourly, MaxHour)

\* Both ledgers are behind what the providers billed by the calls still to be
\* recorded and by those a fault hit, and never ahead: nothing is added twice.
LedgersTrackSpend ==
  LET missed == CallMax * Cardinality(Calls) * faults
      behind(places) == CallMax * Cardinality(Recording(places)) + missed
  IN  /\ spent - DailyTotal \in 0..behind({"upsertDaily"})
      /\ DailyTotal - HourlyTotal \in 0..behind({"upsertHourly"})

\* The switch is read once per call: a pause lets the calls in flight finish
\* their three attempts, and no other call reaches a provider.
PauseStopsCalls == late <= 3 * Cardinality(Calls)

\* The caller is never sent text of two attempts of one call.
OneVoice == \A c \in Calls : Cardinality(voices[c]) <= 1

\* No threshold that was crossed goes unannounced for a whole local day, over restarts and
\* both midnights: a check in the hours when UTC is a day ahead, which follow the reset of the
\* announced ones, leaves all that the day has crossed announced during that day.
AlertedDuringDay ==
  [][Monitor /\ (UtcShift = 0 \/ UtcDate # TodayLocalDate) => CrossedToday \subseteq told']_vars
=============================================================================
