------------------------------- MODULE Budget -------------------------------
(***************************************************************************)
(* The token budget of src/budget: the usage ledgers a model call is       *)
(* checked against and recorded in, the runaway kill switch, and the       *)
(* monitor that announces thresholds and pauses.  The calls themselves are *)
(* in ModelCalls, which extends this module.                               *)
(*                                                                         *)
(* The clock ticks once an hour.  A local day has DayHours of them, and    *)
(* UTC is UtcShift hours ahead of the process (TZ=America/Lima).  Of the   *)
(* two token axes of a session the output one is modelled: its check uses  *)
(* a bound the request states, while the input one uses an estimate.       *)
(***************************************************************************)
EXTENDS Integers, FiniteSets, FiniteSetsExt, TLC

CONSTANTS
  Sessions,         \* ids that group the model calls of a task
  SessionMax,       \* sessionMaxOutputTokens
  DailyMaxTokens,   \* dailyMaxTokens
  DailyMaxUsd,      \* dailyMaxUsd
  RunawayMin,       \* runawayMinHourlyTokens
  RunawayMult,      \* runawayMultiplier
  Lookback,         \* runawayLookbackHours
  DayHours,         \* ticks in a day
  UtcShift,         \* how far UTC is ahead of the local clock
  FirstHour,        \* the hour of the first start
  MaxHour           \* bound on the clock

ASSUME BudgetAssumption ==
  /\ {SessionMax, DailyMaxTokens, DailyMaxUsd, Lookback, DayHours} \subseteq Nat \ {0}
  /\ {RunawayMin, RunawayMult} \subseteq Nat \ {0}
  /\ UtcShift \in 0..(DayHours - 1)
  /\ MaxHour \in Nat /\ FirstHour \in 0..MaxHour

VARIABLES
  now,              \* the hour
  sessionUsage,     \* BudgetService.sessionUsage, in memory
  daily,            \* rows of budget_daily_usage
  hourly,           \* rows of budget_hourly_usage; no row when 0
  active,           \* row of budget_kill_switch
  notified,         \* BudgetAlertMonitor.notifiedThresholdsToday
  lastResetDate,    \* BudgetAlertMonitor.lastResetDate
  lastKill,         \* BudgetAlertMonitor.lastKillSwitchActive
  told              \* history: the thresholds announced this local day

budgetVars == <<now, sessionUsage, daily, hourly, active, notified,
                lastResetDate, lastKill, told>>

Hours == 0..MaxHour
Days == 0..(MaxHour \div DayHours)
NoDate == -1

TodayLocalDate == now \div DayHours
UtcDate == (now + UtcShift) \div DayHours
CurrentHourBucket == now
NoUsage == [tokens |-> 0, cost |-> 0]

BudgetInit ==
  /\ now = FirstHour
  /\ sessionUsage = [s \in Sessions |-> 0]
  /\ daily = [d \in Days |-> NoUsage]
  /\ hourly = [h \in Hours |-> 0]
  /\ active = FALSE
  /\ notified = {}
  /\ lastResetDate = NoDate
  /\ lastKill = FALSE
  /\ told = {}

---------------------------------------------------------------------------
(* budget.logic.ts.  A ratio is compared with a threshold in tenths, so    *)
(* that no fraction is needed: AtRatio(8) is "the ratio is >= 0.8".     *)

WouldExceedSessionBudget(s, maxOutput) ==
  sessionUsage[s] + maxOutput > SessionMax

GetDailyUsage == daily[TodayLocalDate]

\* The least usage whose ratio to a limit reaches so many tenths.
Least(tenths, limit) == (tenths * limit + 9) \div 10

AtRatio(tenths) ==
  \/ GetDailyUsage.tokens >= Least(tenths, DailyMaxTokens)
  \/ GetDailyUsage.cost >= Least(tenths, DailyMaxUsd)

Exhausted == AtRatio(10)

\* budgetRemaining < 0.2
LowBudget ==
  \/ 10 * GetDailyUsage.tokens > 8 * DailyMaxTokens
  \/ 10 * GetDailyUsage.cost > 8 * DailyMaxUsd

(* The three writes of recordUsage: the map at once, then two upserts that *)
(* each add to the row of the date or hour at the moment they are issued.  *)

AddToSession(s, tokens) ==
  sessionUsage' = [sessionUsage EXCEPT ![s] = @ + tokens]

UpsertDaily(tokens, cost) ==
  daily' = [daily EXCEPT ![TodayLocalDate] =
              [tokens |-> @.tokens + tokens, cost |-> @.cost + cost]]

\* Mutant: the row is overwritten.
UpsertHourlyOverwrites(tokens) ==
  hourly' = [hourly EXCEPT ![CurrentHourBucket] = tokens]

UpsertHourly(tokens) ==
  hourly' = [hourly EXCEPT ![CurrentHourBucket] = @ + tokens]

---------------------------------------------------------------------------
(* The kill switch                                                         *)

LookbackRows ==
  {h \in Hours : h >= now - Lookback /\ h < now /\ hourly[h] > 0}

IsRunawayDetected ==
  LET total == MapThenSumSet(LAMBDA h : hourly[h], LookbackRows)
      current == hourly[CurrentHourBucket]
  IN  /\ LookbackRows # {}
      /\ current >= RunawayMin
      /\ total > 0
      /\ current * Lookback > total * RunawayMult

\* @Cron checkRunaway: nothing while active; otherwise pauses on a runaway.
CheckRunaway ==
  /\ ~active
  /\ IsRunawayDetected
  /\ active' = TRUE
  /\ UNCHANGED <<now, sessionUsage, daily, hourly, notified, lastResetDate,
                 lastKill, told>>

\* POST /api/budget/unpause and /unpause of Telegram, by the owner.
Unpause ==
  /\ active
  /\ active' = FALSE
  /\ UNCHANGED <<now, sessionUsage, daily, hourly, notified, lastResetDate,
                 lastKill, told>>

---------------------------------------------------------------------------
(* BudgetAlertMonitor.check, once every five minutes                       *)

Thresholds == {8, 10}

\* The pause is reported on the rising edge the poll sees.
CheckKillSwitch == lastKill' = active

CrossedToday == {t \in Thresholds : AtRatio(t)}

\* Mutant: the announced thresholds are never forgotten.
CheckDailyThresholdsOnce ==
  LET crossed == CrossedToday \ notified
  IN  /\ notified' = notified \cup crossed
      /\ lastResetDate' = UtcDate
      /\ told' = told \cup crossed

\* The announced thresholds are forgotten when the UTC date changes; usage counts by the
\* local one.
CheckDailyThresholds ==
  LET kept == IF UtcDate # lastResetDate THEN {} ELSE notified
      crossed == CrossedToday \ kept
  IN  /\ notified' = kept \cup crossed
      /\ lastResetDate' = UtcDate
      /\ told' = told \cup crossed

MonitorCheck ==
  /\ CheckKillSwitch
  /\ CheckDailyThresholds
  /\ UNCHANGED <<now, sessionUsage, daily, hourly, active>>

---------------------------------------------------------------------------
Tick ==
  /\ now < MaxHour
  /\ now' = now + 1
  /\ told' = IF TodayLocalDate' # TodayLocalDate THEN {} ELSE told
  /\ UNCHANGED <<sessionUsage, daily, hourly, active, notified, lastResetDate,
                 lastKill>>

\* What a restart forgets: the maps and the monitor's memory.  The ledgers
\* and the switch are rows.
BudgetRestart ==
  /\ sessionUsage' = [s \in Sessions |-> 0]
  /\ notified' = {}
  /\ lastResetDate' = NoDate
  /\ lastKill' = FALSE
  /\ UNCHANGED <<now, daily, hourly, active, told>>

BudgetTypeOK ==
  /\ now \in Hours
  /\ sessionUsage \in [Sessions -> Nat]
  /\ daily \in [Days -> [tokens : Nat, cost : Nat]]
  /\ hourly \in [Hours -> Nat]
  /\ active \in BOOLEAN
  /\ notified \subseteq Thresholds
  /\ lastResetDate \in Nat \cup {NoDate}
  /\ lastKill \in BOOLEAN
  /\ told \subseteq Thresholds
=============================================================================
