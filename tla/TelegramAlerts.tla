--------------------------- MODULE TelegramAlerts ---------------------------
(***************************************************************************)
(* What the Telegram bot tells the owner on its own (TelegramBotService):  *)
(* every five minutes it looks at the kill switch, at the day's budget and *)
(* at the Google token, in this order, and remembers in memory what it     *)
(* told; another check does the same for the audit log's lock.  The owner  *)
(* unpauses from the chat, or from the dashboard behind the bot's back.    *)
(* Sends fail, the process dies, and the thresholds' day is UTC's.         *)
(***************************************************************************)
EXTENDS Naturals, FiniteSets

CONSTANTS
  MaxActivations,  \* bound: times the kill switch goes on
  MaxDays,         \* bound: midnights, UTC
  MaxAlertFaults   \* bound: failed sends, queries and audit writes, deaths of the process

ASSUME AlertAssumption == MaxActivations \in Nat /\ MaxDays \in Nat \ {0} /\ MaxAlertFaults \in Nat

VARIABLES
  kill,       \* kill_switch: "on" or "off" (Budget)
  chain,      \* the audit log: "open" or "locked" (AuditLog)
  spent,      \* thresholds the day's consumption has reached, 0 .. 2
  oauth,      \* the Google token: "fresh" or "due"
  utcDay,
  lastNotified,  \* lastNotifiedKillSwitchActive, lastNotifiedChainLocked
  notified,   \* notifiedDailyThresholdsToday, its day, and that of the last OAuth alert
  check,      \* checkBudgetAlerts: where it is, and what is left to tell
  unpausing,  \* the handler of /unpause
  alertFaults,
  \* history
  active,     \* activations so far; the last one is the current one
  told,       \* activations the owner was told of
  quick,      \* activations that came while the bot still held the one before for news
  toldToday,  \* level -> times it was told this day
  failedToday,\* levels whose send failed this day
  swept,      \* levels a check found reached and went through to its end
  lockTold    \* whether the owner was told of the lock

alertVars == <<kill, chain, spent, oauth, utcDay, lastNotified, notified, check, unpausing, alertFaults,
               active, told, quick, toldToday, failedToday, swept, lockTold>>
world == <<kill, chain, spent, oauth, utcDay, active, quick>>
memo == <<lastNotified, notified, check, unpausing, alertFaults>>
records == <<told, toldToday, failedToday, swept, lockTold>>

Levels == {1, 2}    \* DAILY_ALERT_THRESHOLDS, 0.8 and 1
Rest == [pc |-> "idle", left |-> {}, of |-> 0, day |-> 0]
AlertFault == alertFaults < MaxAlertFaults /\ alertFaults' = alertFaults + 1

-----------------------------------------------------------------------------
(* checkBudgetAlerts; a failure anywhere ends it *)

\* checkDailyBudgetAlert, up to its first await: a new day forgets what was told.
ResetThresholds == notified' = IF notified.day = utcDay THEN notified ELSE [notified EXCEPT !.day = utcDay, !.levels = {}]

\* checkKillSwitchAlert: the flag follows the switch, after the send if there is one.
CheckKillSwitch ==
  /\ check.pc = "idle"
  /\ IF kill = "on" /\ lastNotified.kill = "no"
     THEN /\ check' = [Rest EXCEPT !.pc = "kill", !.of = active, !.day = utcDay]
          /\ UNCHANGED <<lastNotified, notified>>
     ELSE /\ check' = [Rest EXCEPT !.pc = "ratio", !.day = utcDay]
          /\ lastNotified' = [lastNotified EXCEPT !.kill = IF kill = "on" THEN "yes" ELSE "no"]
          /\ ResetThresholds
  /\ UNCHANGED <<world, unpausing, alertFaults, records>>

\* Mutant: the flag is set whether or not the message left.
SendFailsNoted ==
  /\ check.pc \in {"kill", "ratio", "oauth"} /\ AlertFault /\ check' = Rest
  /\ lastNotified' = [lastNotified EXCEPT !.kill = "yes"]
  /\ UNCHANGED <<world, notified, unpausing, records>>

\* A send or a query fails: the rest of the check is for the next one.
CheckFails ==
  /\ check.pc \in {"kill", "ratio", "oauth"} /\ AlertFault /\ check' = Rest
  /\ UNCHANGED <<world, lastNotified, notified, unpausing, records>>

SendKillSwitch ==
  /\ check.pc = "kill"
  /\ check' = [check EXCEPT !.pc = "ratio", !.day = utcDay]
  /\ told' = told \cup {check.of} /\ lastNotified' = [lastNotified EXCEPT !.kill = "yes"]
  /\ ResetThresholds
  /\ UNCHANGED <<world, unpausing, alertFaults, toldToday, failedToday, swept, lockTold>>

\* The thresholds reached and not told.
ToTell == (1 .. spent) \ notified.levels

\* checkDailyBudgetAlert: the ratio, then threshold by threshold, marked before it is sent.
ReadRatio ==
  /\ check.pc = "ratio"
  /\ swept' = IF check.day = utcDay THEN swept \cup ((1 .. spent) \ ToTell) ELSE swept
  /\ check' = [check EXCEPT !.pc = IF ToTell = {} THEN "oauth" ELSE "level", !.left = ToTell]
  /\ UNCHANGED <<world, lastNotified, notified, unpausing, alertFaults, told, toldToday, failedToday, lockTold>>

\* notifiedDailyThresholdsToday.add
MarkTold(l) == [notified EXCEPT !.levels = @ \cup {l}]

Lowest(S) == CHOOSE l \in S : \A k \in S : l <= k

SendThreshold ==
  /\ check.pc = "level"
  /\ LET l == Lowest(check.left) IN
       /\ notified' = MarkTold(l)
       /\ \/ /\ check' = [check EXCEPT !.left = @ \ {l}, !.pc = IF check.left = {l} THEN "oauth" ELSE "level"]
             /\ toldToday' = IF check.day = utcDay THEN [toldToday EXCEPT ![l] = @ + 1] ELSE toldToday
             /\ swept' = IF check.day = utcDay THEN swept \cup {l} ELSE swept
             /\ UNCHANGED <<failedToday, alertFaults>>
          \/ /\ AlertFault /\ check' = Rest
             /\ failedToday' = IF check.day = utcDay THEN failedToday \cup {l} ELSE failedToday
             /\ UNCHANGED <<toldToday, swept>>
  /\ UNCHANGED <<world, lastNotified, unpausing, told, lockTold>>

\* checkOAuthAlert: once a day, marked before it is sent, so a send that fails is not repeated.
CheckOAuth ==
  /\ check.pc = "oauth" /\ check' = Rest
  /\ notified' = IF oauth = "due" THEN [notified EXCEPT !.oauthDay = utcDay] ELSE notified
  /\ UNCHANGED <<world, lastNotified, unpausing, alertFaults, records>>

-----------------------------------------------------------------------------
\* checkAuditIntegrityAlert: the same, the flag after the send.
CheckAuditIntegrity ==
  /\ \/ /\ lastNotified' = [lastNotified EXCEPT !.chain = IF chain = "locked" THEN "yes" ELSE "no"]
        /\ lockTold' = IF chain = "locked" THEN "yes" ELSE lockTold
        /\ UNCHANGED alertFaults
     \/ /\ chain = "locked" /\ lastNotified.chain = "no" /\ AlertFault
        /\ UNCHANGED <<lastNotified, lockTold>>
  /\ UNCHANGED <<world, notified, check, unpausing, told, toldToday, failedToday, swept>>

\* /unpause: the switch, then the audit row, then the flag; a row that is not written (the
\* log may be locked) leaves the flag.
Unpause ==
  /\ kill = "on" /\ unpausing = "no" /\ unpausing' = "yes" /\ kill' = "off"
  /\ UNCHANGED <<chain, spent, oauth, utcDay, active, quick, lastNotified, notified, check, alertFaults, records>>

RecordUnpause ==
  /\ unpausing = "yes" /\ unpausing' = "no"
  /\ \/ /\ chain = "open" /\ lastNotified' = [lastNotified EXCEPT !.kill = "no"] /\ UNCHANGED alertFaults
     \/ /\ chain = "locked" /\ UNCHANGED <<lastNotified, alertFaults>>
     \/ /\ AlertFault /\ UNCHANGED lastNotified
  /\ UNCHANGED <<world, notified, check, records>>

\* /google-oauth-refreshed
OAuthRefreshed ==
  /\ oauth = "due" /\ oauth' = "fresh"
  /\ UNCHANGED <<kill, chain, spent, utcDay, active, quick, memo, records>>

-----------------------------------------------------------------------------
(* What happens around the bot *)

Activate ==
  /\ kill = "off" /\ active < MaxActivations /\ kill' = "on" /\ active' = active + 1
  /\ quick' = IF lastNotified.kill = "yes" \/ check.pc = "kill" THEN quick \cup {active + 1} ELSE quick
  /\ UNCHANGED <<chain, spent, oauth, utcDay, memo, records>>

UnpauseElsewhere ==
  /\ kill = "on" /\ kill' = "off"
  /\ UNCHANGED <<chain, spent, oauth, utcDay, active, quick, memo, records>>

LockChain ==
  /\ chain = "open" /\ chain' = "locked"
  /\ UNCHANGED <<kill, spent, oauth, utcDay, active, quick, memo, records>>

Spend ==
  /\ spent < 2 /\ spent' = spent + 1
  /\ UNCHANGED <<kill, chain, oauth, utcDay, active, quick, memo, records>>

\* The budget starts anew at the owner's midnight, the thresholds at UTC's.
LocalMidnight ==
  /\ spent > 0 /\ spent' = 0
  /\ UNCHANGED <<kill, chain, oauth, utcDay, active, quick, memo, records>>

UtcMidnight ==
  /\ utcDay < MaxDays /\ utcDay' = utcDay + 1 /\ oauth' \in {oauth, "due"}
  /\ toldToday' = [l \in Levels |-> 0] /\ failedToday' = {} /\ swept' = {}
  /\ UNCHANGED <<kill, chain, spent, active, quick, lastNotified, notified, check, unpausing, alertFaults,
                 told, lockTold>>

\* The process dies: what it told is forgotten, and told again.
AlertCrash ==
  /\ AlertFault /\ check' = Rest /\ unpausing' = "no"
  /\ lastNotified' = [kill |-> "no", chain |-> "no"] /\ notified' = [levels |-> {}, day |-> 0, oauthDay |-> 0]
  /\ UNCHANGED <<world, records>>

-----------------------------------------------------------------------------
AlertInit ==
  /\ kill = "off" /\ chain = "open" /\ spent = 0 /\ oauth = "fresh" /\ utcDay = 1
  /\ lastNotified = [kill |-> "no", chain |-> "no"] /\ notified = [levels |-> {}, day |-> 0, oauthDay |-> 0]
  /\ check = Rest /\ unpausing = "no" /\ alertFaults = 0
  /\ active = 0 /\ told = {} /\ quick = {}
  /\ toldToday = [l \in Levels |-> 0] /\ failedToday = {} /\ swept = {} /\ lockTold = "no"

AlertNext ==
  \/ CheckKillSwitch \/ SendKillSwitch \/ ReadRatio \/ SendThreshold \/ CheckOAuth \/ CheckFails
  \/ CheckAuditIntegrity \/ Unpause \/ RecordUnpause \/ OAuthRefreshed
  \/ Activate \/ UnpauseElsewhere \/ LockChain \/ Spend \/ LocalMidnight \/ UtcMidnight \/ AlertCrash

AlertSpec == AlertInit /\ [][AlertNext]_alertVars

-----------------------------------------------------------------------------
\* Types of the flags, the check and the records.
AlertTypeOK ==
  /\ kill \in {"off", "on"} /\ chain \in {"open", "locked"} /\ spent \in 0 .. 2 /\ oauth \in {"fresh", "due"}
  /\ lastNotified \in [kill : {"no", "yes"}, chain : {"no", "yes"}]
  /\ notified \in [levels : SUBSET Levels, day : 0 .. MaxDays, oauthDay : 0 .. MaxDays]
  /\ check \in [pc : {"idle", "kill", "ratio", "level", "oauth"}, left : SUBSET Levels, of : 0 .. MaxActivations, day : 0 .. MaxDays]
  /\ check.pc = "level" <=> check.left # {}
  /\ unpausing \in {"no", "yes"} /\ told \subseteq 1 .. active /\ swept \subseteq Levels /\ lockTold \in {"no", "yes"}

\* What the bot holds for told was told, whatever failed or died: an activation of the kill
\* switch, unless the switch went off and on again before the bot noticed, and the lock of
\* the audit log, which nobody lifts.
AlarmsTold ==
  /\ kill = "on" /\ lastNotified.kill = "yes" /\ active \notin quick => active \in told
  /\ lastNotified.chain = "yes" => lockTold = "yes"

\* Every threshold a check found reached and was through with was told that day, or its
\* send failed; and none is told twice in a day by one process.
ThresholdsTold ==
  /\ \A l \in swept : toldToday[l] > 0 \/ l \in failedToday
  /\ \A l \in Levels : toldToday[l] <= 1 + alertFaults

\* What the owner is told by the crons: every alarm and every threshold the bot holds for told.
AlertInv == AlertTypeOK /\ AlarmsTold /\ ThresholdsTold
=============================================================================
