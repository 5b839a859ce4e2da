# Jin_Core in TLA+

Jin_Core is a personal assistant backend (NestJS, Postgres, Redis). A language
model proposes tool calls; a human-in-the-loop gate decides which of them run at
once and which wait for the owner; every decision goes to a hash-chained audit
log; a budget and a kill switch bound what the model may spend; an orchestrator
splits large objectives over parallel sub-agents. This directory holds TLA+
models of the parts where a mistake would be expensive and hard to test: the
parts where several calls, a cron job and a crash meet over one row, one
session, one queue or one copy in memory.

Paths below are relative to `src/src/`.

## 1. Inventory

| Component | State | Operations | Hard because |
|---|---|---|---|
| Human approval cycle (`hitl/dual-confirm`, `hitl/approval-execution`, `hitl/tool-executor.registry`) | `pending_approvals`: `first_approved_at`, `available_at`, `escalated_at`, `executing_at` (the claim) | `createPendingApproval`, `resolveAndExecute`, `resolveRejection` | owner clicks twice, approves and rejects from two channels; each `await` is a gap; audit or executor may fail; process may die with the claim |
| Approval timeouts (`hitl/timeout`) | none of its own: a snapshot of the table | hourly `sweep` | decides from a snapshot, competes for the claim, one bad row aborts the sweep |
| Audit log (`audit/`) | `audit_log` (prev/current hash), `audit_chain_lock` | `appendRow`, `verifyDaily`, `unlock` | two replicas append at once; the lock is read outside the transaction |
| Autonomy modes (`autonomy/`) | `autonomy_mode_state`: mode, expiry, counter, window | `relax`, `requestModeChange`, `applyApprovedChange`, `expireIfNeeded` | mode and clock read before an await and used after it; brake counts concurrent calls |
| Level classification (`hitl/classifier`, `hitl-policy`, `feature-flags`) | YAML in memory, rows of overrides | `decide`, `reload`, `applyApprovedOverride` | two reloads overlap; a lowering is approved late; the restart does not reconcile |
| Orchestrator (`agent/orchestrator.*`, `agent/ledger.repository`, `agent/reconciliation`, `agent/ticket-decomposition`) | runs, tickets, comments | `runObjective`, `runSubAgentForTicket`, `applyReconciliation` | parallel sub-agents, dependencies invented by a model, first rejection wins, kill switch mid-run |
| Agent loop (`agent/agent.service`, history compaction) | the conversation of a turn, the history of the client | `runTurn`, `compact` | every tool call needs one result on every error path; compaction cuts a conversation; failures repeat |
| Budget and kill switch (`budget/`) | usage by day, hour and session, `budget_kill_switch`, announced thresholds | checks, `recordUsage`, `checkRunaway`, `unpause` | check, call, record is not atomic; UTC and local days |
| Model routing and failover (`model-provider/`) | a stored preference and its copy | `complete`, `stream`, `setPreference` | a stream that already emitted must not be retried; copy and row |
| Owner terminal (`terminal/`) | PTY sessions and sockets, the input gate, projects at the executor | open, resume, write, close, project operations | timers racing close and open, a line audited before it runs, lost answers |
| Relay (`relay/`) | messages out and in, quota | `send`, taps, citations, `inbox` | count then insert, send then attach, updates that come twice |
| Push (`push/`) | devices, tokens of activities | broadcasts, `onRunChanged` | handlers of later events overtake earlier ones, tokens die in a broadcast |
| Telegram bot (`telegram/`) | sessions with transcripts, flags of what was told | text turns, `/endsession`, crons | a transcript is read before a turn and written whole after it |
| Memory (`memory/`) | entries and vectors in SQLite | `consolidate`, `remember`, `recall` | one entry after another with an await each, two tables |
| Previews (`executor-client/`) | values of an environment, in memory | publish, approve, expire | values wait for an approval that may come late, twice or after a restart |
| Nightly report (`integrations/canvas`) | `shadowing_runs` | report at midnight, alert at six | the row that is there may be yesterday's |
| Project snapshots (`project-snapshots/`) | rows with a limit | create, get, delete | count then insert, act then audit |
| Chat and realtime gateways, integrations, MCP, rate limit, auth, text filters, configuration | see `PROJECT.json` | | I/O, text, or one atomic step |

How they interact: the agent loop and the orchestrator ask the policy for a
level (registry, then flag, then Autonomy); a call above `notify` becomes a row
of `pending_approvals`; the owner resolves it over HTTP or Telegram;
`ApprovalExecutionService` runs the registered executor, among them
`applyApprovedChange` of Autonomy, `applyApprovedOverride` of the flags,
`resolveAgentConflict` of the orchestrator and the previews' start.
All of them append to the audit log, which may refuse (it fails closed when the
chain is locked), so an audit append is an operation that can fail in every
other module. Model calls go through the guarded router, which throws
`KillSwitchActiveError` while the kill switch is on. Telegram, push and the
relay carry what happened to the owner and the owner's answers back.

What makes each part correct: an approved action happens at most once and never
without its audit row, its delay and its owner; a request always ends or is
reported; the chain never forks and a broken one is noticed; protection is
lowered only by a dual approval and always comes back; a run delivers
dependencies, works on each ticket once, ends, and says the truth about how;
spending passes a limit only by the calls in flight, and a pause stops all others;
a conversation stays acceptable to every vendor and forgets no turn; a line of
the terminal is audited before it runs and no session stays open unattended; a
question, an answer, a notice, an alarm or a value of an environment reaches its
destination, once.

## 2. Modules

| Module | Models | State and actions |
|---|---|---|
| `Approvals` | approval cycle and sweep | the row's columns, the audit rows by status, one control record per owner call and one for the sweep; one action per statement, audit append and executor call |
| `OneShot` | abstract specification | a request is opened once, is in one pair of hands at a time, succeeds at most once |
| `Approvals_proofs` | proofs about `Approvals` | |
| `AuditLog` | `appendRow`, `verifyDaily`, the lock | the chain as a sequence of rows with `Hash` an uninterpreted operator, the advisory lock, appends in flight |
| `Autonomy` | `AutonomyService` | the single row, calls with the clock and mode they read, the expiry cron |
| `Orchestrator` | `runObjective` over the ledger | run, tickets, comments, the loop's copy of the tickets, one control state per sub-agent, the kill switch |
| `Budget` | ledgers, kill switch, thresholds | usage by day, hour and session, the pause, what was announced; the hourly clock with a local and a UTC midnight |
| `ModelCalls` (extends `Budget`) | the guarded router, the failover | per call: the checks, up to three attempts, the recording in three ledgers |
| `AgentLoop` | `AgentService.runTurn`, history compaction, what vendors accept | the conversation as messages with call ids, counters of failures, the plan, the pending approvals of an answer |
| `HitlPolicy` | `HitlPolicyService`, `FeatureFlagsService` | file, memory and rows of overrides, reloads in progress, a decision in progress |
| `Memory` | `MemoryService`, `MemoryStore`, `ConsolidationService` | entries, vectors, consolidations in progress; `QueryKnn` as an operator |
| `PtyInput` | `PtyInputGate`, the input chain | gate, queue of chunks, the shell's own line editing (external) |
| `PtySessions` | `TerminalPtyService`, `TerminalGateway` | sockets, calls of `pty:open`, sessions with their timers, ring, pump and listener |
| `OwnerTerminal` | `TerminalController`, `OwnerTerminalService` | a project at the executor and overlapping requests about it |
| `Relay` | `RelayService`, `RelayStore`, `RelayBotService` | sends, rows out and in, the chat, the updates Telegram holds |
| `Push` | `PushService`'s notices, `PushStore`, `ApnsClient` | devices, broadcasts, what phones show |
| `LiveActivity` | `PushService.onRunChanged` | the run and its announced changes, handlers with what they read, tokens, the phone |
| `TelegramSessions` | the bot's conversation | sessions, turns and closings in progress, what memory holds |
| `TelegramAlerts` | the bot's crons | what is on, what was told, the check in progress |
| `Previews` | publishing with values | calls, the vault, approvals, pods |
| `Nightly` | `ShadowingService`, `MorningAlertService` | the rows, the run and the alert, a clock of six hours |
| `ChatPreference` | `ChatModelPreferenceService` | the row, the copy, requests in progress |
| `Snapshots` | `ProjectSnapshotsService` | the rows, calls in progress, the audit rows |
| `Governance_proofs` | proofs about `AuditLog` and `Autonomy` | |
| `Orchestrator_proofs`, `ModelCalls_proofs` | proofs about `Orchestrator`; `ModelCalls` with `Budget` | |
| `Agent_proofs` | proofs about `HitlPolicy` and `AgentLoop` | |
| `Terminal_proofs` | proofs about `OwnerTerminal`, `PtySessions` and `PtyInput` | |
| `Services_proofs` | proofs about `ChatPreference`, `Snapshots`, `Previews`, `Nightly`, `TelegramAlerts`, `TelegramSessions` | |
| `Channels_proofs` | proofs about `Push`, `Relay` and `LiveActivity` | |
| `MC*` | instances for TLC | |

Conventions. A definition keeps the name of the code. A control state is the
statement the call performs next, so a call that is at `claim` has passed
everything before it. A call that dies (killed process, statement outside every
`try`) stops where it is and leaves the database as it is. `history` variables
record what the properties speak of; no guard depends on them. Definitions marked `Mutant` are wrong variants of
the definition after them; the matching entry of `PROJECT.json` names the
property each of them breaks.

Where two modules meet, the one that is not the subject is reduced to what the
other sees of it and the comment says so: Autonomy, the previews and the terminal take an
approval as granted or not at any time, `Orchestrator` and `TelegramAlerts` take
the kill switch as a switch that turns at any time, and `LiveActivity` takes the run as the
changes it announces. `ModelCalls` is composed with `Budget`.

### Approvals

`resolveAndExecute` is `Approve` (the row is read), `RecordApproval` (with
`ArmFirstApproval` for the first of two approvals), `ClaimApproved`,
`AuditApproval`, `Execute`, `ExecutorReturns` or `ExecutorThrows`, then
`RemoveExecuted`, or `ReleaseAfterFailure` and `AuditFailure`.
`resolveRejection` is `ClaimRejected`, `AuditRejection`, `RemoveRejected`, or
`AuditStuckRejection` and `RemoveStuck` for a claim older than
`STUCK_CLAIM_AFTER_MS`. The sweep reads its snapshot in `SweepStart` and takes one row
after another. Times are small numbers in the same order as in the code: delay,
warning, time to live. The number of approvals, rejections and retries is not
bounded, only the clock and the number of faults are.

### AuditLog

`CheckLock` (outside the transaction), `Acquire` (the advisory lock),
`ReadLast`, `InsertRow` (insert and commit). `Hash` is a parameter; the runs give
it the list of everything that went in, a hash without collisions.
`Corrupt` changes stored content and is external.

### Autonomy

Every call first reads the clock and then the row (`GetState`), decides, and
writes later (`EnterWrite`, `AuditFirst`, `UpdateState`). `UpdateState` has no
condition on the row it replaces, like the code. An approved change is claimed
and resolved as in `Approvals`; only its result is kept here.

### Orchestrator

One behaviour is one run. The decomposition is any set of tickets with any
dependencies: cyclic ones, self-dependencies and indexes that name no ticket. The
reconciliation reports at most one conflict of any risk between any tickets, or
between none, which its schema allows. `Promise.all` ends at the first rejection
(`Rejects`) while the other sub-agents go on. A turn of a sub-agent is one step
that may end with or without approvals, fail, or meet the kill switch; the budget
behind the switch is not modelled, the switch just goes on and off.

### ModelCalls and Budget

A call is checked (`CheckKill`, `CheckDaily`, the session's limit), attempts
its models, and records what the provider answered in session, day and hour, with
a database fault possible between any two. The clock is an hour counter;
`DayHours` and `UtcShift` put the local midnight, by which usage is counted, and
the UTC midnight, by which announced thresholds are reset, at different hours.

### AgentLoop, HitlPolicy and Memory

A message of `AgentLoop` keeps only its role, the turns a text tells of, and the ids of the calls it asks
for or answers; `AnthropicAccepts`, `OpenAIAccepts` and `GeminiAccepts` are what
the adapters make of a conversation and what the vendors' APIs demand of it.
`HitlPolicy` keeps the three places where an override lives: file, memory, row.
In `Memory` an embedding is a point of a line, as only distances are compared; rows at the same distance,
which the query leaves in no order, are ranked by their ids, and no property tells them apart.

### The terminal

`PtyInput` runs the gate's copy of the line beside the shell's. `PtySessions`
numbers the calls of `pty:open`; each await of `open`, `resume`, `close`, the
pump and the gateway's handlers is a gap. `OwnerTerminal` has one action per step
of a request: check, audit or approval, executor call, lost answer.

### Channels and services

`Relay`, `Push`, `LiveActivity`, `TelegramSessions`, `TelegramAlerts`,
`Previews`, `Nightly`, `ChatPreference` and `Snapshots` have the same form: the
rows, the copies in memory, one control record per overlapping call, and a
bounded number of faults, each of which ends a call where it is.

## 3. Runs

| Run | Asks | Bounds |
|---|---|---|
| `approvals` | does the second approval wait, is the owner warned once, is the claim a lock, does the action succeed once, always after its audit row, never after a timeout or a dead claim; does the cycle implement `OneShot`; is `SafetyInv` true | 1 dual-confirm request that escalates, 2 calls that approve, reject and retry without limit, 2 faults |
| `approvals_live` | is every request resolved or left to the owner, is a dead claim reported | 1 request, 2 calls, 1 fault |
| `approvals_fresh`, `approvals_midrun` | statements the code does not keep, see 5 | as above |
| `governance` | log: does the chain break exactly where rows went bad, are alarms real, how many rows reach a locked chain, is a broken chain locked; modes: do they expire within their limits, does `auto` need an approval, are approved changes audited, does the brake count, who still relaxes after it, does an expired mode leave the table | 3 appends at once, 3 rows, 2 corrupted; 2 calls and the cron, 1 change request, hours asked below and above the range, brake after 1, 1 fault |
| `orchestrator` | are dependencies done and shown, is each ticket tried once, is the concurrency bounded, does a done ticket have its result, is the final status true for good, is a stop told, does a conflict reach the owner, does the run end | up to 3 tickets, any dependencies, 2 sub-agents at once |
| `model_calls` | is overshoot bounded by the calls in flight, do the ledgers count each answer once, what does a pause let through, does a stream mix two attempts, is a crossed threshold announced within its day | 2 calls, 2 models, 1 session, days of 2 hours with UTC 1 ahead, limits of 1 and 2, 1 fault |
| `agent` | does every conversation suit the three vendors, does compaction keep every turn, are repeated failures capped, are pending approvals listed; does a level go below the registry's only if granted, is a hardened tool never relaxed, does a reload take effect; is memory whole, in order and recalled by distance | 4 turns of 2 iterations with 2 calls, history of 3; 2 tools, 2 edits, 2 reloads; 2 consolidations of 2 entries, 3 points |
| `terminal` | is a line audited before it runs; one session at a time, a timer on every unattended one, closed once, the app up to date; nothing done unaudited or opened unapproved | 5 keys in chunks of 2 and lines of 2; 2 sockets, 3 openings, 1 restart; 3 requests, 1 fault |
| `terminal_gate` | a statement the code does not keep, see 5 | the same with Ctrl+W and blanks |
| `channels` | does the quota hold, does a tap find its question and answer first, is a citation kept, is an instruction taken once; is a notice tried on every device it is due to, once per approval | 2 sends, 2 inbound; 2 devices, 2 notices, 3 registrations; 1 fault each |
| `services` | is no exchange forgotten, is there one conversation, does the window keep the recalled memories; are alarms and thresholds told; are values given once, to their pod, and gone after a failure; does the morning tell the truth and never stay silent; is the copy the row; is the snapshot limit passed only by overlap, does the log tell what happened; does the live activity start once, show the end, and say done only when done | 4 texts, sessions of 3, 2 at once, 1 fault; 2 activations, 2 days; 3 publishes, 2 vault entries; 3 nights; 2 preference requests; 2 snapshot calls, limit 1, 3 rows; 1 ticket, 2 handlers, 2 rotations, 1 fault |

The invariants named `...Inv` are conjunctions of named parts, one for each concern of a
component; the parts carry the comments that say what each of them means:

| Invariant | Parts besides the types |
|---|---|
| `SafetyInv` (`Approvals`) | the inductive invariant of section 4: `AtMostOneHolder`, `HoldersTake`, `DoneSealed`, `DeadSealed`, `TimeoutSealed`, `RunCovered`, `WaitOver`, `WarnedOnce` |
| `ChainLockInv` (`AuditLog`) | `AlarmIsReal`, `LateRowsInFlight` |
| `AutonomyInv` | `RelaxedModeExpires`, `AutoNeedsApproval`, `ApprovedChangesAudited`, `BrakeHolds`, `StaleRelaxationsInFlight` |
| `LedgerInv`, `ClosingInv` (`Orchestrator`) | `OneAttempt`, `ConcurrencyBound`, `DoneHasResult`; `FinalStatusSound`, `StopIsTold`, `ConflictReachesOwner` |
| `SpendInv` (`ModelCalls`) | `DailyOvershootBounded`, `SessionOvershootBounded` |
| `TurnInv` (`AgentLoop`), `PolicyInv`, `MemoryInv` | `FailureCapHolds`, `PendingListed`; `LoweringIsGranted`, `HardenedNotRelaxed`, `ReloadTakesEffect`; `EntriesHaveVectors`, `StoredInOrder`, `RecallIsNearest` |
| `InputInv`, `SessionsInv`, `OpsInv` (terminal) | `LineAuditedFirst`; `OneSession`, `UnattendedIsTimed`, `DeadListenerRaced`, `ClosedOnce`, `AppUpToDate`; `NothingUnaudited`, `OnlyApprovedIsOpen` |
| `RelayInv`, `PushInv`, `ActivityInv` | `QuotaHolds`, `TapFindsQuestion`, `TapAnswersFirst`, `CitationKept`, `TakenOnce`; `DueIsTried`, `OneNoticePerApproval`; `EndIsShown`, `DoneMeansDone`, `StartedOnce` |
| `ChatInv`, `AlertInv` (Telegram) | `NothingForgotten`, `OneConversation`, `WindowKeepsMemory`; `AlarmsTold`, `ThresholdsTold` |
| `PreviewInv`, `NightInv`, `PreferenceInv`, `SnapshotInv` | `ValuesGivenOnce`, `PodHasItsValues`, `FailureLeavesNothing`; `MorningTellsTheTruth`, `NoSilentMorning`; `CopyIsStored`, `EffortIsTaken`; `SnapshotsBounded`, `LogTellsSnapshots` |

Beside them the runs check `ChainBreaksOnlyWhereCorrupted`,
`DependenciesDelivered`, `LedgersTrackSpend`, `PauseStopsCalls`, `OneVoice`,
`ConversationAccepted`, `RecentTurnsVerbatim` and the approval cycle's
`ExecutedOnce`, `AuditedBeforeRun`, `SecondApprovalWaited`, `TimeoutFinal`; the action properties
`DeadClaimNeverRuns` and `AlertedDuringDay`; the refinement `ImplementsOneShot`;
and what must happen: `EventuallyResolved`, `StuckIsReported`, `BrokenChainIsLocked`,
`ExpiredModeReverts`, `RunEnds`.

Components that share no variables are checked in one run: a variable `part` of
the MC module, chosen in the initial state, says which of them steps, and the
others keep their initial state. The states are the sum, not the product, of the
components' states, and nothing is lost, as no property relates two of them.
Where a component is large its behaviours are split in the same way: `MCModelCalls` has a `focus`, two calls in flight over one
midnight, or one at a time over both; the Telegram conversation has four texts in
sequence or three that overlap; the terminal's sessions three openings, or two
and a restart; the live activity two tokens, or one and a fault.

Why these bounds are enough to be interesting. Requests do not interact except
through the sweep's order and the log, so one request with two unlimited calls
and the sweep already gives three parties for one claim: holder, challenger and
the one that releases. Two faults allow a failure, a retry and a second failure
or a crash in it. Three appends give a holder of the advisory lock, a waiter and
a late one. Two autonomy calls and the cron give a reader with a stale mode, a
writer and an expiry. Three tickets give a chain, a diamond's half, a cycle and a
chunk of two with one left over. Four turns over a history of three compact
twice, the second time over a summary. Five keys make an edited line, an Enter
and a start of the next; three openings make a session, one that replaces it and
one that resumes. Four texts fill a session of three and start the next with
recalled memories. In the other components two overlapping calls, one fault and
one restart show each pair of steps in each order. For safety the
theorems of section 4 remove the bounds altogether.

Deadlock is checked in the runs of `approvals`, `governance` and `model_calls`.
It is not in the others: a behaviour of `Orchestrator` is one run, which stops
when it has ended (`RunEnds` says that it gets there), and in the rest keys, turns, sends
and requests are bounded, so that behaviours come to rest.

Symmetry of interchangeable calls, sockets, devices and handlers is used in
`approvals`, `model_calls`, `agent`, `terminal`, `channels` and `services`, which check safety and a
refinement without liveness; no property names one of them.

### Fairness

`Approvals`: a call that has started takes its next step and the sweep is started again and again and
takes its steps: awaited statements return, the cron fires every hour, time
passes. The owner is never obliged to act. `AuditLog`: the daily cron fires and
finishes; appends owe nothing. `Autonomy`: the expiry cron fires every minute and
finishes. `Orchestrator`: every promise settles, as model calls have timeouts and
a turn has at most `maxIterations` of them; kill switch, owner and crashes owe
nothing. Fairness is weak everywhere: nothing in the code gives an action a turn
that keeps being disabled. The other modules are checked for safety only; what
must happen in them is stated as an invariant of the states in which nothing
is in progress, or as an action property of the step that ends a period.

## 4. Proofs

Every safety property of the passing runs is also a theorem. Each theorem holds for every value of
the constants that the named assumptions admit: any number of requests, calls,
processes, devices or turns, any limits, and faults at any of the places
the model has them, where a run checks two or three of each. The form is the same throughout: an
inductive invariant (`...Safety` proves `Spec => []IInv`, one lemma per action), and the
property from it. Of the inductive invariants `SafetyInv`
is checked by a run as well; the others, which mostly speak of sets too large for TLC, are in no run.

| Theorem | States | Inductive invariant |
|---|---|---|
| `LockIsJustified`, `BreaksExactlyWhereCorrupted` | `ChainLockInv`, `ChainBreaksOnlyWhereCorrupted` | `ChainInv` |
| `ModesAreSafe` | `AutonomyInv` | `ModesInv` |
| `LedgerIsSound`, `DependenciesComeFirst`, `ClosingIsTrue` | `LedgerInv`, `DependenciesDelivered`, `ClosingInv` | `RunInv` |
| `LedgersAreNeverAhead` | `LedgersTrackSpend` | `LedgersSafe` |
| `SpendIsBounded`, `PauseIsBounded`, `OneVoiceIsHeard`, `AlertsAreGiven` | `SpendInv`, `PauseStopsCalls`, `OneVoice`, the action property `AlertedDuringDay` | `CallsInv` |
| `LevelsAreGoverned` | `PolicyInv` | `FlagsInv` |
| `TurnsAreSound`, `TurnsAreRemembered`, `ConversationsAreAccepted` | `TurnInv`, `RecentTurnsVerbatim`, `ConversationAccepted` | `LoopSafe` |
| `MemoryIsSound`, `RecallIsComplete` | `MemoryInv`; its last part for every query and number of neighbours | `MemorySafe` |
| `OpsAreAccountable` | `OpsInv` | `OpsSafe` |
| `SessionsAreSound` | `SessionsInv` | `SessionsSafe` |
| `LinesAreAudited` | `InputInv` | `InputSafe` |
| `PreferenceIsStored`, `SnapshotsAreSound`, `PreviewsAreSound` | `PreferenceInv`, `SnapshotInv`, `PreviewInv` | `PreferenceSafe`, `SnapshotSafe`, `PreviewSafe` |
| `MorningsAreTrue`, `AlertsAreTold`, `ConversationIsKept` | `NightInv`, `AlertInv`, `ChatInv` | `NightSafe`, `AlertSafe`, `ChatSafe` |
| `NoticesReachTheirDevices`, `BridgeIsSound`, `ActivityIsTrue` | `PushInv`, `RelayInv`, `ActivityInv` | `PushSafe`, `RelaySafe`, `ActivitySafe` |

### The approval cycle

`Approvals_proofs` proves, for every set of requests and calls, every
level and timeout behaviour, every delay and every number of faults:

- `TypeCorrect`, `HolderUnique`, `ExecutesOnce`, `RunsAreAudited`, `SecondWaits`,
  `TimeoutsAreFinal`, `WarnsOnce`: the safety properties of the runs and parts of `SafetyInv`, which `Safety` proves;
- `DeadNeverRuns`: the action property;
- `Refinement`: `Approvals` implements `OneShot`.

Assumptions: those of `Approvals` (there is a request, levels and behaviours have
their types, times are naturals, `Null` is no time), nothing else.

The argument. `ExecutedOnce` is not inductive: one has to know why nobody else
can get to the executor after a success. `SafetyInv` says it through the claim.
`HoldersTake`: whoever holds a request has taken it, so `claimForExecution` fails
for everybody else; with `AtMostOneHolder` the claim is a lock. It stays one
although a rejection may delete a stuck row from under its holder, because a deleted row
cannot be claimed either. `DoneSealed`, `DeadSealed` and `TimeoutSealed` are the
three ways a claim becomes final: the action succeeded, its holder died, or the
log says it timed out; in each the request stays taken and the only hand left is
the one that deletes it. `RunCovered` counts: a call that is about to execute has an
`approved` row that no run has used yet. `WaitOver` starts the dual-confirm delay
where the call read the clock, `WarningsRecorded` ties the warning to
`escalated_at` in the row and in the sweep's snapshot.

The step from `SafetyInv` to `SafetyInv'` does not repeat forty actions for every
conjunct. `StepShape` shows once that each action is, for a given request, one of
a few shapes (nothing changes hands, somebody claims a free row, the holder
releases it, the row is deleted, the row is inserted), and lemmas such as `DoneChanges`, `RunsChanges`,
`AuditChanges` name the only actions that touch a variable; the conjuncts are
then proved from the shapes.

### The other arguments

- `AuditLog`. That every row links to the one before is not inductive: an append
  links to the row it read. `AdvisoryHeld` (whoever is between `Acquire` and the
  commit holds the lock) and `PrevIsLast` (what the holder read is still the last row)
  carry it. `BreaksExactlyWhereCorrupted` assumes `CollisionFree`, that `Hash` has no
  collisions, as the code relies on for SHA-256; the other two take any `Hash`.
- `Autonomy`. The brake counts in one statement, the mode is written in
  another: `CounterCovers` relates the counter to the relaxations already made,
  `AuditsCover` and `WritersOK` say what a call about to write has behind it.
- `Orchestrator`. The loop decides from a copy of the ledger. `TicketsOK` and `QueueOK` say how
  far the copy may lag, ticket by ticket; `PhaseOK` bounds who works by the chunk.
- `ModelCalls`. A bound on spending needs the calls that were let through and have not
  recorded: `DayHasRoom` and `SessionsHaveRoom` keep usage plus what the
  calls in flight may still record below limit plus one spending per call,
  `PauseCounts` does the same with the attempts left to each call.
  For the ledgers the tokens of the calls between two of them are numbered and put in one
  set, `InFlight`: a step moves the tokens of one call into it or out of it, so that the sum over
  the calls is a cardinality and needs no induction. The totals over days and hours are
  a recursive function; that it is defined, and that a row added to moves the total by as much, is shown by a
  smallest counterexample. `LedgersBehind` then says that what a ledger lacks is in flight or
  was hit by a fault, at most `CallMax` per call and fault.
- `HitlPolicy`. `DecisionOK` keeps what a decision in progress has read true of
  some moment since it began; `ReloadProgress` says what a lone reload has worked off.
- `AgentLoop`. `TalkOK` describes a conversation as rounds: a message that
  asks is followed by the one that answers its ids, and every text is plain. That
  description survives an append, a failed turn and a cut at the start of a turn, and implies
  what each vendor demands. `Told` follows every answered turn through the compactions;
  the smallest start with at most `PreserveLast` starts behind it is found by well-founded
  minimality, and the shift of the starts behind the summary by a bijection of index sets.
- `Memory`. `JobsAtWork` keeps a call that embeds below the end of its list; with it the next row a call
  stores is the next candidate of its own list, wherever the rows of others fall. The rank of a row is the
  number of rows ahead of it, which is a bijection of the rows onto 1 to their number
  (`InOrderLists`); the filter and the cut keep the order (`FilteredLists`, `SliceTakes`), so
  `RecallFinds` holds for every query, kind, session and number of neighbours.
- `PtySessions`. `KeyInv` says who holds the workspace's key, `ListenInv` names for
  every listener the call or socket that accounts for it, `SessionOK` relates the
  output a listener has to the ring and the output so far.
- `PtyInput`. Gate and shell are two programs that read the same bytes, one of them later. `InStep`
  says how far apart they are: the steps still to be sent `Leads` from where the shell is
  to where the gate is, and only the last byte of a step is an Enter. `ShellFollows`
  compares the two byte by byte. What `feed` and the shell make of a
  chunk are recursive functions; that they are defined, and what holds after each byte, is
  shown by a smallest counterexample. The theorem supposes that Ctrl+W is not among
  the keys: with it the statement is false (section 5).
- `OwnerTerminal`. `Cleared`: a request that may still reach the executor has its audit row
  or approval; `ProjectOK`: so has everything the project shows.
- `Snapshots`, `Relay`: the limit is exceeded by no more than the calls between count
  and insert; `RoomIsShared` and `QuotaOK` count them.
- `Previews`: `RequestsOK` and `PodsOK` follow a call's values from the vault to its pod.
- `Push`, `LiveActivity`: what a handler has still to do (`CastsOK`, `HandlersOK`,
  `EndIsUnderWay`) covers what the phones do not show yet.
- `TelegramSessions`: `AloneOK` and `KeptOK` say where the exchanges of a turn that
  no other overlaps are; `TelegramAlerts` and `Nightly`: what was held for told belongs to its day or night.

### Assumptions

Those named in the modules, which TLC evaluates in the runs: bounds and limits are naturals, and at least 1
where the configuration's schema demands it; sets of calls, tickets or processes whose
members are counted are finite; sets that must not be empty are not; a sentinel
(`Null`, `None`) is none of the values it stands beside; `Notices \subseteq Events`; the
UTC shift is less than a day. The only further hypotheses are
`CollisionFree` and, for `InputSafety` and `LinesAreAudited`, a keyboard without Ctrl+W.

### Only model-checked

Liveness: `EventuallyResolved`, `StuckIsReported`, `BrokenChainIsLocked`,
`ExpiredModeReverts`, `RunEnds`. Fairness and `ENABLED` are outside the prover's reach.

## 5. What disagrees with the comments

Each of these is a run that TLC refutes with a short behaviour.

- `FreshApproval`: after an executor fails "exige una nueva aprobación humana"
  (`hitl/approval-execution.service.ts:38`). A second approval given before the
  failure, waiting at the claim, executes after it.
- `NoRejectionMidRun`: "un rechazo no puede llegar a mitad de la acción"
  (`hitl/dual-confirm.service.ts:273`). `isStuck` comes from an older read, and the
  answer of `removeIfNotExecuting` is dropped: the log says rejected while the action runs.
- `EveryLineAudited`: the gate rebuilds the line "para poder auditarla antes de
  que el Enter llegue al shell", Ctrl+W included (`terminal/pty-input-gate.ts:28`).
  Its Ctrl+W drops the blanks before a word, which the shell keeps: the audited line is not
  the one that runs.

Seen while modelling and stated without a run. The properties of the runs are
worded so that they hold beside these.

Approvals and log
- A pending row is visible before its audit row and survives a failed append
  (`hitl/dual-confirm.service.ts:116`, against `:128`).
- Rows still reach a locked chain, one per append in flight (`LateRowsInFlight`
  is the bound that holds).
- A downgrade decided on a mode that has expired since is written without
  approval (`autonomy/autonomy.service.ts:180`, against `:90`). The brake's window is
  fixed, so a burst over its border gets up to twice the hourly number.

Orchestrator
- The kill switch during decomposition or reconciliation leaves the run
  `running` (`agent/orchestrator.service.ts:73,95`, against `agent/orchestrator.logic.ts:43`), and so does a dead process:
  nothing resumes or closes a run (`agent/ledger.repository.ts:43`).
- A material conflict that names no ticket closes the run `blocked` with nothing
  to resolve (`agent/orchestrator.service.ts:260`, against `:236`).
- A sub-agent that starts late in a chunk sees siblings of the same chunk that
  are already done (`agent/ledger.repository.ts:176`).

Budget
- Thresholds are reset at UTC midnight and usage at the local one
  (`budget/budget-alert.monitor.ts:72`): an announcement may wait until UTC midnight.

Terminal
- A connection lost during `pty:open` detaches nothing (`terminal/terminal.gateway.ts:96`,
  `:138`, against `:61`). The comment at `terminal/terminal-pty.service.ts:466` ("Se
  conserva un momento") has no code. A pump that gives up, or a restart, leaves
  the executor's PTY running. A Ctrl+C lost after a failed audit leaves its text in the shell.
- A resume approved after its workspace was deleted is run.

Relay and push
- The keyboard goes with the last chunk and the stored id is that of the first
  (`relay/relay-bot.service.ts:227`, against `:211`). The bot has no error handler, so a
  failed handler loses its update.
- A blocked ticket counts as pending, so a change of the run may start the
  activity again (`push/push.service.ts:225`, against `:223`). The resolution of a
  conflict emits no event. A device deleted by its token races its own
  registration, and failures of an old APNs connection close the new one.

Telegram
- A session closed by the cron during a turn takes that turn's exchange, which is
  then never consolidated. The webhook waits for the whole turn, so Telegram may
  repeat the update and the turn runs twice. Thresholds and the OAuth alert are
  marked before they are sent. The kill switch flag is stale after an unpause
  elsewhere. `processApproval` says that nothing was done also when only the statement after the
  execution failed.

Previews, preference, snapshots
- Values are taken before the executor is called, so an approval released by a
  failure cannot succeed any more; those of a rejected one stay until the next put.
  A direct publish runs before it is audited.
- A slow refresh overwrites a newer preference in the copy until the next read.
- A snapshot is saved though its audit failed and the owner was told it failed;
  overlapping saves pass the limit.

## 6. Not modelled

The components with status `not_modelled` in `PROJECT.json`: rate limiting is one atomic
script; the sanitizer and the golden set are regular expressions over text; authentication is
stateless library cryptography; MCP and the Google and Canvas clients pass calls through to remote
APIs; gateways forward events to sockets; configuration, migrations, health and
metrics keep no state that changes. Partly modelled: of push, the start of an activity by
`onKillSwitch` and the payloads; of Telegram, the rendering of commands and
approvals; of the executor's client, the calls that only pass through.

Data is abstracted throughout: payloads, hashes of inputs, plan summaries,
messages, HTTP and Telegram wording, metrics and logs. Events are modelled only
where a property speaks of them. Reads that change nothing (lists, status
endpoints) have no action. Of the two token axes of a session only the output is
in `Budget`; all entries of `Memory` have one source.

## 7. Plan

To model further: `Approvals` composed with its executors and with `AuditLog`,
whose lock makes audit appends fail; the refresh of Google's token.
