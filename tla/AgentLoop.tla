----------------------------- MODULE AgentLoop ------------------------------
(***************************************************************************)
(* A chat session over AgentService.runTurn: each turn calls the model     *)
(* until it stops asking for tools, handles every tool call of a response  *)
(* in order, answers all of them in one message, and on its way out may    *)
(* compact the history that the client sends back with its next turn.      *)
(*                                                                         *)
(* Any call may fail: the model (the turn is lost, what it did is not),    *)
(* the policy, the executor, the audit after the executor, the insert of   *)
(* an approval, the summary.  The process may die at any time.             *)
(* A text message keeps the turns it tells of, a block message the ids of  *)
(* the tool calls it asks for or answers; every message is one token.      *)
(***************************************************************************)
EXTENDS Naturals, SequencesExt

CONSTANTS
  Keys,           \* buildToolCallKey: a tool, registered or not, with its exact input
  Integrated,     \* keys whose tool needs an integration
  MaxIterations,  \* maxIterationsPerTurn
  MaxFailures,    \* maxConsecutiveToolFailures
  MaxHistory,     \* maxHistoryTokens
  PreserveLast,   \* preserveLastTurns
  MaxCalls,       \* bound: tool calls in one response
  MaxTurns        \* bound: turns that end with an answer

ASSUME LoopAssumption ==
  /\ MaxIterations \in Nat \ {0} /\ MaxFailures \in Nat \ {0} /\ MaxHistory \in Nat
  /\ PreserveLast \in Nat \ {0} /\ MaxCalls \in Nat \ {0} /\ MaxTurns \in Nat
  /\ Integrated \subseteq Keys

VARIABLES
  history,     \* what the client sends with its next turn
  messages,    \* the conversation of this turn
  pc,          \* "idle", "model", "calls", "final"
  iter,        \* iterationsUsed
  calls,       \* tool calls of the response that are not handled yet
  results,     \* toolResultBlocks
  fails,       \* consecutiveFailures
  plan,
  listed,      \* pendingApprovals of the answer
  answer,      \* finalResponse, by kind
  enabled,     \* integrations on or off in the feature flags
  turns,       \* turns answered
  \* history variables
  tries,       \* attempts of a key since it last worked or was deferred
  unaudited,   \* runs of a key whose audit failed, since it last worked or was deferred
  created,     \* approvals this turn put in pending_approvals with their audit
  memory       \* turns consolidated in MemoryService

turnVars == <<messages, pc, iter, calls, results, fails, plan, listed, answer>>
loopVars == <<history, turnVars, enabled, turns, tries, unaudited, created, memory>>

PlanCalls == {"declarePlan", "badPlan", "updatePlanStep"}
Names == Keys \cup PlanCalls
PlanStatus == {"pending", "done"}

Text(role, of) == [role |-> role, of |-> of, uses |-> <<>>, results |-> <<>>, text |-> TRUE]
Blocks(role, uses, res) == [role |-> role, of |-> {}, uses |-> uses, results |-> res, text |-> FALSE]

Ids(n) == [i \in 1 .. n |-> <<turns, iter, i>>]
Zero == [k \in Keys |-> 0]

-----------------------------------------------------------------------------
(* agent.logic.ts and history-compaction.logic.ts *)

DeclarePlan(n) == [i \in 1 .. n |-> "pending"]

\* updatePlanStep: an index out of range throws and the plan stays.
UpdatePlanStep(p, i, s) == IF i \in DOMAIN p THEN [p EXCEPT ![i] = s] ELSE p

EstimateMessagesTokens(ms) == Len(ms)

\* Mutant: tool results count as turns.
TurnStartsOfUser(ms) == {i \in DOMAIN ms : ms[i].role = "user"}

\* findTurnStartIndices: an objective, and not the results of a round of tools.
FindTurnStartIndices(ms) == {i \in DOMAIN ms : ms[i].role = "user" /\ ms[i].text}

\* Mutant: keeps one turn too few.
CompactionKeepsFewer(ms) ==
  LET starts == FindTurnStartIndices(ms)
      From(i) == {j \in starts : j >= i}
  IN  IF EstimateMessagesTokens(ms) <= MaxHistory \/ Cardinality(starts) <= PreserveLast THEN 1
      ELSE Min({i \in starts : Cardinality(From(i)) < PreserveLast} \cup {Len(ms) + 1})

\* planHistoryCompaction: the first message that is preserved, the start from which the
\* last PreserveLast turns run; 1 when there is nothing to compact.
PlanHistoryCompaction(ms) ==
  LET starts == FindTurnStartIndices(ms)
      From(i) == {j \in starts : j >= i}
  IN  IF EstimateMessagesTokens(ms) <= MaxHistory \/ Cardinality(starts) <= PreserveLast THEN 1
      ELSE Min({i \in starts : Cardinality(From(i)) <= PreserveLast})

\* renderMessagesAsTranscript: whose turns a stretch of messages tells.
Transcript(ms) == UNION {ms[i].of : i \in DOMAIN ms}

-----------------------------------------------------------------------------
(* What the adapters send for a conversation, and what the vendors accept.  *)

\* toAnthropicContent: the blocks as they are.  Results must answer the message
\* before them, all of them, and no message is empty.
AnthropicAccepts(ms) ==
  /\ ms[1].role = "user" /\ ms[1].text
  /\ \A i \in DOMAIN ms :
       /\ ms[i].text \/ ms[i].uses # <<>> \/ ms[i].results # <<>>
       /\ ms[i].uses # <<>> /\ i < Len(ms) => ms[i + 1].results = ms[i].uses
       /\ ms[i].results # <<>> => i > 1 /\ ms[i - 1].uses = ms[i].results

\* toOpenAIMessages: every result becomes a message of its own, before the calls.  What is
\* sent, by its place: <<message, part>>, in this order.
ToOpenAIMessages(ms) ==
  LET Parts(m) == IF m.text THEN 1 ELSE Len(m.results) + (IF m.uses = <<>> THEN 0 ELSE 1)
      Part(m, j) == CASE m.text                -> [role |-> m.role, id |-> <<>>, calls |-> {}]
                      [] ~m.text /\ j <= Len(m.results) -> [role |-> "tool", id |-> m.results[j], calls |-> {}]
                      [] OTHER                 -> [role |-> "assistant", id |-> <<>>, calls |-> ToSet(m.uses)]
  IN  [p \in UNION {{i} \X (1 .. Parts(ms[i])) : i \in DOMAIN ms} |-> Part(ms[p[1]], p[2])]

SentBefore(p, q) == p[1] < q[1] \/ (p[1] = q[1] /\ p[2] < q[2])

\* Every tool message belongs to the calls just before it, and every call is answered
\* before anything else is said.
OpenAIAccepts(ms) ==
  LET w == ToOpenAIMessages(ms)
      Owns(q, p) == /\ SentBefore(q, p)
                    /\ \A r \in DOMAIN w : SentBefore(q, r) /\ SentBefore(r, p) => w[r].role = "tool"
  IN  /\ \A p \in DOMAIN w : w[p].role = "tool" => \E q \in DOMAIN w : w[p].id \in w[q].calls /\ Owns(q, p)
      /\ \A q \in DOMAIN w : \A c \in w[q].calls :
           \E p \in DOMAIN w : w[p].role = "tool" /\ w[p].id = c /\ Owns(q, p)

\* buildToolCallIdToNameMap
ToolCallIdToName(ms) == UNION {ToSet(ms[i].uses) : i \in DOMAIN ms}

\* toGeminiParts: a functionResponse whose call is not in the request has no name.
GeminiAccepts(ms) ==
  \A i \in DOMAIN ms : ToSet(ms[i].results) \subseteq ToolCallIdToName(ms)

-----------------------------------------------------------------------------
(* runTurn *)

\* The locals of a turn that is over.
EndTurn ==
  /\ pc' = "idle" /\ messages' = <<>> /\ iter' = 0 /\ calls' = <<>> /\ results' = <<>>
  /\ fails' = Zero /\ plan' = <<>> /\ listed' = 0 /\ answer' = "none"
  /\ tries' = Zero /\ unaudited' = Zero /\ created' = 0

RunTurn ==
  /\ pc = "idle" /\ turns < MaxTurns
  /\ messages' = Append(history, Text("user", {turns}))
  /\ pc' = "model" /\ iter' = 1
  /\ UNCHANGED <<history, calls, results, fails, plan, listed, answer, enabled, turns,
                 tries, unaudited, created, memory>>

\* The adapters' stop reasons, and resolveFinalResponseText: no answer is blank.
ResolveFinalResponseText(stop, content) ==
  CASE stop = "max_tokens" /\ content = "empty"      -> "out of space"
    [] stop = "refusal" \/ content = "empty"         -> "cut"
    [] OTHER                                         -> "text"

\* The model is done, or says tool_use and names no tool.
ModelAnswers ==
  /\ pc = "model"
  /\ \E stop \in {"end_turn", "max_tokens", "refusal", "tool_use"}, content \in {"text", "empty"} :
       answer' = ResolveFinalResponseText(stop, content)
  /\ pc' = "final"
  /\ UNCHANGED <<history, messages, iter, calls, results, fails, plan, listed, enabled, turns,
                 tries, unaudited, created, memory>>

\* The model asks for tools, of any names, declared to it or not.
ModelCallsTools ==
  /\ pc = "model"
  /\ \E n \in 1 .. MaxCalls : \E s \in [1 .. n -> Names] :
       /\ calls' = s
       /\ messages' = Append(messages, Blocks("assistant", Ids(n), <<>>))
  /\ results' = <<>> /\ pc' = "calls"
  /\ UNCHANGED <<history, iter, fails, plan, listed, answer, enabled, turns,
                 tries, unaudited, created, memory>>

\* The guarded router rejects: the error leaves the turn, with all it had.
ModelFails ==
  /\ pc = "model"
  /\ EndTurn
  /\ UNCHANGED <<history, enabled, turns, memory>>

\* buildToolResultBlock for the call being handled.
Answered ==
  /\ results' = Append(results, <<turns, iter, Len(results) + 1>>)
  /\ calls' = Tail(calls)
  /\ UNCHANGED <<history, messages, pc, iter, answer, enabled, turns, memory>>

\* handleDeclarePlan and handleUpdatePlanStep; an invalid plan empties the plan.
HandlePlanCall ==
  /\ pc = "calls" /\ calls # <<>> /\ Head(calls) \in PlanCalls
  /\ CASE Head(calls) = "declarePlan" -> plan' = DeclarePlan(1)
       [] Head(calls) = "badPlan"     -> plan' = <<>>
       [] OTHER -> \E i \in 1 .. 2, s \in PlanStatus : plan' = UpdatePlanStep(plan, i, s)
  /\ Answered
  /\ UNCHANGED <<fails, listed, tries, unaudited, created>>

(* handleRealToolCall, by outcome *)

Real == pc = "calls" /\ calls # <<>> /\ Head(calls) \notin PlanCalls
Key == Head(calls)
Off == Key \in Integrated /\ enabled = "off"

\* The integration is off, or the exact call failed too often.
RefuseCall ==
  /\ Real /\ (Off \/ fails[Key] >= MaxFailures)
  /\ Answered
  /\ UNCHANGED <<fails, plan, listed, tries, unaudited, created>>

\* The call enters the try block.
Attempt == Real /\ ~Off /\ fails[Key] < MaxFailures

\* Mutant: the catch block reads the counter again, after it was reset.
CaughtAfterReset(reset) ==
  fails' = [fails EXCEPT ![Key] = IF reset THEN 1 ELSE @ + 1]

\* The catch block; `reset` when the failure count had been deleted before.
Caught(reset) == fails' = [fails EXCEPT ![Key] = @ + 1]

\* decide throws (a tool that is not in the registry has no level, or the database
\* fails), or the executor does, or no executor is registered.
CallFails ==
  /\ Attempt /\ Caught(FALSE)
  /\ tries' = [tries EXCEPT ![Key] = @ + 1]
  /\ Answered
  /\ UNCHANGED <<plan, listed, unaudited, created>>

\* createPendingApproval fails, before its insert or after it (Approvals).
DeferFails ==
  /\ Attempt /\ Caught(FALSE)
  /\ tries' = [tries EXCEPT ![Key] = @ + 1]
  /\ Answered
  /\ UNCHANGED <<plan, listed, unaudited, created>>

\* confirm or dual-confirm.
Defer ==
  /\ Attempt
  /\ created' = created + 1 /\ listed' = listed + 1
  /\ fails' = [fails EXCEPT ![Key] = 0] /\ tries' = [tries EXCEPT ![Key] = 0]
  /\ unaudited' = [unaudited EXCEPT ![Key] = 0]
  /\ Answered
  /\ UNCHANGED plan

\* auto or notify: executed, the failures forgotten, then audited.
Execute ==
  /\ Attempt
  /\ fails' = [fails EXCEPT ![Key] = 0] /\ tries' = [tries EXCEPT ![Key] = 0]
  /\ unaudited' = [unaudited EXCEPT ![Key] = 0]
  /\ Answered
  /\ UNCHANGED <<plan, listed, created>>

\* The executor ran, the audit failed: the model is told of an error.
ExecuteUnaudited ==
  /\ Attempt /\ Caught(TRUE)
  /\ tries' = [tries EXCEPT ![Key] = @ + 1]
  /\ unaudited' = [unaudited EXCEPT ![Key] = @ + 1]
  /\ Answered
  /\ UNCHANGED <<plan, listed, created>>

\* All calls are answered: the loop goes round, or ends at its limit.
PushResults ==
  /\ pc = "calls" /\ calls = <<>>
  /\ messages' = Append(messages, Blocks("user", <<>>, results))
  /\ results' = <<>>
  /\ IF iter < MaxIterations
       THEN iter' = iter + 1 /\ pc' = "model" /\ UNCHANGED answer
       ELSE pc' = "final" /\ answer' = "limit" /\ UNCHANGED iter
  /\ UNCHANGED <<history, calls, fails, plan, listed, enabled, turns, tries, unaudited,
                 created, memory>>

\* finalizeTurn without compaction: not needed, or the summary failed.  The client
\* adds its objective and the answer to what it had.
FinalizeTurn ==
  /\ pc = "final"
  /\ history' = history \o <<Text("user", {turns}), Text("assistant", {turns})>>
  /\ turns' = turns + 1
  /\ EndTurn
  /\ UNCHANGED <<enabled, memory>>

\* compact: the summary stands for the older messages, which go to the memory unless
\* consolidate fails; the client adopts the compacted history.
CompactHistory ==
  /\ pc = "final"
  /\ LET cut == PlanHistoryCompaction(messages)
         old == SubSeq(messages, 1, cut - 1)
     IN  /\ cut > 1
         /\ history' = <<Text("user", Transcript(old))>> \o SubSeq(messages, cut, Len(messages))
                       \o <<Text("assistant", {turns})>>
         /\ memory' \in {memory, memory \cup Transcript(old)}
  /\ turns' = turns + 1
  /\ EndTurn
  /\ UNCHANGED enabled

\* feature flags reloaded: an integration goes on or off.
Toggle ==
  /\ enabled' = IF enabled = "on" THEN "off" ELSE "on"
  /\ UNCHANGED <<history, turnVars, turns, tries, unaudited, created, memory>>

\* The process dies; the client still has its history.
LoopCrash ==
  /\ pc # "idle"
  /\ EndTurn
  /\ UNCHANGED <<history, enabled, turns, memory>>

-----------------------------------------------------------------------------
LoopInit ==
  /\ history = <<>> /\ messages = <<>> /\ pc = "idle" /\ iter = 0
  /\ calls = <<>> /\ results = <<>> /\ fails = Zero /\ plan = <<>> /\ listed = 0
  /\ answer = "none" /\ enabled = "on" /\ turns = 0
  /\ tries = Zero /\ unaudited = Zero /\ created = 0 /\ memory = {}

LoopNext ==
  \/ RunTurn \/ ModelAnswers \/ ModelCallsTools \/ ModelFails
  \/ HandlePlanCall \/ RefuseCall \/ CallFails \/ DeferFails \/ Defer
  \/ Execute \/ ExecuteUnaudited
  \/ PushResults \/ FinalizeTurn \/ CompactHistory \/ Toggle \/ LoopCrash

LoopSpec == LoopInit /\ [][LoopNext]_loopVars

-----------------------------------------------------------------------------
\* Types; one result per handled call, in order.
LoopTypeOK ==
  /\ pc \in {"idle", "model", "calls", "final"} /\ iter \in 0 .. MaxIterations
  /\ turns \in 0 .. MaxTurns /\ enabled \in {"on", "off"}
  /\ calls \in Seq(Names) /\ plan \in Seq(PlanStatus)
  /\ fails \in [Keys -> 0 .. MaxFailures] /\ tries \in [Keys -> Nat] /\ unaudited \in [Keys -> Nat]
  /\ listed \in Nat /\ created \in Nat /\ memory \subseteq 0 .. MaxTurns
  /\ answer \in {"none", "text", "cut", "out of space", "limit"} /\ (answer # "none" <=> pc = "final")
  /\ pc = "calls" => Last(messages).uses = results \o SubSeq(Ids(Len(results) + Len(calls)),
                                                Len(results) + 1, Len(results) + Len(calls))

\* Whatever the model answers is what the next vendor gets: through tool rounds, failed
\* summaries, compactions and the client's round trip, every conversation sent is one
\* that each of the three vendors accepts.
ConversationAccepted ==
  pc = "model" => AnthropicAccepts(messages) /\ OpenAIAccepts(messages) /\ GeminiAccepts(messages)

\* Compaction loses nobody: every answered turn is in the history the client will send,
\* and the last PreserveLast of them are there word by word.
RecentTurnsVerbatim ==
  /\ Transcript(history) = 0 .. turns - 1
  /\ \A t \in 0 .. turns - 1 : t + PreserveLast >= turns =>
       \E i \in DOMAIN history : history[i].role = "user" /\ history[i].text /\ history[i].of = {t}

\* The same call is not attempted more than MaxFailures times in a turn without having
\* worked or been deferred, also when it is the audit after the executor that fails:
\* an action without an audit row is repeated at most that often.
FailureCapHolds ==
  \A k \in Keys : tries[k] <= MaxFailures /\ unaudited[k] <= MaxFailures

\* The answer lists exactly the approvals the turn created with their audit row.
PendingListed == listed = created

\* One turn, whatever fails in it: one result per call, a failing call is capped, and the answer
\* lists exactly the approvals that exist.
TurnInv == LoopTypeOK /\ FailureCapHolds /\ PendingListed
=============================================================================
