------------------------------- MODULE Relay --------------------------------
(***************************************************************************)
(* The bridge between Claude Code and the owner (RelayService, RelayStore, *)
(* RelayBotService): Claude sends messages and questions with buttons to   *)
(* a Telegram chat, under a quota; the owner taps a button, writes, cites  *)
(* a message or answers from the dashboard; Claude's CLI takes what is     *)
(* new.  Calls overlap; Telegram's updates are handled one at a time and   *)
(* come again when the process dies over one.                              *)
(***************************************************************************)
EXTENDS Naturals, FiniteSets, Sequences

CONSTANTS
  MaxOutPerHour,  \* MAX_OUT_PER_HOUR
  MaxSends,       \* bound: calls of send
  MaxInbound,     \* bound: updates and replies of the owner
  MaxRelayFaults  \* bound: failed queries and deliveries, crashes

ASSUME RelayAssumption ==
  MaxOutPerHour \in Nat /\ MaxSends \in Nat /\ MaxInbound \in Nat /\ MaxRelayFaults \in Nat

VARIABLES
  send,      \* call -> what it sends and where it is
  out,       \* relay_messages, out: the rows, and whether the first chunk's id is attached
  recent,    \* the rows of the last hour
  inb,       \* relay_messages, in, oldest first
  chat,      \* chunks in the owner's chat: [of, nr, keys]
  updates,   \* updates Telegram holds for the bot
  bot,       \* the update in process
  relayFaults,
  \* history
  crowded,   \* "yes" once two calls were between the count and the insert
  unknown,   \* "yes" once a tap was told that its question does not exist
  raced      \* questions answered from the dashboard behind the back of a tap

relayVars == <<send, out, recent, inb, chat, updates, bot, relayFaults, crowded, unknown, raced>>

Sends == 1 .. MaxSends
NoSend == [pc |-> "free", chunks |-> 1, asks |-> "no", sent |-> 0]
NoUpdate == [kind |-> "none", of |-> 0, nr |-> 0, known |-> "no"]
Quiet == [pc |-> "idle", up |-> NoUpdate]

RelayFault == relayFaults < MaxRelayFaults /\ relayFaults' = relayFaults + 1

-----------------------------------------------------------------------------
(* RelayService.send *)

\* outQuotaExceeded: counted before the row is written.
CheckQuota(s) ==
  /\ send[s].pc = "free" /\ (\A k \in 1 .. s - 1 : send[k].pc # "free")
  /\ \E chunks \in 1 .. 2, asks \in {"no", "yes"} :
       send' = [send EXCEPT ![s] = [NoSend EXCEPT !.chunks = chunks, !.asks = asks,
                  !.pc = IF Cardinality(recent) >= MaxOutPerHour THEN "refused" ELSE "insert"]]
  /\ crowded' = IF \E k \in Sends : send[k].pc = "insert" THEN "yes" ELSE crowded
  /\ UNCHANGED <<out, recent, inb, chat, updates, bot, relayFaults, unknown, raced>>

\* Mutant: the row is written once Telegram has the message.
InsertOutboundLate(s) ==
  /\ send[s].pc = "insert" /\ send' = [send EXCEPT ![s].pc = "deliver"]
  /\ recent' = recent \cup {s}
  /\ UNCHANGED <<out, inb, chat, updates, bot, relayFaults, crowded, unknown, raced>>

\* insertOutbound: the row exists before anything is delivered.
InsertOutbound(s) ==
  /\ send[s].pc = "insert" /\ send' = [send EXCEPT ![s].pc = "deliver"]
  /\ out' = [out EXCEPT ![s] = "row"] /\ recent' = recent \cup {s}
  /\ UNCHANGED <<inb, chat, updates, bot, relayFaults, crowded, unknown, raced>>

\* deliver: chunk by chunk, the buttons under the last; HTML that Telegram refuses is
\* sent again as plain text, which is the same chunk to the owner.
DeliverChunk(s) ==
  /\ send[s].pc = "deliver"
  /\ LET nr == send[s].sent + 1 IN
       /\ chat' = chat \cup {[of |-> s, nr |-> nr,
                                keys |-> IF nr = send[s].chunks THEN send[s].asks ELSE "no"]}
       /\ send' = [send EXCEPT ![s].sent = nr, ![s].pc = IF nr = send[s].chunks THEN "attach" ELSE "deliver"]
  /\ UNCHANGED <<out, recent, inb, updates, bot, relayFaults, crowded, unknown, raced>>

\* attachTelegramMessageId: that of the first chunk.
AttachMessageId(s) ==
  /\ send[s].pc = "attach" /\ send' = [send EXCEPT ![s].pc = "done"]
  /\ out' = [out EXCEPT ![s] = "attached"]
  /\ UNCHANGED <<recent, inb, chat, updates, bot, relayFaults, crowded, unknown, raced>>

\* A query or a delivery fails and the call with it: what was written and sent stays.
SendFails(s) ==
  /\ send[s].pc \in {"insert", "deliver", "attach"} /\ RelayFault
  /\ send' = [send EXCEPT ![s].pc = "failed"]
  /\ UNCHANGED <<out, recent, inb, chat, updates, bot, crowded, unknown, raced>>

HourPasses ==
  /\ recent # {} /\ (\A s \in Sends : send[s].pc \notin {"insert", "deliver", "attach"}) /\ recent' = {}
  /\ UNCHANGED <<send, out, inb, chat, updates, bot, relayFaults, crowded, unknown, raced>>

-----------------------------------------------------------------------------
(* The owner *)

Written == Len(inb) + Len(updates) + (IF bot.pc = "idle" THEN 0 ELSE 1)

\* A tap on a button, or a text, free or citing a message; known is whether the message's
\* call had returned by then.
OwnerActs ==
  /\ Written < MaxInbound
  /\ \/ \E m \in chat : /\ m.keys = "yes"
                         /\ updates' = Append(updates, [kind |-> "tap", of |-> m.of, nr |-> m.nr, known |-> "no"])
     \/ \E m \in chat : updates' = Append(updates, [kind |-> "text", of |-> m.of, nr |-> m.nr,
                                                     known |-> IF send[m.of].pc = "done" THEN "yes" ELSE "no"])
     \/ updates' = Append(updates, [NoUpdate EXCEPT !.kind = "text"])
  /\ UNCHANGED <<send, out, recent, inb, chat, bot, relayFaults, crowded, unknown, raced>>

\* insertInbound
Row(via, to, up) == [via |-> via, to |-> to, up |-> up, taken |-> 0]

\* reply, from the dashboard: no check of any kind.
Reply(to) ==
  /\ Written < MaxInbound
  /\ inb' = Append(inb, Row("dashboard", to, NoUpdate))
  /\ raced' = IF bot.pc = "insert" /\ bot.up.of = to THEN raced \cup {to} ELSE raced
  /\ UNCHANGED <<send, out, recent, chat, updates, bot, relayFaults, crowded, unknown>>

-----------------------------------------------------------------------------
(* RelayBotService: one update at a time *)

FindAnswer(q) == \E i \in DOMAIN inb : inb[i].to = q

\* A tap looks for its question (findOutbound).
TakeTap ==
  /\ bot.pc = "idle" /\ updates # <<>> /\ Head(updates).kind = "tap" /\ updates' = Tail(updates)
  /\ IF out[Head(updates).of] = "none"
     THEN unknown' = "yes" /\ UNCHANGED bot
     ELSE bot' = [pc |-> "check", up |-> Head(updates)] /\ UNCHANGED unknown
  /\ UNCHANGED <<send, out, recent, inb, chat, relayFaults, crowded, raced>>

\* findAnswer: a question that has an answer takes no other from its buttons.
CheckAnswered ==
  /\ bot.pc = "check" /\ bot' = IF FindAnswer(bot.up.of) THEN Quiet ELSE [bot EXCEPT !.pc = "insert"]
  /\ UNCHANGED <<send, out, recent, inb, chat, updates, relayFaults, crowded, unknown, raced>>

\* The answer, and then the buttons go, which may fail.
InsertTap ==
  /\ bot.pc = "insert" /\ bot' = Quiet
  /\ inb' = Append(inb, Row("tap", bot.up.of, bot.up))
  /\ \/ chat' = {IF m.of = bot.up.of THEN [m EXCEPT !.keys = "no"] ELSE m : m \in chat}
     \/ UNCHANGED chat
  /\ UNCHANGED <<send, out, recent, updates, relayFaults, crowded, unknown, raced>>

\* findQuestionByTelegramMessageId: among the questions, the one whose attached id is cited.
QuestionOf(up) ==
  IF up.of = 0 THEN 0
  ELSE IF up.nr = 1 /\ out[up.of] = "attached" /\ send[up.of].asks = "yes" THEN up.of ELSE 0

\* A text becomes a row, correlated with the question it cites.
HandleText ==
  /\ bot.pc = "idle" /\ updates # <<>> /\ Head(updates).kind = "text" /\ updates' = Tail(updates)
  /\ inb' = Append(inb, Row("text", QuestionOf(Head(updates)), Head(updates)))
  /\ UNCHANGED <<send, out, recent, chat, bot, relayFaults, crowded, unknown, raced>>

\* A query fails inside a handler: nothing catches it, and the update is confirmed with
\* the next poll, or comes again.
UpdateFails ==
  /\ bot.pc # "idle" \/ updates # <<>>
  /\ RelayFault /\ bot' = Quiet
  /\ updates' \in IF bot.pc = "idle" THEN {Tail(updates)} ELSE {updates, <<bot.up>> \o updates}
  /\ UNCHANGED <<send, out, recent, inb, chat, crowded, unknown, raced>>

\* The process dies: calls end, and an update whose work was done may come again.
RelayCrash ==
  /\ RelayFault /\ bot' = Quiet
  /\ send' = [s \in Sends |-> IF send[s].pc \in {"insert", "deliver", "attach"} THEN [send[s] EXCEPT !.pc = "failed"] ELSE send[s]]
  /\ updates' \in {IF bot.pc = "idle" THEN updates ELSE <<bot.up>> \o updates}
                  \cup {<<inb[i].up>> \o updates : i \in {i \in {Len(inb)} \ {0} : inb[i].via # "dashboard" /\ bot.pc = "idle"}}
  /\ UNCHANGED <<out, recent, inb, chat, crowded, unknown, raced>>

-----------------------------------------------------------------------------
(* Claude's CLI *)

New == {i \in DOMAIN inb : inb[i].taken = 0}

\* consumePending: one statement reads the new rows and marks them, so calls do not overlap.
Inbox ==
  /\ New # {} /\ inb' = [i \in DOMAIN inb |-> IF i \in New THEN [inb[i] EXCEPT !.taken = @ + 1] ELSE inb[i]]
  /\ UNCHANGED <<send, out, recent, chat, updates, bot, relayFaults, crowded, unknown, raced>>

-----------------------------------------------------------------------------
RelayInit ==
  /\ send = [s \in Sends |-> NoSend] /\ out = [s \in Sends |-> "none"] /\ recent = {}
  /\ inb = <<>> /\ chat = {} /\ updates = <<>> /\ bot = Quiet
  /\ relayFaults = 0
  /\ crowded = "no" /\ unknown = "no" /\ raced = {}

RelayNext ==
  \/ \E s \in Sends : CheckQuota(s) \/ InsertOutbound(s) \/ DeliverChunk(s) \/ AttachMessageId(s) \/ SendFails(s)
  \/ HourPasses \/ OwnerActs \/ (\E to \in {0} \cup {s \in Sends : out[s] # "none"} : Reply(to))
  \/ TakeTap \/ CheckAnswered \/ InsertTap \/ HandleText \/ UpdateFails \/ RelayCrash
  \/ Inbox

RelaySpec == RelayInit /\ [][RelayNext]_relayVars

-----------------------------------------------------------------------------
\* Types of the calls, the rows, the chat and the bot.
RelayTypeOK ==
  /\ \A s \in Sends : /\ send[s].pc \in {"free", "insert", "deliver", "attach", "done", "failed", "refused"}
                      /\ send[s].sent \in 0 .. send[s].chunks
  /\ out \in [Sends -> {"none", "row", "attached"}] /\ recent \subseteq Sends
  /\ \A i \in DOMAIN inb : inb[i].to \in {0} \cup Sends /\ inb[i].taken \in Nat
  /\ chat \subseteq [of : Sends, nr : 1 .. 2, keys : {"no", "yes"}]
  /\ bot.pc \in {"idle", "check", "insert"}

\* The quota holds unless calls overlapped between the count and the insert.
QuotaHolds == crowded = "no" => Cardinality(recent) <= MaxOutPerHour

\* A button in the owner's chat always finds its question, whatever call failed or died
\* half-way: the row is written before anything is delivered.
TapFindsQuestion == unknown = "no"

\* A tap answers only a question nobody answered before, by tap, citation or dashboard,
\* with updates that come twice and taps that come late; the exception is an answer from
\* the dashboard that arrives while the tap is being handled.
TapAnswersFirst ==
  \A i \in DOMAIN inb : inb[i].via = "tap" /\ inb[i].to \notin raced => \A j \in 1 .. i - 1 : inb[j].to # inb[i].to

\* A text that cites the first part of a question, written once the question's call had
\* returned, is the answer to that question; and no text is the answer to another.
CitationKept ==
  \A i \in DOMAIN inb : inb[i].via = "text" =>
    /\ inb[i].to \in {0, inb[i].up.of}
    /\ inb[i].up.known = "yes" /\ inb[i].up.nr = 1 /\ send[inb[i].up.of].asks = "yes" => inb[i].to = inb[i].up.of

\* No instruction of the owner is given to two calls of inbox.
TakenOnce == \A i \in DOMAIN inb : inb[i].taken <= 1

\* Questions and answers of the bridge, with overlapping calls, updates that come twice and
\* failures half-way: the quota holds, a tap finds its question and answers it first, a
\* citation is kept and an instruction is given once.
RelayInv ==
  /\ RelayTypeOK /\ QuotaHolds /\ TapFindsQuestion
  /\ TapAnswersFirst /\ CitationKept /\ TakenOnce
=============================================================================
