-------------------------- MODULE TelegramSessions --------------------------
(***************************************************************************)
(* The conversation of the Telegram bot (TelegramBotService): a text runs  *)
(* a turn on the active session, whose transcript is read before the turn  *)
(* and written back whole after it; a session that was idle, grew long or  *)
(* was ended by the owner is consolidated into memory and closed.  Updates *)
(* come by webhook, so turns, /endsession and the inactivity check run at  *)
(* the same time; Telegram repeats an update whose call failed or took too *)
(* long, which is one more turn.                                           *)
(***************************************************************************)
EXTENDS Naturals, FiniteSets, Sequences

CONSTANTS
  MaxSession,   \* MAX_SESSION_MESSAGES, in exchanges
  MaxWindow,    \* MAX_WINDOW_MESSAGES, in exchanges
  MaxTurns,     \* bound: texts of the owner
  MaxOverlap,   \* bound: turns and closings at one time
  MaxChatFaults \* bound: failed turns, queries and consolidations, deaths of the process

ASSUME SessionBoundsAssumption ==
  MaxSession \in Nat \ {0, 1} /\ MaxWindow \in Nat \ {0} /\ MaxTurns \in Nat /\ MaxOverlap \in Nat /\ MaxChatFaults \in Nat

VARIABLES
  tsession,  \* telegram_sessions; a session has the number of the turn that made it
  turn,      \* turn -> where it is, its session and the transcript it read
  closer,    \* the inactivity check and /endsession, alike
  chatFaults,
  \* history
  memory,    \* exchanges that were consolidated
  lost,      \* exchanges whose consolidation failed
  mixed      \* turns that ran while another turn or a closing did

chatVars == <<tsession, turn, closer, chatFaults, memory, lost, mixed>>

Turns == 1 .. MaxTurns
Recalled == 0    \* the pair of messages with the memories, at the head of a transcript
NoChat == [st |-> "none", tr |-> <<>>, idle |-> "no"]
NoTurn == [pc |-> "free", s |-> 0, copy |-> <<>>]
Closers == {"cron", "endsession"}
InFlight == {"recall", "run", "consolidate", "mark"}
Ended(pc) == [NoTurn EXCEPT !.pc = pc]

Active == {s \in Turns : tsession[s].st = "active"}
Exchanges(tr) == {tr[i] : i \in DOMAIN tr} \ {Recalled}

-----------------------------------------------------------------------------
\* What the model sees: the recalled memories and the last exchanges.
Window(tr) ==
  LET rest == IF tr # <<>> /\ tr[1] = Recalled THEN Tail(tr) ELSE tr
      last == SubSeq(rest, IF Len(rest) > MaxWindow THEN Len(rest) - MaxWindow + 1 ELSE 1, Len(rest))
  IN  IF tr # <<>> /\ tr[1] = Recalled THEN <<Recalled>> \o last ELSE last

ChatFault == chatFaults < MaxChatFaults /\ chatFaults' = chatFaults + 1

Busy == {t \in Turns : turn[t].pc \in InFlight}
Closing == {c \in Closers : closer[c].pc # "free"}
Room == Cardinality(Busy) + Cardinality(Closing) < MaxOverlap

\* A turn that starts beside others mixes with them, and so does one beside a closing.
MixesTurn(t) == mixed' = IF Busy = {} /\ Closing = {} THEN mixed ELSE mixed \cup Busy \cup {t}
MixesCloser  == mixed' = mixed \cup Busy

\* The text handler: getActiveDbSession, any of the active ones.
ReadSession(t) ==
  /\ turn[t].pc = "free" /\ Room /\ (\A k \in 1 .. t - 1 : turn[k].pc # "free")
  /\ \/ /\ Active = {} /\ turn' = [turn EXCEPT ![t].pc = "recall"]
     \/ \E s \in Active :
          LET tr == tsession[s].tr IN
          turn' = [turn EXCEPT ![t] = IF tsession[s].idle = "yes" \/ Len(tr) >= MaxSession
                                      THEN [pc |-> "consolidate", s |-> s, copy |-> tr]
                                      ELSE [pc |-> "run", s |-> s, copy |-> tr]]
  /\ MixesTurn(t)
  /\ UNCHANGED <<tsession, closer, chatFaults, memory, lost>>

\* A new session, with the memories recalled for the text, if there are any.
CreateSession(t) ==
  /\ turn[t].pc = "recall"
  /\ \E tr \in {<<>>} \cup (IF memory = {} THEN {} ELSE {<<Recalled>>}) :
       /\ tsession' = [tsession EXCEPT ![t] = [st |-> "active", tr |-> tr, idle |-> "no"]]
       /\ turn' = [turn EXCEPT ![t] = [pc |-> "run", s |-> t, copy |-> tr]]
  /\ UNCHANGED <<closer, chatFaults, memory, lost, mixed>>

\* Mutant: the exchange replaces the transcript.
WriteBackAlone(t) ==
  /\ turn[t].pc = "run" /\ turn' = [turn EXCEPT ![t] = Ended("done")]
  /\ tsession' = [tsession EXCEPT ![turn[t].s].tr = <<t>>, ![turn[t].s].idle = "no"]
  /\ UNCHANGED <<closer, chatFaults, memory, lost, mixed>>

\* runTurn (AgentLoop) answers: the transcript that was read, with the exchange, is written
\* over whatever is there, and the owner gets the answer.
WriteBack(t) ==
  /\ turn[t].pc = "run" /\ turn' = [turn EXCEPT ![t] = Ended("done")]
  /\ tsession' = [tsession EXCEPT ![turn[t].s].tr = Append(turn[t].copy, t), ![turn[t].s].idle = "no"]
  /\ UNCHANGED <<closer, chatFaults, memory, lost, mixed>>

\* The turn or a query fails, or the process dies over it: nothing more is written.
TurnFails(t) ==
  /\ turn[t].pc \in InFlight /\ turn' = [turn EXCEPT ![t] = Ended("failed")] /\ ChatFault
  /\ UNCHANGED <<tsession, closer, memory, lost, mixed>>

-----------------------------------------------------------------------------
(* consolidateAndCloseSession, by a turn or a closer *)

\* memoryService.consolidate of the transcript that was read: done, or failed and logged.
Consolidated(copy) ==
  \/ memory' = memory \cup Exchanges(copy) /\ UNCHANGED <<lost, chatFaults>>
  \/ lost' = lost \cup Exchanges(copy) /\ ChatFault /\ UNCHANGED memory

ConsolidateForTurn(t) ==
  /\ turn[t].pc = "consolidate" /\ turn' = [turn EXCEPT ![t].pc = "mark"] /\ Consolidated(turn[t].copy)
  /\ UNCHANGED <<tsession, closer, mixed>>

ConsolidateForCloser(c) ==
  /\ closer[c].pc = "consolidate" /\ closer' = [closer EXCEPT ![c].pc = "mark"] /\ Consolidated(closer[c].copy)
  /\ UNCHANGED <<tsession, turn, mixed>>

\* The session is closed either way.
Mark(s) == [tsession EXCEPT ![s].st = "consolidated", ![s].idle = "no"]

MarkForTurn(t) ==
  /\ turn[t].pc = "mark" /\ turn' = [turn EXCEPT ![t] = [NoTurn EXCEPT !.pc = "recall"]]
  /\ tsession' = Mark(turn[t].s)
  /\ UNCHANGED <<closer, chatFaults, memory, lost, mixed>>

MarkForCloser(c) ==
  /\ closer[c].pc = "mark" /\ closer' = [closer EXCEPT ![c] = NoTurn]
  /\ tsession' = Mark(closer[c].s)
  /\ UNCHANGED <<turn, chatFaults, memory, lost, mixed>>

\* The session stays open; the next check, or the owner, tries again.
CloserFails(c) ==
  /\ closer[c].pc # "free" /\ closer' = [closer EXCEPT ![c] = NoTurn] /\ ChatFault
  /\ UNCHANGED <<tsession, turn, memory, lost, mixed>>

\* checkSessionInactivity closes what has been idle, /endsession what is active.
CheckSessionInactivity ==
  /\ closer["cron"].pc = "free" /\ Room
  /\ \E s \in Active : /\ tsession[s].idle = "yes"
                       /\ closer' = [closer EXCEPT !["cron"] = [NoTurn EXCEPT !.pc = "consolidate", !.s = s, !.copy = tsession[s].tr]]
  /\ MixesCloser
  /\ UNCHANGED <<tsession, turn, chatFaults, memory, lost>>

EndSession ==
  /\ closer["endsession"].pc = "free" /\ Room
  /\ \E s \in Active : closer' = [closer EXCEPT !["endsession"] = [NoTurn EXCEPT !.pc = "consolidate", !.s = s, !.copy = tsession[s].tr]]
  /\ MixesCloser
  /\ UNCHANGED <<tsession, turn, chatFaults, memory, lost>>

\* lastActivityAt is half an hour old; a turn moves it only at its end.
Idles(s) ==
  /\ s \in Active /\ tsession[s].idle = "no" /\ tsession' = [tsession EXCEPT ![s].idle = "yes"]
  /\ UNCHANGED <<turn, closer, chatFaults, memory, lost, mixed>>

-----------------------------------------------------------------------------
ChatInit ==
  /\ tsession = [s \in Turns |-> NoChat] /\ turn = [t \in Turns |-> NoTurn]
  /\ closer = [c \in Closers |-> NoTurn]
  /\ chatFaults = 0 /\ memory = {} /\ lost = {} /\ mixed = {}

ChatNext ==
  \/ \E t \in Turns : \/ ReadSession(t) \/ CreateSession(t) \/ WriteBack(t)
                      \/ TurnFails(t) \/ ConsolidateForTurn(t) \/ MarkForTurn(t) \/ Idles(t)
  \/ \E c \in Closers : ConsolidateForCloser(c) \/ MarkForCloser(c) \/ CloserFails(c)
  \/ CheckSessionInactivity \/ EndSession

ChatSpec == ChatInit /\ [][ChatNext]_chatVars

-----------------------------------------------------------------------------
\* Types of the sessions, the turns and the closers.
ChatTypeOK ==
  /\ \A s \in Turns : /\ tsession[s].st \in {"none", "active", "consolidated"}
                      /\ Len(tsession[s].tr) <= MaxSession
                      /\ Exchanges(tsession[s].tr) \subseteq Turns
                      /\ tsession[s].idle \in {"no", "yes"}
  /\ \A t \in Turns : turn[t].pc \in InFlight \cup {"free", "done", "failed"} /\ turn[t].s \in 0 .. MaxTurns
  /\ \A c \in Closers : closer[c].pc \in {"free", "consolidate", "mark"}
  /\ memory \subseteq Turns /\ lost \subseteq Turns /\ mixed \subseteq Turns

\* An exchange the owner saw answered is in the transcript of an active session or went to
\* memory: however many sessions came after it, idle or long or ended, and whatever
\* failed half-way.  The exceptions are a consolidation that failed, and a turn that ran beside
\* another turn or a closing.
NothingForgotten ==
  \A t \in Turns : turn[t].pc = "done" =>
    t \in memory \cup lost \cup mixed \cup UNION {Exchanges(tsession[s].tr) : s \in Active}

\* There is one conversation at a time, unless turns ran beside each other.
OneConversation == Cardinality(Active) <= 1 \/ mixed # {}

\* What the model is shown of a session is the memories recalled for it, however long ago,
\* and an unbroken run of its last exchanges.
WindowKeepsMemory ==
  \A t \in Turns : turn[t].pc = "run" =>
    LET copy == turn[t].copy
        window == Window(copy)
        kept == {i \in DOMAIN window : window[i] # Recalled}
    IN  /\ (copy # <<>> /\ copy[1] = Recalled) => (window # <<>> /\ window[1] = Recalled)
        /\ Cardinality(kept) <= MaxWindow
        /\ \A i \in kept : window[i] = copy[Len(copy) - Len(window) + i]
        /\ Cardinality(kept) < MaxWindow => Exchanges(copy) = Exchanges(window)

\* The conversation of the bot, over turns, closings and failures: no answered exchange is
\* forgotten, one session is active, and the model sees the recalled memories.
ChatInv == ChatTypeOK /\ NothingForgotten /\ OneConversation /\ WindowKeepsMemory
=============================================================================
