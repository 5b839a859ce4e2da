---------------------------- MODULE PtySessions ----------------------------
(***************************************************************************)
(* The interactive terminal sessions of one workspace (TerminalPtyService) *)
(* and the sockets that open, lose, resume and close them                  *)
(* (TerminalGateway).  A call of pty:open is numbered; its number is also  *)
(* the listener it makes, its reservation and the ptyId of the session it  *)
(* opens.  Every await is a point where other calls, timers, output of the *)
(* shell and disconnections may come in.  The typed keys are in PtyInput.  *)
(***************************************************************************)
EXTENDS Naturals, FiniteSets, Sequences

CONSTANTS
  Sockets,     \* connections of the app; one that is lost is never used again
  RingCap,     \* PTY_RING_BYTES, in pieces of output
  PumpRetries, \* PUMP_MAX_RETRIES
  MaxOpens,    \* bound: calls of pty:open
  MaxOut,      \* bound: pieces of output of a session
  MaxRestarts  \* bound: restarts of the process

ASSUME SessionsAssumption ==
  /\ RingCap \in Nat \ {0} /\ PumpRetries \in Nat
  /\ MaxOpens \in Nat /\ MaxOut \in Nat /\ MaxRestarts \in Nat

VARIABLES
  sock,        \* socket -> "new", "on" or "gone"
  data,        \* socket -> client.data: ptyId and listener, 0 when undefined
  call,        \* call -> who made it and where it waits
  byWorkspace, \* what the workspace's key holds: nothing, a reservation, a session
  ses,         \* ptyId -> session
  restarts,
  \* history
  closeAudits, \* ptyId -> rows about its closing
  raced        \* calls whose socket went, or opened again, while they waited

sessionVars == <<sock, data, call, byWorkspace, ses, restarts, closeAudits, raced>>

Calls == 1 .. MaxOpens
\* remote is the executor's PTY; got and heard, history, are what the listener was sent.
NoSession == [st |-> "none", lis |-> 0, timer |-> "off", closing |-> 0, fails |-> 0, out |-> 0,
              remote |-> "none", got |-> <<>>, heard |-> "no"]
NoCall    == [by |-> "nobody", pc |-> "free", pty |-> 0]
Failed    == [NoCall EXCEPT !.pc = "failed"]
NoKey     == [kind |-> "none", id |-> 0]
Waiting   == {"audit", "exec", "resize"}

\* Calls of socket c that still wait.
Open(c) == {l \in Calls : call[l].by = c /\ call[l].pc \in Waiting}

-----------------------------------------------------------------------------
(* TerminalPtyService, on the session map ss *)

\* Mutant: a session left alone gets no deadline.
DetachUntimed(ss, p, l) ==
  IF p = 0 \/ l = 0 THEN ss ELSE
  IF ss[p].st \notin {"live", "ended"} \/ ss[p].lis # l THEN ss
  ELSE [ss EXCEPT ![p].lis = 0, ![p].got = <<>>, ![p].heard = "no"]

\* detach: only the current listener counts; the session starts its wait alone.
Detach(ss, p, l) ==
  IF p = 0 \/ l = 0 THEN ss ELSE
  IF ss[p].st \notin {"live", "ended"} \/ ss[p].lis # l THEN ss
  ELSE [ss EXCEPT ![p].lis = 0, ![p].got = <<>>, ![p].heard = "no", ![p].timer = IF ss[p].st = "live" THEN "on" ELSE @]

\* attach: the wait is over, and the new listener gets what the ring still holds.
Attach(ss, p, l) ==
  LET from == IF ss[p].out > RingCap THEN ss[p].out - RingCap ELSE 0
  IN  [ss EXCEPT ![p].lis = l, ![p].timer = "off",
                 ![p].got = [i \in 1 .. ss[p].out - from |-> from + i]]

\* finish: once per session.  The key is freed if it is this session's, the listener
\* hears the end, and the closing is audited, which may fail without consequence.
\* closing is whether a close still waits for the executor.
Finish(p, closing) ==
  IF ses[p].st # "live"
  THEN UNCHANGED <<byWorkspace, closeAudits>> /\ ses' = [ses EXCEPT ![p].closing = closing]
  ELSE /\ ses' = [ses EXCEPT ![p].st = "ended", ![p].timer = "off", ![p].closing = closing,
                             ![p].fails = 0, ![p].remote = "none",
                             ![p].heard = IF ses[p].lis = 0 THEN "no" ELSE "yes"]
       /\ byWorkspace' = IF byWorkspace = [kind |-> "pty", id |-> p] THEN NoKey ELSE byWorkspace
       /\ \/ closeAudits' = [closeAudits EXCEPT ![p] = @ + 1]
          \/ UNCHANGED closeAudits

-----------------------------------------------------------------------------
(* TerminalGateway *)

\* handleConnection: a socket without a valid token is cut before it can do anything.
HandleConnection(c) ==
  /\ sock[c] = "new" /\ sock' = [sock EXCEPT ![c] = "on"]
  /\ UNCHANGED <<data, call, byWorkspace, ses, restarts, closeAudits, raced>>

\* handleDisconnect
HandleDisconnect(c) ==
  /\ sock[c] = "on" /\ sock' = [sock EXCEPT ![c] = "gone"]
  /\ ses' = Detach(ses, data[c].pty, data[c].lis)
  /\ raced' = raced \cup Open(c)
  /\ UNCHANGED <<data, call, byWorkspace, restarts, closeAudits>>

\* What pty:open does to its socket before it asks for a session.
LetGo(c, l) ==
  /\ sock[c] = "on" /\ call[l].pc = "free" /\ \A k \in 1 .. l - 1 : call[k].pc # "free"
  /\ data' = [data EXCEPT ![c] = [pty |-> 0, lis |-> 0]]
  /\ raced' = IF Open(c) = {} THEN raced ELSE raced \cup Open(c) \cup {l}

Waits(c, l, pc, p) == call' = [call EXCEPT ![l] = [by |-> c, pc |-> pc, pty |-> p]]

\* The live session the key names, if any.
Existing == IF byWorkspace.kind = "pty" /\ ses[byWorkspace.id].st = "live" THEN byWorkspace.id ELSE 0

\* The key names a session that is not in the map: somebody is opening it.
BeingOpened == byWorkspace.kind = "res" \/ (byWorkspace.kind = "pty" /\ ses[byWorkspace.id].st = "deleted")

\* openOrAttach finds a live session: its new listener is attached before the await.
ResumePty(c, l) ==
  /\ LetGo(c, l) /\ Existing # 0
  /\ ses' = Attach(Detach(ses, data[c].pty, data[c].lis), Existing, l)
  /\ Waits(c, l, "resize", Existing)
  /\ UNCHANGED <<sock, byWorkspace, restarts, closeAudits>>

\* Another opening is under way: 409.
RefuseOpen(c, l) ==
  /\ LetGo(c, l) /\ BeingOpened
  /\ ses' = Detach(ses, data[c].pty, data[c].lis)
  /\ call' = [call EXCEPT ![l] = Failed]
  /\ UNCHANGED <<sock, byWorkspace, restarts, closeAudits>>

\* No session: the workspace is reserved before the first await.
ReserveOpen(c, l) ==
  /\ LetGo(c, l) /\ Existing = 0 /\ ~BeingOpened
  /\ byWorkspace' = [kind |-> "res", id |-> l]
  /\ ses' = Detach(ses, data[c].pty, data[c].lis)
  /\ Waits(c, l, "audit", 0)
  /\ UNCHANGED <<sock, restarts, closeAudits>>

\* pty:opened: the socket remembers its session, gone or not.
Opened(l, p) ==
  /\ call' = [call EXCEPT ![l].pc = "done", ![l].pty = p]
  /\ data' = [data EXCEPT ![call[l].by] = [pty |-> p, lis |-> l]]

\* The answer of resize does not matter.
ResizeDone(l) ==
  /\ call[l].pc = "resize" /\ Opened(l, call[l].pty)
  /\ UNCHANGED <<sock, byWorkspace, ses, restarts, closeAudits, raced>>

\* The opening is audited before the executor is asked.
AuditOpen(l) ==
  /\ call[l].pc = "audit" /\ call' = [call EXCEPT ![l].pc = "exec"]
  /\ UNCHANGED <<sock, data, byWorkspace, ses, restarts, closeAudits, raced>>

\* The executor opened a PTY: session, listener and pump.
SessionOpened(l) ==
  /\ call[l].pc = "exec"
  /\ ses' = [ses EXCEPT ![l] = [NoSession EXCEPT !.st = "live", !.lis = l, !.remote = "running"]]
  /\ byWorkspace' = [kind |-> "pty", id |-> l]
  /\ Opened(l, l)
  /\ UNCHANGED <<sock, restarts, closeAudits, raced>>

\* The audit or the executor failed, or only its answer was lost: the reservation goes.
OpenFails(l) ==
  /\ call[l].pc \in {"audit", "exec"} /\ call' = [call EXCEPT ![l] = Failed]
  /\ byWorkspace' = IF byWorkspace = [kind |-> "res", id |-> l] THEN NoKey ELSE byWorkspace
  /\ UNCHANGED <<sock, data, ses, restarts, closeAudits, raced>>

\* pty:keepalive: a wait that is running starts again.
SetKeepAlive(c) ==
  /\ sock[c] = "on" /\ data[c].pty # 0
  /\ ses[data[c].pty].st = "live" /\ ses[data[c].pty].timer = "fired"
  /\ ses' = [ses EXCEPT ![data[c].pty].timer = "on"]
  /\ UNCHANGED <<sock, data, call, byWorkspace, restarts, closeAudits, raced>>

\* pty:close: the socket forgets the session and the executor is asked to close it.
ClosePty(c) ==
  /\ sock[c] = "on" /\ data[c].pty # 0
  /\ data' = [data EXCEPT ![c].pty = 0]
  /\ ses' = IF ses[data[c].pty].st # "live" THEN ses ELSE [ses EXCEPT ![data[c].pty].closing = 1]
  /\ UNCHANGED <<sock, call, byWorkspace, restarts, closeAudits, raced>>

-----------------------------------------------------------------------------
(* Timers, the executor's answers and the pump *)

\* armDetachTimer's callback: nobody came back and the shell said nothing.
DetachTimer(p) ==
  /\ ses[p].timer = "on"
  /\ ses' = [ses EXCEPT ![p].timer = "fired", ![p].closing = 1]
  /\ UNCHANGED <<sock, data, call, byWorkspace, restarts, closeAudits, raced>>

\* close, after its await: the executor closed the PTY, or did not confirm.
CloseAnswered(p) ==
  /\ ses[p].closing = 1 /\ Finish(p, 0)
  /\ UNCHANGED <<sock, data, call, restarts, raced>>

\* handleLine, a piece of output: kept, and sent on; alone, it starts the wait again.
Output(p) ==
  /\ ses[p].st = "live" /\ ses[p].remote = "running" /\ ses[p].out < MaxOut
  /\ ses' = [ses EXCEPT ![p].out = @ + 1, ![p].fails = 0,
                        ![p].got = IF ses[p].lis = 0 THEN @ ELSE Append(@, ses[p].out + 1),
                        ![p].timer = IF ses[p].lis = 0 /\ @ # "off" THEN "on" ELSE @]
  /\ UNCHANGED <<sock, data, call, byWorkspace, restarts, closeAudits, raced>>

\* handleLine, exit or error: the shell ended.
ShellEnds(p) ==
  /\ ses[p].st = "live" /\ ses[p].remote = "running"
  /\ Finish(p, ses[p].closing)
  /\ UNCHANGED <<sock, data, call, restarts, raced>>

\* The pod went with its PTYs.
RemoteLost(p) ==
  /\ ses[p].st = "live" /\ ses[p].remote = "running" /\ ses' = [ses EXCEPT ![p].remote = "gone"]
  /\ UNCHANGED <<sock, data, call, byWorkspace, restarts, closeAudits, raced>>

\* pump: the stream broke; it is read again unless the PTY is unknown or the retries are over.
PumpRetry(p) ==
  /\ ses[p].st = "live" /\ ses[p].remote = "running" /\ ses[p].fails < PumpRetries
  /\ ses' = [ses EXCEPT ![p].fails = @ + 1]
  /\ UNCHANGED <<sock, data, call, byWorkspace, restarts, closeAudits, raced>>

PumpGivesUp(p) ==
  /\ ses[p].st = "live" /\ (ses[p].remote = "gone" \/ ses[p].fails = PumpRetries)
  /\ Finish(p, ses[p].closing)
  /\ UNCHANGED <<sock, data, call, restarts, raced>>

\* The ended session is forgotten after ENDED_LINGER_MS.
Linger(p) ==
  /\ ses[p].st = "ended" /\ ses' = [ses EXCEPT ![p] = [NoSession EXCEPT !.st = "deleted"]]
  /\ UNCHANGED <<sock, data, call, byWorkspace, restarts, closeAudits, raced>>

\* The process stops: everything in memory goes, the executor's PTYs stay.
SessionsRestart ==
  /\ restarts < MaxRestarts /\ restarts' = restarts + 1
  /\ sock' = [c \in Sockets |-> IF sock[c] = "on" THEN "gone" ELSE sock[c]]
  /\ data' = [c \in Sockets |-> [pty |-> 0, lis |-> 0]]
  /\ call' = [l \in Calls |-> IF call[l].pc = "free" THEN NoCall ELSE Failed]
  /\ ses' = [p \in Calls |-> IF ses[p].st = "none" THEN ses[p] ELSE [NoSession EXCEPT !.st = "deleted"]]
  /\ byWorkspace' = NoKey /\ raced' = {} /\ closeAudits' = [p \in Calls |-> 0]

-----------------------------------------------------------------------------
SessionsInit ==
  /\ sock = [c \in Sockets |-> "new"] /\ data = [c \in Sockets |-> [pty |-> 0, lis |-> 0]]
  /\ call = [l \in Calls |-> NoCall] /\ byWorkspace = NoKey
  /\ ses = [p \in Calls |-> NoSession]
  /\ restarts = 0 
  /\ closeAudits = [p \in Calls |-> 0] /\ raced = {}

SessionsNext ==
  \/ \E c \in Sockets : HandleConnection(c) \/ HandleDisconnect(c) \/ SetKeepAlive(c) \/ ClosePty(c)
  \/ \E c \in Sockets, l \in Calls : ResumePty(c, l) \/ RefuseOpen(c, l) \/ ReserveOpen(c, l)
  \/ \E l \in Calls : ResizeDone(l) \/ AuditOpen(l) \/ SessionOpened(l) \/ OpenFails(l)
  \/ \E p \in Calls : \/ DetachTimer(p) \/ CloseAnswered(p) \/ Output(p) \/ ShellEnds(p)
                      \/ RemoteLost(p) \/ PumpRetry(p) \/ PumpGivesUp(p) \/ Linger(p)
  \/ SessionsRestart

SessionsSpec == SessionsInit /\ [][SessionsNext]_sessionVars

-----------------------------------------------------------------------------
\* Types of the sockets, the calls and the sessions.
SessionsTypeOK ==
  /\ sock \in [Sockets -> {"new", "on", "gone"}]
  /\ data \in [Sockets -> [pty : 0 .. MaxOpens, lis : 0 .. MaxOpens]]
  /\ \A l \in Calls : call[l].pc \in Waiting \cup {"free", "done", "failed"} /\ call[l].pty \in 0 .. MaxOpens
  /\ byWorkspace \in [kind : {"none", "res", "pty"}, id : 0 .. MaxOpens]
  /\ ses \in [Calls -> [st : {"none", "live", "ended", "deleted"}, lis : 0 .. MaxOpens,
                        timer : {"off", "on", "fired"}, closing : {0, 1},
                        fails : 0 .. PumpRetries, out : 0 .. MaxOut,
                        remote : {"none", "running", "gone"},
                        got : UNION {[1 .. n -> 1 .. MaxOut] : n \in 0 .. MaxOut}, heard : {"no", "yes"}]]
  /\ raced \subseteq Calls

\* A live session is the one its workspace's key names: however openings, closings and
\* failures interleave, there are never two, and the app can always find the one there is.
OneSession == \A p \in Calls : ses[p].st = "live" => byWorkspace = [kind |-> "pty", id |-> p]

\* A live session without a listener has a deadline running or is being closed: a
\* detachment, a keepalive, output or a resumption that was cut never leaves it without.
UnattendedIsTimed ==
  \A p \in Calls : ses[p].st = "live" /\ ses[p].lis = 0 => ses[p].timer = "on" \/ ses[p].closing = 1

\* The listener of a live session that is not being closed belongs to a connected socket,
\* unless that socket went, or opened again, while its pty:open was waiting.
DeadListenerRaced ==
  \A p \in Calls : /\ ses[p].st = "live" /\ ses[p].lis # 0 /\ ses[p].closing = 0
                   => sock[call[ses[p].lis].by] = "on" \/ ses[p].lis \in raced

\* A session's end is audited at most once, though close, the deadline, the shell's exit
\* and the pump may all end it.
ClosedOnce == \A p \in Calls : closeAudits[p] <= 1 /\ (closeAudits[p] = 1 => ses[p].st # "live")

\* The app a session is attached to has its output without a gap up to now, what was
\* said while it was away included as far as the ring reaches, and its end.
AppUpToDate ==
  \A p \in Calls : ses[p].st \in {"live", "ended"} /\ ses[p].lis # 0 =>
    LET got == ses[p].got IN
      /\ \A i \in 1 .. Len(got) : got[i] = ses[p].out - Len(got) + i
      /\ Len(got) >= (IF ses[p].out < RingCap THEN ses[p].out ELSE RingCap)
      /\ ses[p].heard = IF ses[p].st = "ended" THEN "yes" ELSE "no"

\* The sessions of a workspace, over lost connections, resumptions, timers and restarts: one at
\* a time, never unattended without a deadline, no listener of a dead socket but a raced one,
\* closed once, and the app that is attached has all of the output.
SessionsInv ==
  /\ SessionsTypeOK /\ OneSession /\ UnattendedIsTimed
  /\ DeadListenerRaced /\ ClosedOnce /\ AppUpToDate
=============================================================================
