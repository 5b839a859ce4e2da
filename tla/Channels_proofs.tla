-------------------------- MODULE Channels_proofs ---------------------------
(***************************************************************************)
(* Proofs about what reaches the owner: the notices of the iOS app (Push), *)
(* the live activity of a run (LiveActivity) and the bridge to Claude Code *)
(* (Relay), for every number of devices, notices, handlers, tickets, calls *)
(* and faults.                                                             *)
(***************************************************************************)
EXTENDS Push, LiveActivity, Relay, Integers, FiniteSetTheorems, SequenceTheorems, TLAPS

(***************************************************************************)
(* Push                                                                    *)
(***************************************************************************)

Targets == [d : Devices, env : {"none", "sandbox", "production"}]
CastSteps == {"none", "read", "list", "next", "send", "delete", "done", "aborted"}
Casts == [pc : CastSteps, left : SUBSET Targets, to : Targets \cup {NoDevice}]

PushShape ==
  /\ device \in [Devices -> [env : {"none", "sandbox", "production"}, pref : Preferences]]
  /\ token \in [Devices -> {"live", "dead"}]
  /\ cast \in [Notices -> Casts]
  /\ shown \in [Devices -> SUBSET Notices]
  /\ due \in [Notices -> SUBSET Devices] /\ tried \in [Notices -> SUBSET Devices] /\ wronged \subseteq Devices

\* Where the devices are that a notice is due to: one broadcast, with the devices as they are.
CastOK(c, owed, sent, wrong, wanting) ==
  /\ c.pc \in Over => c.left = {}
  /\ c.pc \in {"send", "delete"} => c.to \in Targets
  /\ c.pc \in {"read", "list"} => owed \subseteq wanting \cup wrong
  /\ c.pc = "next" => owed \subseteq sent \cup wrong \cup {t.d : t \in c.left}
  /\ c.pc = "send" => owed \subseteq sent \cup wrong \cup {t.d : t \in c.left} \cup {c.to.d}
  /\ c.pc = "delete" => owed \subseteq sent \cup wrong \cup {t.d : t \in c.left}
  /\ c.pc = "done" => owed \subseteq sent \cup wrong

CastsOK ==
  \A n \in Notices : CastOK(cast[n], due[n], tried[n], wronged, Wanting(n.kind))

PushSafe == PushShape /\ CastsOK /\ OneNoticePerApproval

(***************************************************************************)
(* LiveActivity                                                            *)
(***************************************************************************)

Statuses == {"pending", "in-progress"} \cup Final
RunStatuses == {"running", "blocked", "done", "failed", "killed"}
TicketStates == [Tickets -> Statuses]
CommentStates == [Tickets -> SUBSET {"conflict", "resolution"}]
HandlerSteps == {"idle", "run", "tickets", "comments", "tokens", "start", "send"}
Readers == [pc : HandlerSteps, event : Nat, run : RunStatuses, tickets : TicketStates, comments : CommentStates]
Phones == [shows : {"nothing", "activity", "ended"}, state : ContentStates, of : Nat]
Rotations == [given : 0 .. MaxRotations, waits : SUBSET (1 .. MaxRotations)]

RunShape ==
  /\ stage \in {"new", "batches", "reconciled", "completed"} /\ runStatus \in RunStatuses
  /\ ticket \in TicketStates /\ comment \in CommentStates

TokenShape ==
  /\ updateToken \in {"none", "fresh", "old"} /\ startTokens \subseteq 1 .. MaxRotations /\ rotation \in Rotations
  /\ pushFaults \in Nat /\ crossed \in {"no", "yes"} /\ followed \in {"no", "late", "yes"}

ActivityShape ==
  /\ RunShape /\ TokenShape
  /\ handler \in [Handlers -> Readers] /\ phone \in Phones /\ event \in Nat /\ starts \in Nat

\* The run: comments come with a blocked run, and a run that is done has all its tickets done.
RunOK ==
  /\ stage = "new" => event = 0 /\ runStatus = "running" /\ (\A t \in Tickets : ticket[t] = "pending")
  /\ stage # "new" => event >= 1
  /\ stage # "completed" <=> runStatus = "running"
  /\ stage \in {"new", "batches"} => \A t \in Tickets : comment[t] = {}
  /\ stage = "completed" /\ runStatus # "blocked" => \A t \in Tickets : comment[t] = {}
  /\ runStatus = "done" => \A t \in Tickets : ticket[t] = "done"
  /\ event >= 2 => runStatus = "killed" \/ \E t \in Tickets : ticket[t] # "pending"

\* What a handler has read of the run, given the last event, the run's status and its tickets.
HandlerOK(r, e, run, tickets) ==
  /\ r.pc # "idle" => r.event \in 1 .. e
  /\ r.run # "running" => r.run = run
  /\ r.pc = "tickets" /\ r.event >= 2 => r.run = "killed" \/ \E t \in Tickets : tickets[t] # "pending"
  /\ r.pc \in {"comments", "tokens", "start", "send"} =>
       /\ r.run = "done" => \A t \in Tickets : r.tickets[t] = "done"
       /\ r.event >= 2 => r.run = "killed" \/ \E t \in Tickets : r.tickets[t] # "pending"
       /\ \A t \in Tickets : r.tickets[t] = "blocked" => tickets[t] = "blocked"
  /\ r.pc \in {"tokens", "start", "send"} /\ r.run = "done" => \A t \in Tickets : r.comments[t] = {}
  /\ r.pc = "start" => r.event = 1 \/ \E t \in Tickets : tickets[t] = "blocked"

HandlersOK == \A h \in Handlers : HandlerOK(handler[h], event, runStatus, ticket)

\* Each event has one handler, which reaches the phone once.
EventsDiffer ==
  /\ phone.of <= event
  /\ \A h \in Handlers : handler[h].pc # "idle" => handler[h].event # phone.of
  /\ \A h, k \in Handlers : handler[h].pc # "idle" /\ handler[k].pc # "idle" /\ handler[h].event = handler[k].event => h = k

\* The handler of the first event starts the activity, and only it.
StartsOK ==
  /\ event = 0 => starts = 0
  /\ \/ \E t \in Tickets : ticket[t] = "blocked"
     \/ starts = 0
     \/ starts = 1 /\ \A h \in Handlers : handler[h].pc # "idle" => handler[h].event >= 2

\* A state of the activity is that of the completed run.
ShowsEnd(state, run, tickets, comments) ==
  /\ state.phase = Phase(run, Segments(tickets, comments))
  /\ \A t \in Tickets : "resolution" \in comments[t] \/ state.segments[t] = Segment(tickets[t], comments[t])

\* The handler of the last event has read the run as it ended.
LastReads(r, run, tickets, comments) ==
  /\ r.pc \in {"run", "tickets", "comments", "tokens", "send"}
  /\ r.pc \in {"tickets", "comments", "tokens", "send"} => r.run = run
  /\ r.pc \in {"comments", "tokens", "send"} => r.tickets = tickets
  /\ r.pc \in {"tokens", "send"} => \A t \in Tickets : r.comments[t] = comments[t] \/ "resolution" \in comments[t]

\* The phone follows the run, and nothing failed or crossed.
Following == pushFaults = 0 /\ crossed = "no" /\ updateToken = "fresh" /\ followed = "yes"

EndIsUnderWay ==
  stage = "completed" /\ Following =>
    \/ \E h \in Handlers : handler[h].event = event /\ LastReads(handler[h], runStatus, ticket, comment)
    \/ ShowsEnd(phone.state, runStatus, ticket, comment) /\ (phone.of = event \/ phone.shows = "ended")

\* The phone: what it shows as done is done.
PhoneIs(p, run, follows) ==
  /\ p.shows = "ended" => p.state.phase = "done"
  /\ p.state.phase = "done" => run = "done" /\ \A t \in Tickets : p.state.segments[t] = "done"
  /\ follows # "no" => p.shows # "nothing"

PhoneOK == PhoneIs(phone, runStatus, followed)

ActivitySafe ==
  ActivityShape /\ RunOK /\ HandlersOK /\ EventsDiffer /\ StartsOK /\ EndIsUnderWay /\ PhoneOK

(***************************************************************************)
(* Relay                                                                   *)
(***************************************************************************)

SendSteps == {"free", "insert", "deliver", "attach", "done", "failed", "refused"}
Updates == [kind : {"none", "tap", "text"}, of : 0 .. MaxSends, nr : 0 .. 2, known : {"no", "yes"}]
InRows == [via : {"tap", "text", "dashboard"}, to : 0 .. MaxSends, up : Updates, taken : 0 .. 1]

Calls == [pc : SendSteps, chunks : 1 .. 2, asks : {"no", "yes"}, sent : 0 .. 2]
Chunks == [of : Sends, nr : 1 .. 2, keys : {"no", "yes"}]
Bots == [pc : {"idle", "check", "insert"}, up : Updates]
RowStates == {"none", "row", "attached"}

RelayShape ==
  /\ send \in [Sends -> Calls]
  /\ out \in [Sends -> RowStates] /\ recent \subseteq Sends
  /\ inb \in Seq(InRows) /\ updates \in Seq(Updates)
  /\ chat \subseteq Chunks
  /\ bot \in Bots
  /\ crowded \in {"no", "yes"} /\ raced \subseteq 0 .. MaxSends /\ relayFaults \in Nat

\* One call of send: the row is there before a chunk is, and attached once the call returned.
SendOK(r, row) ==
  /\ r.sent <= r.chunks /\ (r.pc = "insert" => r.sent = 0) /\ (r.pc = "deliver" => r.sent < r.chunks)
  /\ r.pc \in {"deliver", "attach"} => row # "none"
  /\ r.pc = "done" => row = "attached"

SendsOK == \A s \in Sends : SendOK(send[s], out[s])

\* An update is about a message the owner had: its row is there, and so is its call's end if
\* the owner knew of it.
UpdateOK(u, sends, rows) ==
  /\ u.kind = "tap" => u.of \in Sends /\ rows[u.of] # "none"
  /\ u.known = "yes" => u.of \in Sends /\ sends[u.of].pc = "done"

UpdatesOK ==
  /\ \A i \in 1 .. Len(updates) : UpdateOK(updates[i], send, out)
  /\ \A i \in 1 .. Len(inb) : UpdateOK(inb[i].up, send, out)
  /\ UpdateOK(bot.up, send, out) /\ (bot.pc # "idle" => bot.up.kind = "tap")
  /\ \A m \in chat : out[m.of] # "none"

\* The quota: one call at a time is between the count and the insert, and it found room.
QuotaOK ==
  crowded = "no" =>
    /\ Cardinality(recent) <= MaxOutPerHour
    /\ \A s \in Sends : send[s].pc = "insert" =>
         Cardinality(recent) < MaxOutPerHour /\ \A k \in Sends : send[k].pc = "insert" => k = s

\* A tap that was checked still comes first, unless the dashboard came between.
CheckedIsFirst ==
  bot.pc = "insert" /\ bot.up.of \notin raced => \A i \in 1 .. Len(inb) : inb[i].to # bot.up.of

RelaySafe ==
  RelayShape /\ SendsOK /\ UpdatesOK /\ QuotaOK /\ CheckedIsFirst /\ TapFindsQuestion /\ TapAnswersFirst /\ CitationKept


-----------------------------------------------------------------------------
\* A broadcast owes no more when fewer devices are due, and more were tried, wronged or want it.
LEMMA OwesNoMore ==
  ASSUME NEW c, NEW owed, NEW sent, NEW wrong, NEW wanting, CastOK(c, owed, sent, wrong, wanting),
         NEW owed2 \in SUBSET owed, NEW wrong2, wrong \subseteq wrong2, NEW wanting2,
         owed2 \cap wanting \subseteq wanting2 \cup wrong2
  PROVE  CastOK(c, owed2, sent, wrong2, wanting2)
BY DEF CastOK

\* A step of one broadcast that leaves the devices and the other broadcasts alone.
LEMMA OneCastMoves ==
  ASSUME PushSafe, NEW n \in Notices, NEW c \in Casts, cast' = [cast EXCEPT ![n] = c],
         UNCHANGED <<device, token, wronged>>,
         due' \in [Notices -> SUBSET Devices], tried' \in [Notices -> SUBSET Devices],
         shown' \in [Devices -> SUBSET Notices],
         \A m \in Notices \ {n} : due'[m] = due[m] /\ tried'[m] = tried[m],
         CastOK(c, due'[n], tried'[n], wronged, Wanting(n.kind)),
         OneNoticePerApproval'
  PROVE  PushSafe'
<1> USE DEF PushSafe
<1>1. PushShape'
  BY DEF PushShape
<1>2. cast'[n] = c /\ \A m \in Notices \ {n} : cast'[m] = cast[m]
  BY DEF PushShape
<1>3. \A m \in Notices : Wanting(m.kind)' = Wanting(m.kind)
  BY DEF Wanting
<1>4. CastsOK'
  <2> SUFFICES ASSUME NEW m \in Notices
               PROVE  CastOK(cast'[m], due'[m], tried'[m], wronged, Wanting(m.kind))
    BY <1>3 DEF CastsOK
  <2>1. CASE m = n
    BY <1>2, <2>1
  <2>2. CASE m # n
    BY <1>2, <2>2 DEF CastsOK
  <2> QED
    BY <2>1, <2>2
<1> QED
  BY <1>1, <1>4

\* What a broadcast has read and is about to send.
LEMMA HandlerIsCast == Handler \in Casts /\ Handler.pc = "list" /\ Handler.left = {} /\ Handler.to = NoDevice
BY DEF Handler, Casts, CastSteps, Targets

\* An event, the read of its row and a query that fails.
LEMMA QuietCastStep ==
  ASSUME PushSafe, NEW n \in Notices, OnEvent(n) \/ ReadRow(n) \/ QueryFails(n)
  PROVE  PushSafe'
<1> USE DEF PushSafe
<1>1. cast[n] \in Casts /\ CastOK(cast[n], due[n], tried[n], wronged, Wanting(n.kind)) /\ Wanting(n.kind) \subseteq Devices
  BY DEF PushShape, CastsOK, Wanting
<1>2. UNCHANGED <<device, token, shown, tried, wronged>>
  BY DEF OnEvent, ReadRow, QueryFails
<1>3. OneNoticePerApproval'
  BY <1>2 DEF OneNoticePerApproval
<1>4. CASE OnEvent(n)
  <2> PICK c : c = IF n.kind \in {"approval_new", "bridge_message"} THEN [Handler EXCEPT !.pc = "read"] ELSE Handler
    OBVIOUS
  <2>1. c \in Casts /\ c.pc \in {"read", "list"}
    BY HandlerIsCast DEF Casts, CastSteps
  <2>2. cast' = [cast EXCEPT ![n] = c] /\ due' = [due EXCEPT ![n] = Wanting(n.kind)]
    BY <1>4 DEF OnEvent
  <2>3. due' \in [Notices -> SUBSET Devices] /\ due'[n] = Wanting(n.kind) /\ \A m \in Notices \ {n} : due'[m] = due[m]
    BY <1>1, <2>2 DEF PushShape
  <2>4. CastOK(c, due'[n], tried'[n], wronged, Wanting(n.kind))
    BY <2>1, <2>3 DEF CastOK, Over
  <2> QED
    BY <1>2, <1>3, <2>1, <2>2, <2>3, <2>4, OneCastMoves DEF PushShape
<1>5. CASE ReadRow(n)
  <2> PICK c : c = [cast[n] EXCEPT !.pc = "list"]
    OBVIOUS
  <2>1. c \in Casts /\ c.pc = "list"
    BY <1>1 DEF Casts, CastSteps
  <2>2. cast' = [cast EXCEPT ![n] = c] /\ due' = due /\ cast[n].pc = "read"
    BY <1>5 DEF ReadRow
  <2>3. CastOK(c, due'[n], tried'[n], wronged, Wanting(n.kind))
    BY <1>1, <1>2, <2>1, <2>2 DEF CastOK, Over
  <2> QED
    BY <1>2, <1>3, <2>1, <2>2, <2>3, OneCastMoves DEF PushShape
<1>6. CASE QueryFails(n)
  <2> PICK c : c = [Handler EXCEPT !.pc = "aborted"]
    OBVIOUS
  <2>1. c \in Casts /\ c.pc = "aborted" /\ c.left = {}
    BY HandlerIsCast DEF Casts, CastSteps
  <2>2. cast' = [cast EXCEPT ![n] = c] /\ due' = due
    BY <1>6 DEF QueryFails
  <2>3. CastOK(c, due'[n], tried'[n], wronged, Wanting(n.kind))
    BY <2>1 DEF CastOK, Over
  <2> QED
    BY <1>2, <1>3, <2>1, <2>2, <2>3, OneCastMoves DEF PushShape
<1> QED
  BY <1>4, <1>5, <1>6

\* The devices that want the notice are listed, and taken one by one.
LEMMA ListStep ==
  ASSUME PushSafe, NEW n \in Notices, ListDevices(n) \/ NextDevice(n)
  PROVE  PushSafe'
<1> USE DEF PushSafe
<1>1. cast[n] \in Casts /\ CastOK(cast[n], due[n], tried[n], wronged, Wanting(n.kind)) /\ Wanting(n.kind) \subseteq Devices
  BY DEF PushShape, CastsOK, Wanting
<1>2. UNCHANGED <<device, token, shown, due, tried, wronged>>
  BY DEF ListDevices, NextDevice
<1>3. OneNoticePerApproval'
  BY <1>2 DEF OneNoticePerApproval
<1>4. CASE ListDevices(n)
  <2> PICK left : left = {[d |-> d, env |-> device[d].env] : d \in Wanting(n.kind)}
    OBVIOUS
  <2> PICK c : c = [cast[n] EXCEPT !.pc = "next", !.left = left]
    OBVIOUS
  <2>1. left \in SUBSET Targets
    BY <1>1 DEF Targets, PushShape
  <2>2. c \in Casts /\ c.pc = "next" /\ c.left = left
    BY <1>1, <2>1 DEF Casts, CastSteps
  <2>3. cast' = [cast EXCEPT ![n] = c] /\ cast[n].pc = "list"
    BY <1>4 DEF ListDevices
  <2>4. Wanting(n.kind) \subseteq {t.d : t \in left}
    <3> SUFFICES ASSUME NEW d \in Wanting(n.kind) PROVE \E t \in left : d = t.d
      OBVIOUS
    <3>1. [d |-> d, env |-> device[d].env] \in left
      OBVIOUS
    <3> QED
      BY <3>1
  <2>5. CastOK(c, due'[n], tried'[n], wronged, Wanting(n.kind))
    BY <1>1, <1>2, <2>2, <2>3, <2>4 DEF CastOK, Over
  <2> QED
    BY <1>2, <1>3, <2>2, <2>3, <2>5, OneCastMoves DEF PushShape
<1>5. CASE NextDevice(n) /\ cast[n].left = {}
  <2> PICK c : c = [Handler EXCEPT !.pc = "done"]
    OBVIOUS
  <2>1. c \in Casts /\ c.pc = "done" /\ c.left = {}
    BY HandlerIsCast DEF Casts, CastSteps
  <2>2. cast' = [cast EXCEPT ![n] = c] /\ cast[n].pc = "next"
    BY <1>5 DEF NextDevice
  <2>3. {t.d : t \in cast[n].left} = {}
    BY <1>5
  <2>4. CastOK(c, due'[n], tried'[n], wronged, Wanting(n.kind))
    BY <1>1, <1>2, <2>1, <2>2, <2>3 DEF CastOK, Over
  <2> QED
    BY <1>2, <1>3, <2>1, <2>2, <2>4, OneCastMoves DEF PushShape
<1>6. CASE NextDevice(n) /\ cast[n].left # {}
  <2> PICK to \in cast[n].left : cast' = [cast EXCEPT ![n] = [pc |-> "send", left |-> cast[n].left \ {to}, to |-> to]]
    BY <1>6 DEF NextDevice
  <2> PICK c : c = [pc |-> "send", left |-> cast[n].left \ {to}, to |-> to]
    OBVIOUS
  <2>1. c \in Casts /\ c.pc = "send" /\ c.left = cast[n].left \ {to} /\ c.to = to /\ to \in Targets
    BY <1>1 DEF Casts, CastSteps
  <2>2. cast' = [cast EXCEPT ![n] = c] /\ cast[n].pc = "next"
    BY <1>6 DEF NextDevice
  <2>3. {t.d : t \in cast[n].left} \subseteq {t.d : t \in cast[n].left \ {to}} \cup {to.d}
    OBVIOUS
  <2>4. CastOK(c, due'[n], tried'[n], wronged, Wanting(n.kind))
    BY <1>1, <1>2, <2>1, <2>2, <2>3 DEF CastOK, Over
  <2> QED
    BY <1>2, <1>3, <2>1, <2>2, <2>4, OneCastMoves DEF PushShape
<1> QED
  BY <1>4, <1>5, <1>6

\* Two notices of one approval.
SameApproval(k, o) ==
  k.kind \in {"approval_new", "approval_expiring"} /\ o.kind \in {"approval_new", "approval_expiring"} /\ k.ref = o.ref

\* An alert that is shown takes the place of the notices of the same approval.
LEMMA AlertReplaces ==
  ASSUME NEW S \in SUBSET Events, NEW n \in Events,
         \A k, o \in S : SameApproval(k, o) => k = o
  PROVE  /\ Alert(S, n) \subseteq S \cup {n}
         /\ \A k, o \in Alert(S, n) : SameApproval(k, o) => k = o
<1>1. ASSUME NEW o \in Alert(S, n), o.kind \in {"approval_new", "approval_expiring"}, o # n,
             n.kind \in {"approval_new", "approval_expiring"}
      PROVE  o.ref # n.ref
  BY <1>1 DEF Alert, CollapseApproval, CollapseKillSwitch, KeptNotices, Events
<1>2. \A o \in Alert(S, n) : o # n => o \in S
  BY DEF Alert
<1> QED
  BY <1>1, <1>2 DEF SameApproval

\* Apple's answers: taken, none, or refused for good.
LEMMA AnswerStep ==
  ASSUME PushSafe, NEW n \in Notices, Delivered(n) \/ Unanswered(n) \/ Refused(n)
  PROVE  PushSafe'
<1> USE DEF PushSafe
<1>1. cast[n] \in Casts /\ CastOK(cast[n], due[n], tried[n], wronged, Wanting(n.kind)) /\ cast[n].pc = "send"
  BY DEF PushShape, CastsOK, Delivered, Unanswered, Refused, Sending
<1>2. cast[n].to \in Targets /\ To(n) \in Devices
  BY <1>1 DEF CastOK, To, Targets
<1>3. UNCHANGED <<device, token, due, wronged>> /\ tried' = [tried EXCEPT ![n] = @ \cup {To(n)}]
  BY DEF Delivered, Unanswered, Refused
<1>4. PICK pc \in {"next", "delete"} : cast' = [cast EXCEPT ![n].pc = pc]
  BY DEF Delivered, Unanswered, Refused
<1> PICK c : c = [cast[n] EXCEPT !.pc = pc]
  OBVIOUS
<1>5. c \in Casts /\ c.pc = pc /\ c.left = cast[n].left /\ c.to = cast[n].to /\ cast' = [cast EXCEPT ![n] = c]
  BY <1>1, <1>4 DEF Casts, CastSteps
<1>6. /\ tried' \in [Notices -> SUBSET Devices] /\ tried'[n] = tried[n] \cup {cast[n].to.d}
      /\ \A m \in Notices \ {n} : tried'[m] = tried[m]
  BY <1>2, <1>3 DEF PushShape, To
<1>7. CastOK(c, due'[n], tried'[n], wronged, Wanting(n.kind))
  BY <1>1, <1>2, <1>3, <1>5, <1>6 DEF CastOK, Over
<1>8. shown' \in [Devices -> SUBSET Notices] /\ OneNoticePerApproval'
  <2>1. CASE UNCHANGED shown
    BY <2>1 DEF PushShape, OneNoticePerApproval
  <2>2. CASE shown' = [shown EXCEPT ![To(n)] = Alert(shown[To(n)], n)]
    <3>1. shown[To(n)] \in SUBSET Events /\ n \in Events /\ shown[To(n)] \subseteq Notices
      BY <1>2, NoticesAssumption DEF PushShape
    <3>2. /\ Alert(shown[To(n)], n) \subseteq shown[To(n)] \cup {n}
          /\ \A k, o \in Alert(shown[To(n)], n) : SameApproval(k, o) => k = o
      <4>1. \A k, o \in shown[To(n)] : SameApproval(k, o) => k = o
        BY <1>2 DEF OneNoticePerApproval, SameApproval
      <4> QED
        BY <3>1, <4>1, AlertReplaces
    <3> HIDE DEF Alert
    <3>3. shown' \in [Devices -> SUBSET Notices]
      BY <1>2, <2>2, <3>1, <3>2 DEF PushShape
    <3>4. shown'[To(n)] = Alert(shown[To(n)], n) /\ \A d \in Devices : d # To(n) => shown'[d] = shown[d]
      BY <1>2, <2>2 DEF PushShape
    <3>5. OneNoticePerApproval'
      <4> SUFFICES ASSUME NEW d \in Devices
                   PROVE  \A k, o \in shown'[d] : SameApproval(k, o) => k = o
        BY DEF OneNoticePerApproval, SameApproval
      <4>1. CASE d = To(n)
        BY <3>2, <3>4, <4>1
      <4>2. CASE d # To(n)
        BY <3>4, <4>2 DEF OneNoticePerApproval, SameApproval
      <4> QED
        BY <4>1, <4>2
    <3> QED
      BY <3>3, <3>5
  <2> QED
    BY <2>1, <2>2 DEF Delivered, Unanswered, Refused
<1> QED
  BY <1>3, <1>5, <1>6, <1>7, <1>8, OneCastMoves DEF PushShape


\* A device is taken off the list, or comes back: who is owed by no fault of the service is not
\* due any more, and who was wronged is counted.
LEMMA DevicesMove ==
  ASSUME PushSafe, NEW d \in Devices,
         device' \in [Devices -> [env : {"none", "sandbox", "production"}, pref : Preferences]],
         \A e \in Devices \ {d} : device'[e] = device[e],
         UNCHANGED <<token, shown, tried>>, wronged \subseteq wronged', wronged' \subseteq Devices,
         due' \in [Notices -> SUBSET Devices], \A m \in Notices : due'[m] \subseteq due[m],
         \/ \A m \in Notices : d \notin due'[m]
         \/ d \in wronged'
         \/ device'[d].env # "none" /\ device'[d].pref = device[d].pref,
         NEW n \in Notices, NEW c \in Casts, cast' = [cast EXCEPT ![n] = c],
         CastOK(c, due[n], tried[n], wronged, Wanting(n.kind))
  PROVE  PushSafe'
<1> USE DEF PushSafe
<1>1. PushShape' /\ OneNoticePerApproval'
  BY DEF PushShape, OneNoticePerApproval
<1>2. cast'[n] = c /\ \A m \in Notices : m # n => cast'[m] = cast[m]
  BY DEF PushShape
<1>3. ASSUME NEW m \in Notices
      PROVE  CastOK(cast'[m], due'[m], tried[m], wronged', Wanting(m.kind)')
  <2>1. CastOK(cast'[m], due[m], tried[m], wronged, Wanting(m.kind))
    BY <1>2 DEF CastsOK
  <2>2. due'[m] \cap Wanting(m.kind) \subseteq Wanting(m.kind)' \cup wronged'
    BY DEF Wanting
  <2> QED
    BY <2>1, <2>2, OwesNoMore
<1>4. CastsOK'
  BY <1>3 DEF CastsOK
<1> QED
  BY <1>1, <1>4

\* A device that is refused is deleted, by its token only.
LEMMA DeleteRefusedStep ==
  ASSUME PushSafe, NEW n \in Notices, DeleteRefused(n)
  PROVE  PushSafe'
<1> USE DEF PushSafe
<1>1. cast[n] \in Casts /\ CastOK(cast[n], due[n], tried[n], wronged, Wanting(n.kind)) /\ cast[n].pc = "delete"
  BY DEF PushShape, CastsOK, DeleteRefused
<1> PICK d : d = To(n)
  OBVIOUS
<1>2. d \in Devices
  BY <1>1 DEF CastOK, To, Targets
<1> PICK c : c = [cast[n] EXCEPT !.pc = "next"]
  OBVIOUS
<1>3. c \in Casts /\ c.pc = "next" /\ c.left = cast[n].left /\ cast' = [cast EXCEPT ![n] = c]
  BY <1>1 DEF Casts, CastSteps, DeleteRefused
<1>4. CastOK(c, due[n], tried[n], wronged, Wanting(n.kind))
  BY <1>1, <1>3 DEF CastOK, Over
<1>5. device' = [device EXCEPT ![d] = NoDevice] /\ UNCHANGED <<token, shown, tried>>
      /\ \/ due' = [m \in Notices |-> due[m] \ {d}] /\ wronged' = wronged
         \/ wronged' = wronged \cup {d} /\ due' = due
  BY DEF DeleteRefused, NotDue
<1>6. device' \in [Devices -> [env : {"none", "sandbox", "production"}, pref : Preferences]] /\ \A e \in Devices \ {d} : device'[e] = device[e]
  BY <1>5 DEF PushShape, NoDevice, Preferences
<1>7. /\ wronged \subseteq wronged' /\ wronged' \subseteq Devices /\ due' \in [Notices -> SUBSET Devices]
      /\ \A m \in Notices : due'[m] \subseteq due[m]
      /\ (\A m \in Notices : d \notin due'[m]) \/ d \in wronged'
  BY <1>2, <1>5 DEF PushShape
<1> QED
  BY <1>2, <1>3, <1>4, <1>5, <1>6, <1>7, DevicesMove

\* The phones register, leave and are uninstalled.
LEMMA PhoneStep ==
  ASSUME PushSafe, NEW d \in Devices, RegisterDevice(d) \/ UnregisterDevice(d) \/ Uninstall(d)
  PROVE  PushSafe'
<1> USE DEF PushSafe
<1>1. UNCHANGED <<cast, shown, tried, wronged>>
  BY DEF RegisterDevice, UnregisterDevice, Uninstall
<1>2. CASE Uninstall(d)
  <2>1. UNCHANGED <<device, due>> /\ token' \in [Devices -> {"live", "dead"}]
    BY <1>2 DEF Uninstall, PushShape
  <2> QED
    BY <1>1, <2>1 DEF PushShape, CastsOK, Wanting, OneNoticePerApproval
<1>3. CASE RegisterDevice(d) \/ UnregisterDevice(d)
  <2>1. token' = token
    BY <1>3 DEF RegisterDevice, UnregisterDevice
  <2>2. /\ device' \in [Devices -> [env : {"none", "sandbox", "production"}, pref : Preferences]]
        /\ \A e \in Devices \ {d} : device'[e] = device[e]
        /\ \/ due' = [m \in Notices |-> due[m] \ {d}]
           \/ due' = due /\ device'[d].env # "none" /\ device'[d].pref = device[d].pref
    <3>1. CASE RegisterDevice(d)
      <4>1. PICK env \in {"sandbox", "production"}, pref \in Preferences :
             /\ device' = [device EXCEPT ![d] = [env |-> env, pref |-> pref]]
             /\ IF pref = device[d].pref THEN UNCHANGED due ELSE NotDue(d)
        BY <3>1 DEF RegisterDevice
      <4> QED
        BY <4>1 DEF PushShape, NotDue
    <3>2. CASE UnregisterDevice(d)
      BY <3>2 DEF UnregisterDevice, PushShape, NotDue, NoDevice, Preferences
    <3> QED
      BY <1>3, <3>1, <3>2
  <2>3. CASE Notices = {}
    <3>1. due' \in [Notices -> SUBSET Devices]
      BY <2>2, <2>3 DEF PushShape
    <3> QED
      BY <1>1, <2>1, <2>2, <2>3, <3>1 DEF PushShape, CastsOK, OneNoticePerApproval
  <2>4. ASSUME NEW n \in Notices PROVE PushSafe'
    <3>1. cast[n] \in Casts /\ CastOK(cast[n], due[n], tried[n], wronged, Wanting(n.kind)) /\ cast' = [cast EXCEPT ![n] = cast[n]]
      BY <1>1 DEF PushShape, CastsOK
    <3>2. /\ due' \in [Notices -> SUBSET Devices] /\ (\A m \in Notices : due'[m] \subseteq due[m])
          /\ \/ \A m \in Notices : d \notin due'[m]
             \/ device'[d].env # "none" /\ device'[d].pref = device[d].pref
      BY <2>2 DEF PushShape
    <3>3. wronged \subseteq wronged' /\ wronged' \subseteq Devices
      BY <1>1 DEF PushShape
    <3> QED
      BY <1>1, <2>1, <2>2, <3>1, <3>2, <3>3, DevicesMove
  <2> QED
    BY <2>3, <2>4
<1> QED
  BY <1>2, <1>3

\* The inductive invariant of the notices, for every number of devices, notices and faults.
THEOREM PushSafety == PushSpec => []PushSafe
<1>1. PushInit => PushSafe
  <2> SUFFICES ASSUME PushInit PROVE PushSafe
    OBVIOUS
  <2>1. \A n \in Notices : cast[n] \in Casts /\ cast[n].pc = "none"
    BY HandlerIsCast DEF PushInit, Casts, CastSteps
  <2>2. cast \in [Notices -> Casts]
    BY <2>1 DEF PushInit
  <2>3. PushShape
    BY <2>2 DEF PushInit, PushShape, NoDevice, Preferences
  <2>4. CastsOK
    BY <2>1 DEF CastsOK, CastOK, Over
  <2>5. OneNoticePerApproval
    BY DEF PushInit, OneNoticePerApproval
  <2> QED
    BY <2>3, <2>4, <2>5 DEF PushSafe
<1>2. PushSafe /\ [PushNext]_pushVars => PushSafe'
  <2>1. ASSUME PushSafe, UNCHANGED pushVars PROVE PushSafe'
    BY <2>1 DEF pushVars, PushSafe, PushShape, CastsOK, Wanting, OneNoticePerApproval
  <2> QED
    BY <2>1, QuietCastStep, ListStep, AnswerStep, DeleteRefusedStep, PhoneStep DEF PushNext
<1> QED
  BY <1>1, <1>2, PTL DEF PushSpec

\* A broadcast that ran to its end was sent to every device it was due to, whatever Apple answered
\* for the others, and a phone shows one notice of an approval.
THEOREM NoticesReachTheirDevices == PushSpec => []PushInv
<1>1. PushSafe => PushInv
  <2> SUFFICES ASSUME PushSafe PROVE PushTypeOK /\ DueIsTried /\ OneNoticePerApproval
    BY DEF PushInv
  <2>1. \A n \in Notices : cast[n].pc \in CastSteps /\ (cast[n].pc \in Over => cast[n].left = {})
    BY DEF PushSafe, PushShape, Casts, CastsOK, CastOK
  <2>2. PushTypeOK
    BY <2>1, NoticesAssumption DEF PushSafe, PushShape, PushTypeOK, CastSteps, Over
  <2>3. DueIsTried
    BY DEF PushSafe, CastsOK, CastOK, DueIsTried
  <2> QED
    BY <2>2, <2>3 DEF PushSafe
<1> QED
  BY <1>1, PushSafety, PTL


-----------------------------------------------------------------------------
\* What an update says of the calls and the rows stays true: a row stays, and so does the end of a call.
LEMMA UpdateStaysTrue ==
  ASSUME NEW u, NEW sends, NEW sends2, NEW rows, NEW rows2, UpdateOK(u, sends, rows),
         \A s \in Sends : rows[s] # "none" => rows2[s] # "none",
         \A s \in Sends : sends[s].pc = "done" => sends2[s].pc = "done"
  PROVE  UpdateOK(u, sends2, rows2)
BY DEF UpdateOK

\* A step that adds no row of the owner's: what it must keep of the calls, the quota, the chat,
\* the updates and the bot.
LEMMA NoRowComes ==
  ASSUME RelaySafe, UNCHANGED <<inb, raced, unknown>>,
         send' \in [Sends -> Calls],
         out' \in [Sends -> RowStates], recent' \subseteq Sends, SendsOK', QuotaOK',
         crowded' \in {"no", "yes"}, relayFaults' \in Nat,
         \A s \in Sends : out[s] # "none" => out'[s] # "none",
         \A s \in Sends : send[s].pc = "done" => send'[s].pc = "done" /\ send'[s].asks = send[s].asks,
         chat' \subseteq Chunks, \A m \in chat' : out'[m.of] # "none",
         updates' \in Seq(Updates), \A i \in 1 .. Len(updates') : UpdateOK(updates'[i], send', out'),
         bot' \in Bots, UpdateOK(bot'.up, send, out),
         bot'.pc # "idle" => bot'.up.kind = "tap", CheckedIsFirst'
  PROVE  RelaySafe'
<1> USE DEF RelaySafe
<1>1. RelayShape'
  BY DEF RelayShape
<1>2. \A u : UpdateOK(u, send, out) => UpdateOK(u, send', out')
  BY UpdateStaysTrue
<1>3. UpdatesOK'
  BY <1>2 DEF UpdatesOK
<1>4. TapFindsQuestion' /\ TapAnswersFirst'
  BY DEF TapFindsQuestion, TapAnswersFirst
<1>5. CitationKept'
  <2> SUFFICES ASSUME NEW i \in DOMAIN inb, inb[i].via = "text"
               PROVE  /\ inb[i].to \in {0, inb[i].up.of}
                      /\ inb[i].up.known = "yes" /\ inb[i].up.nr = 1 /\ send'[inb[i].up.of].asks = "yes"
                           => inb[i].to = inb[i].up.of
    BY DEF CitationKept
  <2>1. i \in 1 .. Len(inb)
    BY DEF RelayShape
  <2>2. UpdateOK(inb[i].up, send, out)
    BY <2>1 DEF UpdatesOK
  <2> QED
    BY <2>2 DEF CitationKept, UpdateOK
<1> QED
  BY <1>1, <1>3, <1>4, <1>5


\* One call of send takes a step.
LEMMA OneSendMoves ==
  ASSUME RelaySafe, NEW s \in Sends,
         NEW r \in Calls,
         NEW row \in RowStates,
         send' = [send EXCEPT ![s] = r], out' = [out EXCEPT ![s] = row], SendOK(r, row),
         send[s].pc # "done", out[s] # "none" => row # "none",
         recent' \subseteq Sends, crowded' \in {"no", "yes"}, relayFaults' \in Nat, QuotaOK',
         chat' \subseteq Chunks,
         \A m \in chat' : m \in chat \/ (m.of = s /\ row # "none"),
         UNCHANGED <<inb, updates, bot, unknown, raced>>
  PROVE  RelaySafe'
<1> USE DEF RelaySafe
<1>1. /\ send' \in [Sends -> Calls]
      /\ out' \in [Sends -> RowStates]
      /\ send'[s] = r /\ out'[s] = row /\ \A k \in Sends \ {s} : send'[k] = send[k] /\ out'[k] = out[k]
  BY DEF RelayShape, Calls, RowStates
<1>2. SendsOK'
  BY <1>1 DEF SendsOK
<1>3. /\ \A k \in Sends : out[k] # "none" => out'[k] # "none"
      /\ \A k \in Sends : send[k].pc = "done" => send'[k].pc = "done" /\ send'[k].asks = send[k].asks
  BY <1>1
<1>4. \A m \in chat' : out'[m.of] # "none"
  <2> TAKE m \in chat'
  <2>1. m.of \in Sends
    BY DEF Chunks
  <2> QED
    BY <1>1, <1>3, <2>1 DEF UpdatesOK
<1>5. updates' \in Seq(Updates) /\ \A i \in 1 .. Len(updates') : UpdateOK(updates'[i], send', out')
  <2> HIDE DEF RelaySafe
  <2>1. \A u : UpdateOK(u, send, out) => UpdateOK(u, send', out')
    BY <1>3 DEF UpdateOK
  <2> QED
    BY <2>1 DEF RelaySafe, RelayShape, Calls, RowStates, UpdatesOK
<1>6. CheckedIsFirst'
  BY DEF CheckedIsFirst
<1>7. bot' \in Bots /\ UpdateOK(bot'.up, send, out) /\ (bot'.pc # "idle" => bot'.up.kind = "tap")
  BY DEF RelayShape, Calls, RowStates, UpdatesOK
<1> HIDE DEF RelaySafe
<1> QED
  BY <1>1, <1>2, <1>3, <1>4, <1>5, <1>6, <1>7, NoRowComes

\* The rows of an hour are few.
LEMMA RecentIsFinite ==
  ASSUME NEW S \in SUBSET Sends
  PROVE  IsFiniteSet(S) /\ Cardinality(S) \in Nat
<1>1. MaxSends \in Int /\ 1 \in Int
  BY RelayAssumption
<1>2. IsFiniteSet(1 .. MaxSends)
  BY <1>1, FS_Interval, Zenon
<1>3. IsFiniteSet(S)
  BY <1>2, FS_Subset, Zenon DEF Sends
<1> QED
  BY <1>3, FS_CardinalityType, Zenon

\* A call counts the rows of the last hour, alone or next to another that has not written its own.
LEMMA CheckQuotaStep ==
  ASSUME RelaySafe, NEW s \in Sends, CheckQuota(s)
  PROVE  RelaySafe'
<1> USE DEF RelaySafe
<1>1. PICK chunks \in 1 .. 2, asks \in {"no", "yes"} :
        send' = [send EXCEPT ![s] = [NoSend EXCEPT !.chunks = chunks, !.asks = asks,
                   !.pc = IF Cardinality(recent) >= MaxOutPerHour THEN "refused" ELSE "insert"]]
  BY DEF CheckQuota
<1> PICK pc : pc = IF Cardinality(recent) >= MaxOutPerHour THEN "refused" ELSE "insert"
  OBVIOUS
<1> PICK r : r = [NoSend EXCEPT !.chunks = chunks, !.asks = asks, !.pc = pc]
  OBVIOUS
<1>2. /\ r \in Calls
      /\ r.pc = pc /\ r.chunks = chunks /\ r.sent = 0 /\ send' = [send EXCEPT ![s] = r]
  <2>1. pc \in SendSteps
    BY DEF Calls, SendSteps
  <2>2. r.pc = pc /\ r.chunks = chunks /\ r.sent = 0
    BY DEF NoSend
  <2>3. send' = [send EXCEPT ![s] = r]
    BY <1>1
  <2>4. NoSend \in Calls
    BY DEF Calls, NoSend, SendSteps
  <2>5. r \in Calls
    BY <2>1, <2>4 DEF Calls
  <2> QED
    BY <2>2, <2>3, <2>5
<1>3. send[s].pc = "free" /\ UNCHANGED <<out, recent, inb, chat, updates, bot, relayFaults, unknown, raced>>
      /\ crowded' = IF \E k \in Sends : send[k].pc = "insert" THEN "yes" ELSE crowded
  BY DEF CheckQuota
<1>4. SendOK(r, out[s])
  BY <1>2 DEF SendOK
<1>5. QuotaOK'
  <2> SUFFICES ASSUME crowded' = "no"
               PROVE  /\ Cardinality(recent) <= MaxOutPerHour
                      /\ \A k \in Sends : send'[k].pc = "insert" =>
                           Cardinality(recent) < MaxOutPerHour /\ \A l \in Sends : send'[l].pc = "insert" => l = k
    BY <1>3 DEF QuotaOK
  <2>1. crowded = "no" /\ \A k \in Sends : send[k].pc # "insert"
    BY <1>3
  <2>2. \A k \in Sends : send'[k].pc = "insert" => k = s /\ pc = "insert"
    BY <1>2, <2>1 DEF RelayShape, Calls, RowStates
  <2>3. Cardinality(recent) \in Nat /\ MaxOutPerHour \in Nat
    BY RecentIsFinite, RelayAssumption DEF RelayShape, Calls, RowStates
  <2> QED
    BY <2>1, <2>2, <2>3 DEF QuotaOK
<1>6. out' = [out EXCEPT ![s] = out[s]] /\ out[s] \in RowStates
  BY <1>3 DEF RelayShape, Calls, RowStates
<1>7. recent' \subseteq Sends /\ crowded' \in {"no", "yes"} /\ relayFaults' \in Nat
      /\ chat' \subseteq Chunks
      /\ \A m \in chat' : m \in chat \/ (m.of = s /\ out[s] # "none")
  BY <1>3 DEF RelayShape, Calls, RowStates
<1> HIDE DEF RelaySafe
<1> QED
  BY <1>2, <1>3, <1>4, <1>5, <1>6, <1>7, OneSendMoves

\* The row is written: it is the one the count left room for.
LEMMA InsertOutboundStep ==
  ASSUME RelaySafe, NEW s \in Sends, InsertOutbound(s)
  PROVE  RelaySafe'
<1> USE DEF RelaySafe
<1> PICK r : r = [send[s] EXCEPT !.pc = "deliver"]
  OBVIOUS
<1>1. /\ send[s].pc = "insert" /\ send' = [send EXCEPT ![s] = r] /\ out' = [out EXCEPT ![s] = "row"] /\ "row" \in RowStates
      /\ recent' = recent \cup {s} /\ UNCHANGED <<inb, chat, updates, bot, relayFaults, crowded, unknown, raced>>
  BY DEF InsertOutbound, RowStates
<1>2. /\ r \in Calls
      /\ r.pc = "deliver" /\ r.chunks = send[s].chunks /\ r.sent = send[s].sent
  BY DEF RelayShape, Calls, RowStates, SendSteps
<1>3. SendOK(r, "row")
  <2>1. SendOK(send[s], out[s]) /\ send[s].chunks \in 1 .. 2
    BY DEF SendsOK, RelayShape, Calls, RowStates
  <2> QED
    BY <1>1, <1>2, <2>1 DEF SendOK
<1>4. QuotaOK'
  <2> SUFFICES ASSUME crowded = "no"
               PROVE  /\ Cardinality(recent') <= MaxOutPerHour
                      /\ \A k \in Sends : send'[k].pc # "insert"
    BY <1>1 DEF QuotaOK
  <2>1. \A k \in Sends : send'[k].pc # "insert"
    BY <1>1, <1>2 DEF RelayShape, Calls, RowStates, QuotaOK
  <2>2. IsFiniteSet(recent) /\ Cardinality(recent) \in Nat /\ MaxOutPerHour \in Nat /\ Cardinality(recent) < MaxOutPerHour
    BY <1>1, RecentIsFinite, RelayAssumption DEF RelayShape, Calls, RowStates, QuotaOK
  <2>3. Cardinality(recent \cup {s}) = IF s \in recent THEN Cardinality(recent) ELSE Cardinality(recent) + 1
    BY <2>2, FS_AddElement, Zenon
  <2> QED
    BY <1>1, <2>1, <2>2, <2>3
<1>5. recent' \subseteq Sends /\ crowded' \in {"no", "yes"} /\ relayFaults' \in Nat
      /\ chat' \subseteq Chunks
  BY <1>1 DEF RelayShape, Calls, RowStates
<1> HIDE DEF RelaySafe
<1> QED
  BY <1>1, <1>2, <1>3, <1>4, <1>5, OneSendMoves

\* A chunk is delivered, the buttons under the last.
LEMMA DeliverChunkStep ==
  ASSUME RelaySafe, NEW s \in Sends, DeliverChunk(s)
  PROVE  RelaySafe'
<1> USE DEF RelaySafe
<1>1. SendOK(send[s], out[s]) /\ send[s] \in Calls
      /\ send[s].pc = "deliver" /\ out[s] \in RowStates
  BY DEF SendsOK, RelayShape, Calls, RowStates, DeliverChunk
<1> PICK nr : nr = send[s].sent + 1
  OBVIOUS
<1> PICK keys : keys = IF nr = send[s].chunks THEN send[s].asks ELSE "no"
  OBVIOUS
<1> PICK pc : pc = IF nr = send[s].chunks THEN "attach" ELSE "deliver"
  OBVIOUS
<1>2. /\ chat' = chat \cup {[of |-> s, nr |-> nr, keys |-> keys]}
      /\ send' = [send EXCEPT ![s].sent = nr, ![s].pc = pc]
      /\ UNCHANGED <<out, recent, inb, updates, bot, relayFaults, crowded, unknown, raced>>
  BY DEF DeliverChunk
<1> PICK r : r = [send[s] EXCEPT !.sent = nr, !.pc = pc]
  OBVIOUS
<1>3. nr \in 1 .. 2 /\ nr <= send[s].chunks /\ out[s] # "none"
  BY <1>1 DEF SendOK, Calls
<1>4. /\ r \in Calls
      /\ r.pc = pc /\ r.chunks = send[s].chunks /\ r.sent = nr
  <2>1. pc \in SendSteps /\ nr \in 0 .. 2
    BY <1>3 DEF Calls, SendSteps
  <2> QED
    BY <1>1, <2>1 DEF Calls
<1>5. send' = [send EXCEPT ![s] = r]
  BY <1>2 DEF RelayShape, Calls, RowStates
<1>6. SendOK(r, out[s])
  BY <1>1, <1>3, <1>4 DEF SendOK, Calls
<1>7. QuotaOK'
  <2>1. \A k \in Sends : send'[k].pc = "insert" => send[k].pc = "insert"
    BY <1>4, <1>5 DEF RelayShape, Calls, RowStates
  <2> QED
    BY <1>2, <2>1 DEF QuotaOK
<1>8. [of |-> s, nr |-> nr, keys |-> keys] \in Chunks
  BY <1>1, <1>3 DEF Calls, Chunks
<1>9. /\ recent' \subseteq Sends /\ crowded' \in {"no", "yes"} /\ relayFaults' \in Nat
      /\ chat' \subseteq Chunks
      /\ \A m \in chat' : m \in chat \/ (m.of = s /\ out[s] # "none")
      /\ out' = [out EXCEPT ![s] = out[s]]
  BY <1>2, <1>3, <1>8 DEF RelayShape, Calls, RowStates
<1>10. send[s].pc # "done" /\ UNCHANGED <<inb, updates, bot, unknown, raced>> /\ out[s] \in RowStates /\ r \in Calls
  BY <1>1, <1>2, <1>4
<1> HIDE DEF RelaySafe
<1> QED
  BY <1>5, <1>6, <1>7, <1>9, <1>10, OneSendMoves

\* The call ends: the first chunk's id is attached, or a query or a delivery fails.
LEMMA SendEndsStep ==
  ASSUME RelaySafe, NEW s \in Sends, AttachMessageId(s) \/ SendFails(s)
  PROVE  RelaySafe'
<1> USE DEF RelaySafe
<1>1. SendOK(send[s], out[s]) /\ send[s] \in Calls
      /\ out[s] \in RowStates
  BY DEF SendsOK, RelayShape, Calls, RowStates
<1>2. PICK pc \in {"done", "failed"}, row \in RowStates :
        /\ send' = [send EXCEPT ![s].pc = pc] /\ out' = [out EXCEPT ![s] = row]
        /\ out[s] # "none" => row # "none"
        /\ pc = "done" => row = "attached"
  <2>1. CASE AttachMessageId(s)
    BY <2>1 DEF AttachMessageId, RowStates
  <2>2. CASE SendFails(s)
    <3>1. send' = [send EXCEPT ![s].pc = "failed"] /\ out' = [out EXCEPT ![s] = out[s]]
      BY <2>2 DEF SendFails, RelayShape, Calls, RowStates
    <3> QED
      BY <1>1, <3>1
  <2> QED
    BY <2>1, <2>2
<1>3. send[s].pc # "done" /\ UNCHANGED <<recent, inb, chat, updates, bot, crowded, unknown, raced>> /\ relayFaults' \in Nat
  BY DEF AttachMessageId, SendFails, RelayFault, RelayShape, Calls, RowStates
<1> PICK r : r = [send[s] EXCEPT !.pc = pc]
  OBVIOUS
<1>4. /\ r \in Calls
      /\ r.pc = pc /\ r.chunks = send[s].chunks /\ r.sent = send[s].sent /\ send' = [send EXCEPT ![s] = r]
  BY <1>1, <1>2 DEF Calls, SendSteps
<1>5. SendOK(r, row)
  BY <1>1, <1>2, <1>4 DEF SendOK
<1>6. QuotaOK'
  <2>1. \A k \in Sends : send'[k].pc = "insert" => send[k].pc = "insert"
    BY <1>4 DEF RelayShape, Calls, RowStates
  <2> QED
    BY <1>3, <2>1 DEF QuotaOK
<1>7. recent' \subseteq Sends /\ crowded' \in {"no", "yes"} /\ chat' \subseteq Chunks
      /\ \A m \in chat' : m \in chat \/ (m.of = s /\ row # "none")
  BY <1>3 DEF RelayShape, Calls, RowStates
<1> HIDE DEF RelaySafe
<1> QED
  BY <1>2, <1>3, <1>4, <1>5, <1>6, <1>7, OneSendMoves


\* The updates Telegram holds, all about messages the owner had.
QueueOK(queue, sends, rows) ==
  queue \in Seq(Updates) /\ \A i \in 1 .. Len(queue) : UpdateOK(queue[i], sends, rows)

\* An update comes, comes again or is taken.
LEMMA QueueMoves ==
  ASSUME NEW queue, NEW sends, NEW rows, QueueOK(queue, sends, rows)
  PROVE  /\ \A u \in Updates : UpdateOK(u, sends, rows) => QueueOK(Append(queue, u), sends, rows) /\ QueueOK(<<u>> \o queue, sends, rows)
         /\ queue # <<>> => Head(queue) \in Updates /\ UpdateOK(Head(queue), sends, rows) /\ QueueOK(Tail(queue), sends, rows)
<1>1. queue \in Seq(Updates) /\ Len(queue) \in Nat /\ \A i \in 1 .. Len(queue) : UpdateOK(queue[i], sends, rows)
  BY DEF QueueOK
<1>2. ASSUME NEW u \in Updates, UpdateOK(u, sends, rows) PROVE QueueOK(Append(queue, u), sends, rows)
  <2>1. Append(queue, u) \in Seq(Updates) /\ Len(Append(queue, u)) = Len(queue) + 1 /\ Append(queue, u)[Len(queue) + 1] = u
        /\ \A i \in 1 .. Len(queue) : Append(queue, u)[i] = queue[i]
    BY <1>1
  <2> QED
    BY <1>1, <1>2, <2>1 DEF QueueOK
<1>3. ASSUME NEW u \in Updates, UpdateOK(u, sends, rows) PROVE QueueOK(<<u>> \o queue, sends, rows)
  <2>1. <<u>> \in Seq(Updates) /\ Len(<<u>>) = 1 /\ <<u>>[1] = u
    OBVIOUS
  <2>2. <<u>> \o queue \in Seq(Updates) /\ Len(<<u>> \o queue) = 1 + Len(queue)
    BY <1>1, <2>1
  <2>3. (<<u>> \o queue)[1] = u /\ \A i \in 2 .. Len(queue) + 1 : (<<u>> \o queue)[i] = queue[i - 1]
    BY <1>1, <2>1
  <2>4. ASSUME NEW i \in 1 .. 1 + Len(queue) PROVE UpdateOK((<<u>> \o queue)[i], sends, rows)
    <3>1. CASE i = 1
      BY <1>3, <2>3, <3>1
    <3>2. CASE i # 1
      <4>1. i - 1 \in 1 .. Len(queue) /\ i \in 2 .. Len(queue) + 1
        BY <1>1, <3>2
      <4> QED
        BY <1>1, <2>3, <4>1
    <3> QED
      BY <3>1, <3>2
  <2> QED
    BY <2>2, <2>4 DEF QueueOK
<1>4. ASSUME queue # <<>> PROVE Head(queue) \in Updates /\ UpdateOK(Head(queue), sends, rows) /\ QueueOK(Tail(queue), sends, rows)
  <2>1. Len(queue) >= 1 /\ Head(queue) = queue[1] /\ Tail(queue) \in Seq(Updates) /\ Len(Tail(queue)) = Len(queue) - 1
    BY <1>1, <1>4
  <2>2. \A i \in 1 .. Len(queue) - 1 : Tail(queue)[i] = queue[i + 1]
    BY <1>1, <1>4
  <2>3. 1 \in 1 .. Len(queue)
    BY <1>1, <2>1
  <2>4. ASSUME NEW i \in 1 .. Len(queue) - 1 PROVE UpdateOK(Tail(queue)[i], sends, rows)
    <3>1. i + 1 \in 1 .. Len(queue)
      BY <1>1
    <3> QED
      BY <1>1, <2>2, <3>1
  <2>5. Head(queue) \in Updates
    BY <1>1, <2>1, <2>3
  <2> QED
    BY <1>1, <2>1, <2>3, <2>4, <2>5 DEF QueueOK
<1> QED
  BY <1>2, <1>3, <1>4

\* What the updates, the rows and the bot hold, as the queue needs it.
LEMMA HeldUpdates ==
  ASSUME RelaySafe
  PROVE  /\ QueueOK(updates, send, out)
         /\ bot \in Bots /\ bot.up \in Updates /\ UpdateOK(bot.up, send, out) /\ (bot.pc # "idle" => bot.up.kind = "tap")
         /\ \A i \in 1 .. Len(inb) : inb[i] \in InRows /\ inb[i].up \in Updates /\ UpdateOK(inb[i].up, send, out)
         /\ NoUpdate \in Updates /\ UpdateOK(NoUpdate, send, out) /\ Quiet \in Bots /\ Quiet.pc = "idle" /\ Quiet.up = NoUpdate
<1>1. NoUpdate \in Updates /\ UpdateOK(NoUpdate, send, out)
  BY RelayAssumption DEF NoUpdate, Updates, UpdateOK
<1>2. Quiet \in Bots /\ Quiet.pc = "idle" /\ Quiet.up = NoUpdate
  BY <1>1 DEF Quiet, Bots
<1>3. QueueOK(updates, send, out)
  BY DEF RelaySafe, RelayShape, UpdatesOK, QueueOK
<1>4. bot \in Bots /\ bot.up \in Updates /\ UpdateOK(bot.up, send, out) /\ (bot.pc # "idle" => bot.up.kind = "tap")
  BY DEF RelaySafe, RelayShape, UpdatesOK, Bots
<1>5. ASSUME NEW i \in 1 .. Len(inb) PROVE inb[i] \in InRows /\ inb[i].up \in Updates /\ UpdateOK(inb[i].up, send, out)
  <2>1. inb[i] \in InRows
    BY DEF RelaySafe, RelayShape
  <2> QED
    BY <2>1 DEF RelaySafe, UpdatesOK, InRows
<1> QED
  BY <1>1, <1>2, <1>3, <1>4, <1>5

\* The updates and the bot move, and neither the calls nor the rows do.
LEMMA OnlyUpdatesMove ==
  ASSUME RelaySafe, UNCHANGED <<send, out, inb, chat, crowded, unknown, raced>>,
         recent' = recent \/ recent' = {}, relayFaults' \in Nat,
         QueueOK(updates', send, out), bot' \in Bots, UpdateOK(bot'.up, send, out), bot'.pc # "idle" => bot'.up.kind = "tap",
         CheckedIsFirst'
  PROVE  RelaySafe'
<1>1. recent' \subseteq Sends /\ QuotaOK'
  <2>1. CASE recent' = recent
    BY <2>1 DEF RelaySafe, RelayShape, QuotaOK
  <2>2. CASE recent' = {} /\ recent # {}
    <3>1. IsFiniteSet(recent) /\ Cardinality(recent) \in Nat /\ Cardinality(recent) # 0 /\ Cardinality({}) = 0
      BY <2>2, RecentIsFinite, FS_EmptySet DEF RelaySafe, RelayShape
    <3> QED
      BY <2>2, <3>1, RelayAssumption DEF RelaySafe, QuotaOK
  <2> QED
    BY <2>1, <2>2
<1>2. /\ send' \in [Sends -> Calls] /\ out' \in [Sends -> RowStates] /\ crowded' \in {"no", "yes"} /\ chat' \subseteq Chunks
      /\ \A m \in chat' : out'[m.of] # "none"
      /\ SendsOK'
  BY DEF RelaySafe, RelayShape, UpdatesOK, SendsOK
<1>3. updates' \in Seq(Updates) /\ \A i \in 1 .. Len(updates') : UpdateOK(updates'[i], send', out')
  BY DEF QueueOK
<1> QED
  BY <1>1, <1>2, <1>3, NoRowComes


\* The hour passes, the owner taps or writes, or a handler fails.
LEMMA OwnerStep ==
  ASSUME RelaySafe, HourPasses \/ OwnerActs \/ UpdateFails
  PROVE  RelaySafe'
<1>1. UNCHANGED <<send, out, inb, chat, crowded, unknown, raced>> /\ (recent' = recent \/ recent' = {}) /\ relayFaults' \in Nat
  BY DEF RelaySafe, RelayShape, HourPasses, OwnerActs, UpdateFails, RelayFault
<1>2. bot' = bot \/ bot' = Quiet
  BY DEF HourPasses, OwnerActs, UpdateFails
<1>3. CheckedIsFirst'
  BY <1>1, <1>2, HeldUpdates DEF RelaySafe, CheckedIsFirst
<1>4. bot' \in Bots /\ UpdateOK(bot'.up, send, out) /\ (bot'.pc # "idle" => bot'.up.kind = "tap")
  BY <1>2, HeldUpdates
<1>5. CASE HourPasses
  BY <1>1, <1>3, <1>4, <1>5, HeldUpdates, OnlyUpdatesMove DEF HourPasses
<1>6. CASE OwnerActs
  <2>1. PICK u : updates' = Append(updates, u) /\
               \/ \E m \in chat : \/ m.keys = "yes" /\ u = [kind |-> "tap", of |-> m.of, nr |-> m.nr, known |-> "no"]
                                  \/ u = [kind |-> "text", of |-> m.of, nr |-> m.nr, known |-> IF send[m.of].pc = "done" THEN "yes" ELSE "no"]
               \/ u = [NoUpdate EXCEPT !.kind = "text"]
    BY <1>6 DEF OwnerActs
  <2>2. u \in Updates /\ UpdateOK(u, send, out)
    <3>1. ASSUME NEW m \in chat, u = [kind |-> "tap", of |-> m.of, nr |-> m.nr, known |-> "no"]
          PROVE  u \in Updates /\ UpdateOK(u, send, out)
      <4>1. m \in Chunks /\ out[m.of] # "none" /\ m.of \in 0 .. MaxSends
        BY RelayAssumption DEF RelaySafe, RelayShape, UpdatesOK, Chunks, Sends
      <4> QED
        BY <3>1, <4>1 DEF Updates, UpdateOK, Chunks
    <3>2. ASSUME NEW m \in chat, u = [kind |-> "text", of |-> m.of, nr |-> m.nr, known |-> IF send[m.of].pc = "done" THEN "yes" ELSE "no"]
          PROVE  u \in Updates /\ UpdateOK(u, send, out)
      <4>1. m \in Chunks /\ m.of \in 0 .. MaxSends
        BY RelayAssumption DEF RelaySafe, RelayShape, Chunks, Sends
      <4> QED
        BY <3>2, <4>1 DEF Updates, UpdateOK, Chunks
    <3>3. ASSUME u = [NoUpdate EXCEPT !.kind = "text"]
          PROVE  u \in Updates /\ UpdateOK(u, send, out)
      BY <3>3, HeldUpdates DEF Updates, UpdateOK, NoUpdate
    <3> QED
      BY <2>1, <3>1, <3>2, <3>3
  <2>3. QueueOK(updates', send, out)
    BY <2>1, <2>2, HeldUpdates, QueueMoves
  <2> QED
    BY <1>1, <1>3, <1>4, <2>3, OnlyUpdatesMove
<1>7. CASE UpdateFails
  <2>1. QueueOK(updates', send, out)
    <3>1. CASE bot.pc = "idle"
      BY <1>7, <3>1, HeldUpdates, QueueMoves DEF UpdateFails
    <3>2. CASE bot.pc # "idle"
      BY <1>7, <3>2, HeldUpdates, QueueMoves DEF UpdateFails
    <3> QED
      BY <3>1, <3>2
  <2> QED
    BY <1>1, <1>3, <1>4, <2>1, OnlyUpdatesMove
<1> QED
  BY <1>5, <1>6, <1>7

\* A tap is taken, and whether its question was answered is looked up.
LEMMA TapStep ==
  ASSUME RelaySafe, TakeTap \/ CheckAnswered
  PROVE  RelaySafe'
<1>1. UNCHANGED <<send, out, recent, inb, chat, crowded, raced>> /\ relayFaults' \in Nat
  BY DEF RelaySafe, RelayShape, TakeTap, CheckAnswered
<1>2. CASE TakeTap
  <2>1. /\ Head(updates) \in Updates /\ UpdateOK(Head(updates), send, out) /\ QueueOK(updates', send, out)
        /\ Head(updates).kind = "tap" /\ bot.pc = "idle"
    BY <1>2, HeldUpdates, QueueMoves DEF TakeTap
  <2>2. bot' = [pc |-> "check", up |-> Head(updates)] /\ UNCHANGED unknown
    BY <1>2, <2>1 DEF TakeTap, UpdateOK
  <2>3. bot' \in Bots /\ bot'.pc = "check" /\ bot'.up = Head(updates)
    BY <2>1, <2>2 DEF Bots
  <2>4. CheckedIsFirst'
    BY <2>3 DEF CheckedIsFirst
  <2> QED
    BY <1>1, <2>1, <2>2, <2>3, <2>4, OnlyUpdatesMove
<1>3. CASE CheckAnswered /\ FindAnswer(bot.up.of)
  <2>1. bot' = Quiet /\ UNCHANGED <<unknown, updates>>
    BY <1>3 DEF CheckAnswered
  <2>2. CheckedIsFirst'
    BY <2>1, HeldUpdates DEF CheckedIsFirst
  <2> QED
    BY <1>1, <2>1, <2>2, HeldUpdates, OnlyUpdatesMove
<1>4. CASE CheckAnswered /\ ~ FindAnswer(bot.up.of)
  <2>1. bot' = [bot EXCEPT !.pc = "insert"] /\ UNCHANGED <<unknown, updates>> /\ bot.pc = "check"
    BY <1>4 DEF CheckAnswered
  <2>2. bot' \in Bots /\ bot'.up = bot.up /\ bot'.pc = "insert"
    BY <2>1, HeldUpdates DEF Bots
  <2>3. \A i \in 1 .. Len(inb) : inb[i].to # bot.up.of
    BY <1>4 DEF FindAnswer, RelaySafe, RelayShape
  <2>4. CheckedIsFirst'
    BY <1>1, <2>2, <2>3 DEF CheckedIsFirst
  <2> QED
    BY <1>1, <2>1, <2>2, <2>4, HeldUpdates, OnlyUpdatesMove
<1> QED
  BY <1>2, <1>3, <1>4

\* The process dies: calls end half-way, and an update may come again.
LEMMA RelayCrashStep ==
  ASSUME RelaySafe, RelayCrash
  PROVE  RelaySafe'
<1>1. UNCHANGED <<out, recent, inb, chat, crowded, unknown, raced>> /\ relayFaults' \in Nat /\ bot' = Quiet
      /\ send' = [s \in Sends |-> IF send[s].pc \in {"insert", "deliver", "attach"} THEN [send[s] EXCEPT !.pc = "failed"] ELSE send[s]]
  BY DEF RelaySafe, RelayShape, RelayCrash, RelayFault
<1>2. ASSUME NEW s \in Sends
      PROVE  /\ send'[s] \in Calls /\ SendOK(send'[s], out[s])
             /\ send'[s].pc # "insert"
             /\ send[s].pc = "done" => send'[s].pc = "done" /\ send'[s].asks = send[s].asks
  <2>1. send[s] \in Calls /\ SendOK(send[s], out[s])
    BY DEF RelaySafe, RelayShape, SendsOK
  <2>2. CASE send[s].pc \in {"insert", "deliver", "attach"}
    <3>1. send'[s] = [send[s] EXCEPT !.pc = "failed"]
      BY <1>1, <2>2
    <3>2. send'[s] \in Calls /\ send'[s].pc = "failed" /\ send'[s].sent = send[s].sent /\ send'[s].chunks = send[s].chunks
      BY <2>1, <3>1 DEF Calls, SendSteps
    <3> QED
      BY <2>1, <2>2, <3>2 DEF SendOK
  <2>3. CASE send[s].pc \notin {"insert", "deliver", "attach"}
    BY <1>1, <2>1, <2>3
  <2> QED
    BY <2>2, <2>3
<1>3. send' \in [Sends -> Calls] /\ SendsOK' /\ QuotaOK'
  <2>1. send' \in [Sends -> Calls]
    BY <1>1, <1>2
  <2>2. SendsOK'
    BY <1>1, <1>2 DEF SendsOK
  <2>3. QuotaOK'
    BY <1>1, <1>2 DEF RelaySafe, QuotaOK
  <2> QED
    BY <2>1, <2>2, <2>3
<1>4. \A u : UpdateOK(u, send, out) => UpdateOK(u, send', out')
  BY <1>1, <1>2 DEF UpdateOK
<1>5. QueueOK(updates', send, out)
  <2>1. CASE updates' = IF bot.pc = "idle" THEN updates ELSE <<bot.up>> \o updates
    BY <2>1, HeldUpdates, QueueMoves
  <2>2. CASE Len(inb) # 0 /\ updates' = <<inb[Len(inb)].up>> \o updates
    <3>1. Len(inb) \in 1 .. Len(inb)
      BY <2>2 DEF RelaySafe, RelayShape
    <3> QED
      BY <2>2, <3>1, HeldUpdates, QueueMoves
  <2> QED
    BY <2>1, <2>2 DEF RelayCrash
<1>6. updates' \in Seq(Updates) /\ \A i \in 1 .. Len(updates') : UpdateOK(updates'[i], send', out')
  BY <1>4, <1>5 DEF QueueOK
<1>7. CheckedIsFirst'
  BY <1>1, HeldUpdates DEF CheckedIsFirst
<1>8. /\ out' \in [Sends -> RowStates] /\ recent' \subseteq Sends /\ crowded' \in {"no", "yes"} /\ chat' \subseteq Chunks
      /\ \A m \in chat' : out'[m.of] # "none"
      /\ \A s \in Sends : out[s] # "none" => out'[s] # "none"
  BY <1>1 DEF RelaySafe, RelayShape, UpdatesOK
<1> QED
  BY <1>1, <1>2, <1>3, <1>6, <1>7, <1>8, HeldUpdates, NoRowComes


\* A row of the owner's is added: it comes first if it is a tap's, and it is the question's it
\* cites if it is a text's.
LEMMA RowComes ==
  ASSUME RelaySafe, NEW row \in InRows, inb' = Append(inb, row), UpdateOK(row.up, send, out),
         raced \subseteq raced', raced' \subseteq 0 .. MaxSends,
         row.via = "tap" /\ row.to \notin raced' => \A j \in 1 .. Len(inb) : inb[j].to # row.to,
         row.via = "text" => /\ row.to \in {0, row.up.of}
                             /\ row.up.known = "yes" /\ row.up.nr = 1 /\ send[row.up.of].asks = "yes" => row.to = row.up.of,
         UNCHANGED <<send, out, recent, relayFaults, crowded, unknown>>,
         chat' \subseteq Chunks, \A m \in chat' : out[m.of] # "none",
         QueueOK(updates', send, out), bot' \in Bots, UpdateOK(bot'.up, send, out), bot'.pc # "idle" => bot'.up.kind = "tap",
         CheckedIsFirst'
  PROVE  RelaySafe'
<1>1. inb \in Seq(InRows) /\ Len(inb) \in Nat
  BY DEF RelaySafe, RelayShape
<1>2. /\ inb' \in Seq(InRows) /\ Len(inb') = Len(inb) + 1 /\ inb'[Len(inb) + 1] = row
      /\ \A i \in 1 .. Len(inb) : inb'[i] = inb[i]
      /\ DOMAIN inb' = 1 .. Len(inb) + 1 /\ DOMAIN inb = 1 .. Len(inb)
  BY <1>1
<1>3. \A i \in 1 .. Len(inb) + 1 : i \in 1 .. Len(inb) \/ i = Len(inb) + 1
  BY <1>1
<1>4. RelayShape'
  BY <1>2 DEF RelaySafe, RelayShape, QueueOK
<1>5. UpdatesOK'
  <2>1. \A i \in 1 .. Len(inb') : UpdateOK(inb'[i].up, send, out)
    BY <1>2, <1>3, HeldUpdates
  <2> QED
    BY <2>1 DEF UpdatesOK, QueueOK
<1>6. SendsOK' /\ QuotaOK' /\ TapFindsQuestion'
  BY DEF RelaySafe, SendsOK, QuotaOK, TapFindsQuestion
<1>7. TapAnswersFirst'
  <2> SUFFICES ASSUME NEW i \in 1 .. Len(inb) + 1, inb'[i].via = "tap" /\ inb'[i].to \notin raced', NEW j \in 1 .. i - 1
               PROVE  inb'[j].to # inb'[i].to
    BY <1>2 DEF TapAnswersFirst
  <2>1. j \in 1 .. Len(inb)
    BY <1>1
  <2>2. CASE i \in 1 .. Len(inb)
    BY <1>2, <2>1, <2>2 DEF RelaySafe, TapAnswersFirst
  <2>3. CASE i = Len(inb) + 1
    BY <1>2, <2>1, <2>3
  <2> QED
    BY <1>3, <2>2, <2>3
<1>8. CitationKept'
  <2> SUFFICES ASSUME NEW i \in 1 .. Len(inb) + 1, inb'[i].via = "text"
               PROVE  /\ inb'[i].to \in {0, inb'[i].up.of}
                      /\ inb'[i].up.known = "yes" /\ inb'[i].up.nr = 1 /\ send[inb'[i].up.of].asks = "yes"
                           => inb'[i].to = inb'[i].up.of
    BY <1>2 DEF CitationKept
  <2>1. CASE i \in 1 .. Len(inb)
    BY <1>2, <2>1 DEF RelaySafe, CitationKept
  <2>2. CASE i = Len(inb) + 1
    BY <1>2, <2>2
  <2> QED
    BY <1>3, <2>1, <2>2
<1> QED
  BY <1>4, <1>5, <1>6, <1>7, <1>8 DEF RelaySafe

\* The owner answers from the dashboard, without a check.
LEMMA ReplyStep ==
  ASSUME RelaySafe, NEW to \in {0} \cup {s \in Sends : out[s] # "none"}, Reply(to)
  PROVE  RelaySafe'
<1> PICK row : row = Row("dashboard", to, NoUpdate)
  OBVIOUS
<1>1. row \in InRows /\ row.via = "dashboard" /\ row.to = to /\ row.up = NoUpdate /\ to \in 0 .. MaxSends
  BY HeldUpdates, RelayAssumption DEF Row, InRows, Sends
<1>2. /\ inb' = Append(inb, row) /\ raced' = IF bot.pc = "insert" /\ bot.up.of = to THEN raced \cup {to} ELSE raced
      /\ UNCHANGED <<send, out, recent, chat, updates, bot, relayFaults, crowded, unknown>>
  BY DEF Reply
<1>3. raced \subseteq raced' /\ raced' \subseteq 0 .. MaxSends
  BY <1>1, <1>2 DEF RelaySafe, RelayShape
<1>4. CheckedIsFirst'
  <2> SUFFICES ASSUME bot.pc = "insert", bot.up.of \notin raced', NEW i \in 1 .. Len(inb') PROVE inb'[i].to # bot.up.of
    BY <1>2 DEF CheckedIsFirst
  <2>1. inb \in Seq(InRows) /\ Len(inb) \in Nat
    BY DEF RelaySafe, RelayShape
  <2>2. CASE i \in 1 .. Len(inb)
    BY <1>2, <1>3, <2>1, <2>2 DEF RelaySafe, CheckedIsFirst
  <2>3. CASE i = Len(inb) + 1
    <3>1. inb'[i] = row /\ bot.up.of # to
      BY <1>2, <2>1, <2>3
    <3> QED
      BY <1>1, <3>1
  <2> QED
    BY <1>2, <2>1, <2>2, <2>3
<1>5. chat' \subseteq Chunks /\ \A m \in chat' : out[m.of] # "none"
  BY <1>2 DEF RelaySafe, RelayShape, UpdatesOK
<1>6. QueueOK(updates', send, out) /\ bot' \in Bots /\ UpdateOK(bot'.up, send, out) /\ (bot'.pc # "idle" => bot'.up.kind = "tap")
      /\ UpdateOK(row.up, send, out)
  BY <1>1, <1>2, HeldUpdates
<1> QED
  BY <1>1, <1>2, <1>3, <1>4, <1>5, <1>6, RowComes

\* A tap that was checked becomes the answer of its question, and the buttons may go.
LEMMA InsertTapStep ==
  ASSUME RelaySafe, InsertTap
  PROVE  RelaySafe'
<1> PICK row : row = Row("tap", bot.up.of, bot.up)
  OBVIOUS
<1>1. row \in InRows /\ row.via = "tap" /\ row.to = bot.up.of /\ row.up = bot.up
  BY HeldUpdates DEF Row, InRows, Updates
<1>2. inb' = Append(inb, row) /\ bot' = Quiet /\ bot.pc = "insert" /\ UNCHANGED <<send, out, recent, updates, relayFaults, crowded, unknown, raced>>
  BY DEF InsertTap
<1>3. row.to \notin raced' => \A j \in 1 .. Len(inb) : inb[j].to # row.to
  BY <1>1, <1>2 DEF RelaySafe, CheckedIsFirst
<1>4. CheckedIsFirst'
  BY <1>2, HeldUpdates DEF CheckedIsFirst
<1>5. chat' \subseteq Chunks /\ \A m \in chat' : out[m.of] # "none"
  <2>1. chat \subseteq Chunks /\ \A m \in chat : out[m.of] # "none"
    BY DEF RelaySafe, RelayShape, UpdatesOK
  <2>2. ASSUME NEW m \in chat' PROVE m \in Chunks /\ out[m.of] # "none"
    <3>1. m \in chat \/ \E k \in chat : m = [k EXCEPT !.keys = "no"]
      BY DEF InsertTap
    <3>2. ASSUME NEW k \in chat, m = [k EXCEPT !.keys = "no"] PROVE m \in Chunks /\ m.of = k.of
      BY <2>1, <3>2 DEF Chunks
    <3> QED
      BY <2>1, <3>1, <3>2
  <2> QED
    BY <2>2
<1>6. raced \subseteq raced' /\ raced' \subseteq 0 .. MaxSends
  BY <1>2 DEF RelaySafe, RelayShape
<1>7. QueueOK(updates', send, out) /\ bot' \in Bots /\ UpdateOK(bot'.up, send, out) /\ bot'.pc = "idle" /\ UpdateOK(row.up, send, out)
  BY <1>1, <1>2, HeldUpdates
<1> QED
  BY <1>1, <1>2, <1>3, <1>4, <1>5, <1>6, <1>7, RowComes

\* A text becomes a row, with the question it cites.
LEMMA HandleTextStep ==
  ASSUME RelaySafe, HandleText
  PROVE  RelaySafe'
<1> PICK up : up = Head(updates)
  OBVIOUS
<1> PICK row : row = Row("text", QuestionOf(up), up)
  OBVIOUS
<1>1. up \in Updates /\ UpdateOK(up, send, out) /\ QueueOK(updates', send, out)
  BY HeldUpdates, QueueMoves DEF HandleText
<1>2. QuestionOf(up) \in {0, up.of} /\ up.of \in 0 .. MaxSends
  BY <1>1 DEF QuestionOf, Updates
<1>3. up.known = "yes" /\ up.nr = 1 /\ send[up.of].asks = "yes" => QuestionOf(up) = up.of
  <2> SUFFICES ASSUME up.known = "yes", up.nr = 1, send[up.of].asks = "yes" PROVE QuestionOf(up) = up.of
    OBVIOUS
  <2>1. up.of \in Sends /\ out[up.of] = "attached"
    BY <1>1 DEF UpdateOK, RelaySafe, SendsOK, SendOK
  <2> QED
    BY <2>1 DEF QuestionOf, Sends
<1>4. row \in InRows /\ row.via = "text" /\ row.to = QuestionOf(up) /\ row.up = up
  <2>1. QuestionOf(up) \in 0 .. MaxSends
    BY <1>2, RelayAssumption
  <2> HIDE DEF QuestionOf
  <2> QED
    BY <1>1, <2>1 DEF Row, InRows
<1>5. inb' = Append(inb, row) /\ UNCHANGED <<send, out, recent, chat, bot, relayFaults, crowded, unknown, raced>> /\ bot.pc = "idle"
  BY DEF HandleText
<1>6. CheckedIsFirst'
  BY <1>5 DEF CheckedIsFirst
<1>7. chat' \subseteq Chunks /\ (\A m \in chat' : out[m.of] # "none") /\ raced \subseteq raced' /\ raced' \subseteq 0 .. MaxSends
  BY <1>5 DEF RelaySafe, RelayShape, UpdatesOK
<1>8. bot' \in Bots /\ UpdateOK(bot'.up, send, out) /\ bot'.pc = "idle"
  BY <1>5, HeldUpdates
<1>9. /\ row.to \in {0, row.up.of}
      /\ row.up.known = "yes" /\ row.up.nr = 1 /\ send[row.up.of].asks = "yes" => row.to = row.up.of
  BY <1>2, <1>3, <1>4
<1> QED
  BY <1>1, <1>4, <1>5, <1>6, <1>7, <1>8, <1>9, RowComes

\* Claude's CLI takes what is new.
LEMMA InboxStep ==
  ASSUME RelaySafe, Inbox
  PROVE  RelaySafe'
<1>1. inb \in Seq(InRows) /\ Len(inb) \in Nat /\ DOMAIN inb = 1 .. Len(inb)
  BY DEF RelaySafe, RelayShape
<1>2. UNCHANGED <<send, out, recent, chat, updates, bot, relayFaults, crowded, unknown, raced>>
      /\ inb' = [i \in 1 .. Len(inb) |-> IF i \in New THEN [inb[i] EXCEPT !.taken = @ + 1] ELSE inb[i]]
  BY <1>1 DEF Inbox
<1>3. ASSUME NEW i \in 1 .. Len(inb)
      PROVE  inb'[i] \in InRows /\ inb'[i].via = inb[i].via /\ inb'[i].to = inb[i].to /\ inb'[i].up = inb[i].up
  <2>1. inb[i] \in InRows
    BY <1>1
  <2>2. CASE i \in New
    <3>1. inb'[i] = [inb[i] EXCEPT !.taken = inb[i].taken + 1] /\ inb[i].taken + 1 \in 0 .. 1
      BY <1>2, <2>2 DEF New
    <3> QED
      BY <2>1, <3>1 DEF InRows
  <2>3. CASE i \notin New
    BY <1>2, <2>1, <2>3
  <2> QED
    BY <2>2, <2>3
<1>4. inb' \in Seq(InRows) /\ Len(inb') = Len(inb) /\ DOMAIN inb' = 1 .. Len(inb)
  <2>1. inb' \in [1 .. Len(inb) -> InRows]
    BY <1>2, <1>3
  <2> QED
    BY <1>1, <2>1
<1>5. RelayShape'
  BY <1>2, <1>4 DEF RelaySafe, RelayShape
<1>6. SendsOK' /\ QuotaOK' /\ TapFindsQuestion'
  BY <1>2 DEF RelaySafe, SendsOK, QuotaOK, TapFindsQuestion
<1>7. UpdatesOK' /\ CheckedIsFirst'
  BY <1>2, <1>3, <1>4 DEF RelaySafe, UpdatesOK, CheckedIsFirst
<1>8. TapAnswersFirst'
  <2> SUFFICES ASSUME NEW i \in 1 .. Len(inb), inb'[i].via = "tap" /\ inb'[i].to \notin raced, NEW j \in 1 .. i - 1
               PROVE  inb'[j].to # inb'[i].to
    BY <1>2, <1>4 DEF TapAnswersFirst
  <2>1. j \in 1 .. Len(inb)
    BY <1>1
  <2> QED
    BY <1>1, <1>3, <2>1 DEF RelaySafe, TapAnswersFirst
<1>9. CitationKept'
  BY <1>1, <1>2, <1>3, <1>4 DEF RelaySafe, CitationKept
<1> QED
  BY <1>5, <1>6, <1>7, <1>8, <1>9 DEF RelaySafe

\* The inductive invariant of the bridge, for every quota and every number of calls, updates and
\* faults.
THEOREM RelaySafety == RelaySpec => []RelaySafe
<1>1. RelayInit => RelaySafe
  <2> SUFFICES ASSUME RelayInit PROVE RelaySafe
    OBVIOUS
  <2>1. NoSend \in Calls /\ NoSend.pc = "free" /\ NoSend.sent = 0 /\ NoSend.chunks = 1
    BY DEF NoSend, Calls, SendSteps
  <2>2. NoUpdate \in Updates /\ UpdateOK(NoUpdate, send, out)
    BY RelayAssumption DEF NoUpdate, Updates, UpdateOK
  <2>3. bot = Quiet /\ Quiet \in Bots /\ Quiet.pc = "idle" /\ Quiet.up = NoUpdate
    BY <2>2 DEF RelayInit, Quiet, Bots
  <2>4. /\ send \in [Sends -> Calls] /\ out \in [Sends -> RowStates] /\ recent = {}
        /\ inb = <<>> /\ updates = <<>> /\ chat = {} /\ raced = {} /\ relayFaults = 0 /\ crowded = "no" /\ unknown = "no"
        /\ Len(inb) = 0 /\ Len(updates) = 0 /\ (\A s \in Sends : send[s] = NoSend)
    BY <2>1 DEF RelayInit, RowStates
  <2>5. RelayShape
    BY <2>3, <2>4 DEF RelayShape
  <2>6. SendsOK
    BY <2>1, <2>4 DEF SendsOK, SendOK
  <2>7. UpdatesOK
    BY <2>2, <2>3, <2>4 DEF UpdatesOK
  <2>8. QuotaOK
    <3>1. Cardinality(recent) = 0
      BY <2>4, FS_EmptySet
    <3> QED
      BY <2>1, <2>4, <3>1, RelayAssumption DEF QuotaOK
  <2>9. CheckedIsFirst /\ TapFindsQuestion /\ TapAnswersFirst /\ CitationKept
    BY <2>3, <2>4 DEF CheckedIsFirst, TapFindsQuestion, TapAnswersFirst, CitationKept
  <2> QED
    BY <2>5, <2>6, <2>7, <2>8, <2>9 DEF RelaySafe
<1>2. RelaySafe /\ [RelayNext]_relayVars => RelaySafe'
  <2>1. ASSUME RelaySafe, UNCHANGED relayVars PROVE RelaySafe'
    BY <2>1 DEF relayVars, RelaySafe, RelayShape, SendsOK, UpdatesOK, QuotaOK, CheckedIsFirst, TapFindsQuestion,
                TapAnswersFirst, CitationKept
  <2> QED
    BY <2>1, CheckQuotaStep, InsertOutboundStep, DeliverChunkStep, SendEndsStep, OwnerStep, ReplyStep, TapStep,
       InsertTapStep, HandleTextStep, RelayCrashStep, InboxStep DEF RelayNext
<1> QED
  BY <1>1, <1>2, PTL DEF RelaySpec

\* The quota holds unless calls overlap between the count and the insert, a tap finds its question
\* and answers it first unless the dashboard comes between, a text answers the question it cites,
\* and an instruction is given to one call.
THEOREM BridgeIsSound == RelaySpec => []RelayInv
<1>1. RelaySafe => RelayInv
  <2> SUFFICES ASSUME RelaySafe PROVE RelayTypeOK /\ QuotaHolds /\ TakenOnce
    BY DEF RelaySafe, RelayInv
  <2>1. DOMAIN inb = 1 .. Len(inb) /\ \A i \in 1 .. Len(inb) : inb[i] \in InRows
    BY DEF RelaySafe, RelayShape
  <2>2. \A i \in 1 .. Len(inb) : inb[i].to \in {0} \cup Sends /\ inb[i].taken \in Nat /\ inb[i].taken <= 1
    BY <2>1, RelayAssumption DEF InRows, Sends
  <2>3. \A s \in Sends : send[s].pc \in SendSteps /\ send[s].sent \in 0 .. send[s].chunks
    <3> TAKE s \in Sends
    <3>1. send[s] \in Calls /\ SendOK(send[s], out[s])
      BY DEF RelaySafe, RelayShape, SendsOK
    <3> QED
      BY <3>1 DEF SendOK, Calls
  <2>4. bot.pc \in {"idle", "check", "insert"} /\ out \in [Sends -> RowStates] /\ recent \subseteq Sends /\ chat \subseteq Chunks
    BY DEF RelaySafe, RelayShape, Bots
  <2>5. RelayTypeOK
    BY <2>1, <2>2, <2>3, <2>4 DEF RelayTypeOK, SendSteps, RowStates, Chunks
  <2>6. QuotaHolds
    BY DEF RelaySafe, QuotaOK, QuotaHolds
  <2> QED
    BY <2>1, <2>2, <2>5, <2>6 DEF TakenOnce
<1> QED
  BY <1>1, RelaySafety, PTL


-----------------------------------------------------------------------------
\* The content state of what a handler has read.
StateOf(r) == OrchestrationContentState(r.run, r.tickets, r.comments)

\* A segment, for a ticket and the kinds of its comments.
LEMMA SegmentCases ==
  ASSUME NEW status \in Statuses, NEW kinds \in SUBSET {"conflict", "resolution"}
  PROVE  /\ Segment(status, kinds) \in {"done", "running", "pending", "conflict", "failed"}
         /\ Segment(status, kinds) = "pending" => status \in {"pending", "blocked"}
         /\ status = "done" /\ kinds = {} => Segment(status, kinds) = "done"
         /\ Segment(status, kinds) = "conflict" <=> HasOpenConflict(kinds)
BY DEF Segment, HasOpenConflict, Statuses, Final

\* A content state has its type.
LEMMA ContentStateType ==
  ASSUME NEW run \in RunStatuses, NEW tickets \in TicketStates, NEW comments \in CommentStates
  PROVE  /\ OrchestrationContentState(run, tickets, comments) \in ContentStates
         /\ OrchestrationContentState(run, tickets, comments).phase = Phase(run, Segments(tickets, comments))
         /\ \A t \in Tickets : OrchestrationContentState(run, tickets, comments).segments[t] = Segment(tickets[t], comments[t])
         /\ \A t \in Tickets : Segments(tickets, comments)[t] = Segment(tickets[t], comments[t])
<1>1. ASSUME NEW t \in Tickets PROVE Segment(tickets[t], comments[t]) \in {"done", "running", "pending", "conflict", "failed"}
  BY SegmentCases DEF TicketStates, CommentStates
<1>2. PICK segments : segments = Segments(tickets, comments)
  OBVIOUS
<1>3. segments \in [Tickets -> {"done", "running", "pending", "conflict", "failed"}]
      /\ \A t \in Tickets : segments[t] = Segment(tickets[t], comments[t])
  BY <1>1, <1>2 DEF Segments
<1>4. Phase(run, segments) \in {"running", "conflict", "done", "failed"}
  BY DEF Phase, RunStatuses
<1>5. OrchestrationContentState(run, tickets, comments) = [phase |-> Phase(run, segments), segments |-> segments]
  BY <1>2 DEF OrchestrationContentState
<1> HIDE DEF Phase
<1> QED
  BY <1>2, <1>3, <1>4, <1>5 DEF ContentStates

\* What a handler read, when it sends.
LEMMA ReaderState ==
  ASSUME NEW r \in Readers
  PROVE  /\ StateOf(r) \in ContentStates
         /\ StateOf(r).phase = Phase(r.run, Segments(r.tickets, r.comments))
         /\ \A t \in Tickets : StateOf(r).segments[t] = Segment(r.tickets[t], r.comments[t])
         /\ \A t \in Tickets : Segments(r.tickets, r.comments)[t] = Segment(r.tickets[t], r.comments[t])
<1>1. r.run \in RunStatuses /\ r.tickets \in TicketStates /\ r.comments \in CommentStates
  BY DEF Readers
<1> QED
  BY <1>1, ContentStateType DEF StateOf

\* A handler that sends "done" has read tickets that are done, of a run that is done.
LEMMA DoneIsRead ==
  ASSUME NEW r \in Readers, NEW e, NEW run, NEW tickets, HandlerOK(r, e, run, tickets), r.pc \in {"start", "send"},
         StateOf(r).phase = "done"
  PROVE  run = "done" /\ \A t \in Tickets : StateOf(r).segments[t] = "done"
<1>1. r.run = "done"
  <2>1. Phase(r.run, Segments(r.tickets, r.comments)) = "done" /\ r.run \in RunStatuses
    BY ReaderState DEF Readers
  <2> QED
    BY <2>1 DEF Phase, RunStatuses
<1>2. \A t \in Tickets : r.tickets[t] = "done" /\ r.comments[t] = {}
  BY <1>1 DEF HandlerOK
<1>3. \A t \in Tickets : Segment(r.tickets[t], r.comments[t]) = "done"
  BY <1>2 DEF Segment, HasOpenConflict
<1> QED
  BY <1>1, <1>3, ReaderState DEF HandlerOK

\* A handler that finds a run newly created works on the first event, unless a ticket is blocked.
LEMMA NewIsFirst ==
  ASSUME NEW r \in Readers, NEW e, NEW run, NEW tickets, HandlerOK(r, e, run, tickets), r.pc = "tokens",
         StateOf(r).phase = "running", \A t \in Tickets : StateOf(r).segments[t] = "pending"
  PROVE  r.event = 1 \/ \E t \in Tickets : tickets[t] = "blocked"
<1>1. r.run # "killed"
  <2>1. Phase(r.run, Segments(r.tickets, r.comments)) = "running"
    BY ReaderState
  <2> QED
    BY <2>1 DEF Phase
<1>2. ASSUME NEW t \in Tickets PROVE r.tickets[t] \in {"pending", "blocked"}
  <2>1. r.tickets[t] \in Statuses /\ r.comments[t] \in SUBSET {"conflict", "resolution"}
    BY DEF Readers, TicketStates, CommentStates
  <2>2. Segment(r.tickets[t], r.comments[t]) = "pending"
    BY ReaderState
  <2> QED
    BY <2>1, <2>2, SegmentCases
<1>3. r.event \in Nat /\ (r.event # 1 => r.event >= 2)
  <2>1. r.event \in 1 .. e /\ r.event \in Nat
    BY DEF HandlerOK, Readers
  <2> QED
    BY <2>1
<1> QED
  BY <1>1, <1>2, <1>3 DEF HandlerOK

\* What the completed run shows does not depend on the answers to its conflicts.
LEMMA PhaseOfEnd ==
  ASSUME NEW run \in RunStatuses, run # "running", NEW a, NEW b,
         run = "done" => \A t \in Tickets : a[t] = b[t]
  PROVE  Phase(run, a) = Phase(run, b)
BY DEF Phase, RunStatuses

\* The handler of the last event, when it sends, shows the end.
LEMMA LastShowsEnd ==
  ASSUME NEW r \in Readers, r.pc = "send", NEW run \in RunStatuses, run # "running",
         NEW tickets \in TicketStates, NEW comments \in CommentStates,
         LastReads(r, run, tickets, comments), run # "blocked" => \A t \in Tickets : comments[t] = {}
  PROVE  ShowsEnd(StateOf(r), run, tickets, comments)
<1>1. r.run = run /\ r.tickets = tickets /\ \A t \in Tickets : r.comments[t] = comments[t] \/ "resolution" \in comments[t]
  BY DEF LastReads
<1>2. \A t \in Tickets : "resolution" \in comments[t] \/ StateOf(r).segments[t] = Segment(tickets[t], comments[t])
  BY <1>1, ReaderState
<1>3. run = "done" => \A t \in Tickets : Segments(r.tickets, r.comments)[t] = Segments(tickets, comments)[t]
  <2> SUFFICES ASSUME run = "done", NEW t \in Tickets PROVE Segments(r.tickets, r.comments)[t] = Segments(tickets, comments)[t]
    OBVIOUS
  <2>1. r.comments[t] = comments[t]
    BY <1>1
  <2> QED
    BY <1>1, <2>1, ReaderState, ContentStateType
<1>4. Phase(r.run, Segments(r.tickets, r.comments)) = Phase(run, Segments(tickets, comments))
  BY <1>1, <1>3, PhaseOfEnd
<1> QED
  BY <1>2, <1>4, ReaderState DEF ShowsEnd

\* A run that is done shows as done.
LEMMA DoneShowsEnd ==
  ASSUME NEW state, state.phase = "done", \A t \in Tickets : state.segments[t] = "done",
         NEW tickets \in TicketStates, NEW comments \in CommentStates,
         \A t \in Tickets : tickets[t] = "done" /\ comments[t] = {}
  PROVE  ShowsEnd(state, "done", tickets, comments)
<1>1. \A t \in Tickets : Segment(tickets[t], comments[t]) = "done" /\ Segments(tickets, comments)[t] = "done"
  BY DEF Segment, Segments, HasOpenConflict
<1>2. Phase("done", Segments(tickets, comments)) = "done"
  BY <1>1 DEF Phase
<1> QED
  BY <1>1, <1>2 DEF ShowsEnd

\* What the handlers have read stays true as the run goes on.
LEMMA ReadStaysTrue ==
  ASSUME NEW r \in Readers, NEW e \in Nat, NEW e2 \in Nat, NEW run, NEW run2, NEW tickets, NEW tickets2,
         HandlerOK(r, e, run, tickets), e <= e2, run # "running" => run2 = run,
         \A t \in Tickets : tickets[t] = "blocked" => tickets2[t] = "blocked",
         \A t \in Tickets : tickets[t] # "pending" => tickets2[t] # "pending"
  PROVE  HandlerOK(r, e2, run2, tickets2)
<1>1. r.pc # "idle" => r.event \in 1 .. e2
  BY DEF HandlerOK, Readers
<1> QED
  BY <1>1 DEF HandlerOK


\* The state a handler starts from.
LEMMA IdleReads ==
  ASSUME NEW e \in Nat, NEW run, NEW tickets
  PROVE  Idle \in Readers /\ Idle.pc = "idle" /\ Idle.run = "running" /\ HandlerOK(Idle, e, run, tickets)
<1>1. Idle.tickets \in TicketStates /\ Idle.comments \in CommentStates
  BY DEF Idle, TicketStates, CommentStates, Statuses
<1>2. Idle \in Readers
  BY <1>1 DEF Idle, Readers, HandlerSteps, RunStatuses
<1> QED
  BY <1>2 DEF Idle, HandlerOK

\* The run changes and announces it: the new event has a handler, which has read nothing yet.
LEMMA RunChanges ==
  ASSUME ActivitySafe, Changed, stage # "completed", RunShape', RunOK',
         \A t \in Tickets : ticket[t] = "blocked" => ticket'[t] = "blocked",
         \A t \in Tickets : ticket[t] # "pending" => ticket'[t] # "pending"
  PROVE  ActivitySafe'
<1>1. PICK h \in Handlers :
        /\ handler[h].pc = "idle"
        /\ handler' = [handler EXCEPT ![h] = [Idle EXCEPT !.pc = "run", !.event = event + 1]]
        /\ event' = event + 1 /\ followed' = IF followed = "late" THEN "yes" ELSE followed
        /\ UNCHANGED <<updateToken, startTokens, rotation, phone, pushFaults, starts, crossed>>
  BY DEF Changed
<1>2. /\ event \in Nat /\ event + 1 \in Nat /\ handler \in [Handlers -> Readers] /\ phone \in Phones
      /\ starts \in Nat /\ runStatus = "running"
  BY DEF ActivitySafe, ActivityShape, RunOK
<1> PICK r : r = [Idle EXCEPT !.pc = "run", !.event = event + 1]
  OBVIOUS
<1>3. r \in Readers /\ r.pc = "run" /\ r.event = event + 1 /\ r.run = "running"
  BY <1>2, IdleReads DEF Readers, HandlerSteps
<1>4. handler'[h] = r /\ (\A k \in Handlers : k # h => handler'[k] = handler[k]) /\ handler' \in [Handlers -> Readers]
  BY <1>1, <1>2, <1>3
<1>5. ActivityShape'
  BY <1>1, <1>2, <1>4 DEF ActivitySafe, ActivityShape, TokenShape
<1>6. HandlersOK'
  <2> SUFFICES ASSUME NEW k \in Handlers PROVE HandlerOK(handler'[k], event + 1, runStatus', ticket')
    BY <1>1 DEF HandlersOK
  <2>1. CASE k = h
    <3>1. r.event \in 1 .. event + 1
      BY <1>2, <1>3
    <3>2. HandlerOK(r, event + 1, runStatus', ticket')
      BY <1>3, <3>1 DEF HandlerOK
    <3> QED
      BY <1>4, <2>1, <3>2
  <2>2. CASE k # h
    <3>1. HandlerOK(handler[k], event, runStatus, ticket) /\ handler[k] \in Readers
      BY <1>2 DEF ActivitySafe, HandlersOK
    <3> QED
      BY <1>2, <1>4, <2>2, <3>1, ReadStaysTrue
  <2> QED
    BY <2>1, <2>2
<1>7. \A k \in Handlers : handler[k].pc # "idle" => handler[k].event \in 1 .. event
  BY DEF ActivitySafe, HandlersOK, HandlerOK
<1>8. EventsDiffer'
  <2>1. phone.of \in Nat /\ phone.of <= event
    BY <1>2 DEF ActivitySafe, EventsDiffer, Phones
  <2>2. \A k \in Handlers : k # h /\ handler'[k].pc # "idle" => handler'[k].event # event + 1 /\ handler'[k].event # phone.of
    BY <1>2, <1>4, <1>7 DEF ActivitySafe, EventsDiffer
  <2>3. \A k, l \in Handlers : k # h /\ l # h /\ handler'[k].pc # "idle" /\ handler'[l].pc # "idle" /\ handler'[k].event = handler'[l].event => k = l
    BY <1>4 DEF ActivitySafe, EventsDiffer
  <2> QED
    BY <1>1, <1>2, <1>3, <1>4, <2>1, <2>2, <2>3 DEF EventsDiffer
<1>9. StartsOK'
  <2>1. CASE starts = 0
    BY <1>1, <1>2, <2>1 DEF StartsOK
  <2>2. CASE starts # 0
    <3>1. event >= 1
      BY <1>2, <2>2 DEF ActivitySafe, StartsOK
    <3>2. \A k \in Handlers : handler'[k].pc # "idle" => k = h \/ (handler[k].pc # "idle" /\ handler'[k].event = handler[k].event)
      BY <1>4
    <3> QED
      BY <1>1, <1>2, <1>3, <1>4, <2>2, <3>1, <3>2 DEF ActivitySafe, StartsOK
  <2> QED
    BY <2>1, <2>2
<1>10. EndIsUnderWay'
  <2>1. LastReads(r, runStatus', ticket', comment')
    BY <1>3 DEF LastReads
  <2> QED
    BY <1>1, <1>3, <1>4, <2>1 DEF EndIsUnderWay
<1>11. PhoneOK'
  <2>1. phone.state.phase # "done"
    BY <1>2 DEF ActivitySafe, PhoneOK, PhoneIs
  <2> QED
    BY <1>1, <2>1 DEF ActivitySafe, PhoneOK, PhoneIs
<1> QED
  BY <1>5, <1>6, <1>8, <1>9, <1>10, <1>11 DEF ActivitySafe

\* The run begins, its tickets start and end.
LEMMA TicketStep ==
  ASSUME ActivitySafe, CreateTickets \/ \E t \in Tickets : StartTicket(t) \/ EndTicket(t)
  PROVE  ActivitySafe'
<1>1. RunShape /\ RunOK /\ event \in Nat
  BY DEF ActivitySafe, ActivityShape
<1>2. Changed /\ event' = event + 1
  BY DEF CreateTickets, StartTicket, EndTicket, Changed
<1>3. CASE CreateTickets
  <2>1. stage = "new" /\ stage' = "batches" /\ UNCHANGED <<runStatus, ticket, comment>>
    BY <1>3 DEF CreateTickets
  <2>2. RunShape' /\ RunOK'
    BY <1>1, <1>2, <2>1 DEF RunShape, RunOK
  <2> QED
    BY <1>2, <2>1, <2>2, RunChanges
<1>4. ASSUME NEW t \in Tickets, StartTicket(t) \/ EndTicket(t) PROVE ActivitySafe'
  <2>1. PICK new \in {"in-progress"} \cup Final :
          ticket' = [ticket EXCEPT ![t] = new] /\ stage = "batches" /\ ticket[t] \in {"pending", "in-progress"}
    BY <1>4 DEF StartTicket, EndTicket
  <2>2. UNCHANGED <<stage, runStatus, comment>>
    BY <1>4 DEF StartTicket, EndTicket
  <2>3. new \in Statuses /\ new # "pending"
    BY DEF Statuses, Final
  <2>4. ticket \in [Tickets -> Statuses] /\ ticket' \in [Tickets -> Statuses] /\ ticket'[t] = new /\ \A k \in Tickets : k # t => ticket'[k] = ticket[k]
    BY <1>1, <2>1, <2>3 DEF RunShape, TicketStates
  <2>5. RunShape'
    BY <1>1, <2>2, <2>4 DEF RunShape, TicketStates
  <2>6. RunOK'
    BY <1>1, <1>2, <2>1, <2>2, <2>3, <2>4 DEF RunOK
  <2>7. /\ \A k \in Tickets : ticket[k] = "blocked" => ticket'[k] = "blocked"
        /\ \A k \in Tickets : ticket[k] # "pending" => ticket'[k] # "pending"
    BY <2>1, <2>3, <2>4
  <2> QED
    BY <1>2, <2>1, <2>5, <2>6, <2>7, RunChanges
<1> QED
  BY <1>3, <1>4

\* The run escalates its conflicts, and ends.
LEMMA RunEndsStep ==
  ASSUME ActivitySafe, Escalate \/ CompleteRun \/ KillRun
  PROVE  ActivitySafe'
<1>1. RunShape /\ RunOK /\ event \in Nat
  BY DEF ActivitySafe, ActivityShape
<1>2. Changed /\ event' = event + 1 /\ ticket' = ticket /\ stage \in {"batches", "reconciled"}
  BY DEF Escalate, CompleteRun, KillRun, Changed
<1>3. PICK t0 \in Tickets : TRUE
  BY ActivityAssumption
<1>4. runStatus = "running"
  BY <1>1, <1>2 DEF RunOK
<1>5. CASE Escalate
  <2>1. PICK material \in SUBSET Tickets \ {{}}, low \in SUBSET Tickets :
          comment' = [t \in Tickets |-> (IF t \in material THEN {"conflict"} ELSE {}) \cup (IF t \in low THEN {"resolution"} ELSE {})]
    BY <1>5 DEF Escalate
  <2>2. comment' \in CommentStates
    BY <2>1 DEF CommentStates
  <2>3. stage' = "reconciled" /\ UNCHANGED <<runStatus, ticket>> /\ \A t \in Tickets : ticket[t] \in Final
    BY <1>5 DEF Escalate
  <2>4. RunShape' /\ RunOK'
    BY <1>1, <1>2, <1>3, <1>4, <2>2, <2>3 DEF RunShape, RunOK, Final
  <2> QED
    BY <1>2, <2>4, RunChanges
<1>6. CASE CompleteRun
  <2>1. stage' = "completed" /\ runStatus' = ComputeRunStatus(stage = "reconciled") /\ UNCHANGED <<ticket, comment>>
        /\ \A t \in Tickets : ticket[t] \in Final
    BY <1>6 DEF CompleteRun
  <2>2. /\ runStatus' \in {"blocked", "failed", "done"}
        /\ stage = "reconciled" => runStatus' = "blocked"
        /\ runStatus' = "done" => \A t \in Tickets : ticket[t] = "done"
    <3>1. CASE stage = "reconciled" \/ \E t \in Tickets : ticket[t] \notin {"done", "failed"}
      BY <2>1, <3>1 DEF ComputeRunStatus
    <3>2. CASE stage # "reconciled" /\ \A t \in Tickets : ticket[t] \in {"done", "failed"}
      BY <2>1, <3>2 DEF ComputeRunStatus
    <3> QED
      BY <3>1, <3>2
  <2>3. RunShape' /\ RunOK'
    BY <1>1, <1>2, <1>3, <2>1, <2>2 DEF RunShape, RunOK, RunStatuses, Final
  <2> QED
    BY <1>2, <2>3, RunChanges
<1>7. CASE KillRun
  <2>1. stage = "batches" /\ stage' = "completed" /\ runStatus' = "killed" /\ UNCHANGED <<ticket, comment>>
    BY <1>7 DEF KillRun
  <2>2. RunShape' /\ RunOK'
    BY <1>1, <1>2, <2>1 DEF RunShape, RunOK, RunStatuses
  <2> QED
    BY <1>2, <2>2, RunChanges
<1> QED
  BY <1>5, <1>6, <1>7


\* One handler takes a step, or ends.
LEMMA OneHandlerMoves ==
  ASSUME ActivitySafe, NEW h \in Handlers, NEW r \in Readers, handler' = [handler EXCEPT ![h] = r],
         UNCHANGED <<stage, runStatus, ticket, comment, event, followed>>, TokenShape', phone' \in Phones, starts' \in Nat,
         HandlerOK(r, event, runStatus, ticket), handler[h].pc # "idle",
         r.pc # "idle" => r.event = handler[h].event,
         phone'.of = phone.of \/ (phone'.of = handler[h].event /\ r.pc = "idle"),
         starts' = starts \/ StartsOK', PhoneIs(phone', runStatus, followed), EndIsUnderWay'
  PROVE  ActivitySafe'
<1>1. /\ handler'[h] = r /\ (\A k \in Handlers : k # h => handler'[k] = handler[k]) /\ handler' \in [Handlers -> Readers]
      /\ event \in Nat
  BY DEF ActivitySafe, ActivityShape
<1>2. ActivityShape'
  BY <1>1 DEF ActivitySafe, ActivityShape, RunShape
<1>3. RunOK'
  BY DEF ActivitySafe, RunOK
<1>4. HandlersOK'
  BY <1>1 DEF ActivitySafe, HandlersOK
<1>5. \A k \in Handlers : handler'[k].pc # "idle" => handler[k].pc # "idle" /\ handler'[k].event = handler[k].event
  BY <1>1
<1>6. EventsDiffer'
  <2>1. phone.of <= event /\ handler[h].event \in 1 .. event
    BY DEF ActivitySafe, EventsDiffer, HandlersOK, HandlerOK
  <2>2. phone'.of <= event
    BY <1>1, <2>1
  <2>3. ASSUME NEW k \in Handlers, handler'[k].pc # "idle" PROVE handler'[k].event # phone'.of
    <3>1. CASE phone'.of = phone.of
      BY <1>5, <2>3, <3>1 DEF ActivitySafe, EventsDiffer
    <3>2. CASE phone'.of = handler[h].event /\ r.pc = "idle"
      <4>1. k # h
        BY <1>1, <2>3, <3>2
      <4> QED
        BY <1>5, <2>3, <3>2, <4>1 DEF ActivitySafe, EventsDiffer
    <3> QED
      BY <3>1, <3>2
  <2> QED
    BY <1>5, <2>2, <2>3 DEF ActivitySafe, EventsDiffer
<1>7. StartsOK'
  BY <1>5 DEF ActivitySafe, StartsOK
<1>8. PhoneOK'
  BY DEF PhoneOK
<1> QED
  BY <1>2, <1>3, <1>4, <1>6, <1>7, <1>8 DEF ActivitySafe

\* The end stays under way when another handler moves, or when the last one reads on.
LEMMA EndStaysUnderWay ==
  ASSUME ActivitySafe, NEW h \in Handlers, NEW r \in Readers, handler' = [handler EXCEPT ![h] = r],
         UNCHANGED <<stage, runStatus, ticket, comment, event, phone>>,
         Following' => Following,
         stage = "completed" /\ Following /\ Following' /\ LastReads(handler[h], runStatus, ticket, comment) =>
           r.event = handler[h].event /\ LastReads(r, runStatus, ticket, comment)
  PROVE  EndIsUnderWay'
<1>1. handler'[h] = r /\ (\A k \in Handlers : k # h => handler'[k] = handler[k])
  BY DEF ActivitySafe, ActivityShape
<1> SUFFICES ASSUME stage = "completed", Following'
             PROVE  \/ \E k \in Handlers : handler'[k].event = event /\ LastReads(handler'[k], runStatus, ticket, comment)
                    \/ ShowsEnd(phone.state, runStatus, ticket, comment) /\ (phone.of = event \/ phone.shows = "ended")
  BY DEF EndIsUnderWay
<1>2. CASE \E k \in Handlers : handler[k].event = event /\ LastReads(handler[k], runStatus, ticket, comment)
  <2> PICK k \in Handlers : handler[k].event = event /\ LastReads(handler[k], runStatus, ticket, comment)
    BY <1>2
  <2>1. CASE k = h
    <3>1. handler'[k].event = event /\ LastReads(handler'[k], runStatus, ticket, comment)
      BY <1>1, <2>1
    <3> QED
      BY <3>1
  <2>2. CASE k # h
    BY <1>1, <2>2
  <2> QED
    BY <2>1, <2>2
<1>3. CASE ~ \E k \in Handlers : handler[k].event = event /\ LastReads(handler[k], runStatus, ticket, comment)
  BY <1>3 DEF ActivitySafe, EndIsUnderWay
<1> QED
  BY <1>2, <1>3

\* The facts a handler's step starts from.
LEMMA HandlerFacts ==
  ASSUME ActivitySafe, NEW h \in Handlers
  PROVE  /\ handler[h] \in Readers /\ HandlerOK(handler[h], event, runStatus, ticket) /\ Seen(h) = StateOf(handler[h])
         /\ RunShape /\ RunOK /\ TokenShape /\ event \in Nat /\ starts \in Nat /\ phone \in Phones /\ PhoneIs(phone, runStatus, followed)
BY DEF ActivitySafe, ActivityShape, HandlersOK, PhoneOK, Seen, StateOf

\* The run is read, then its tickets, then their comments.
LEMMA ReadStep ==
  ASSUME ActivitySafe, NEW h \in Handlers, ReadSnapshot(h) \/ ReadComments(h)
  PROVE  ActivitySafe'
<1>1. UNCHANGED <<stage, runStatus, ticket, comment, updateToken, startTokens, rotation, phone, pushFaults, event, starts, crossed, followed>>
  BY DEF ReadSnapshot, ReadComments, ledger
<1>2. TokenShape' /\ phone' \in Phones /\ starts' \in Nat /\ PhoneIs(phone', runStatus, followed) /\ (Following' => Following)
  BY <1>1, HandlerFacts DEF TokenShape, Following
<1> PICK q : q = handler[h]
  OBVIOUS
<1>3. /\ q \in Readers /\ HandlerOK(q, event, runStatus, ticket) /\ event \in Nat
      /\ runStatus \in RunStatuses /\ ticket \in TicketStates /\ comment \in CommentStates /\ RunOK
  BY HandlerFacts DEF RunShape
<1>4. PICK r \in Readers :
        /\ handler' = [handler EXCEPT ![h] = r] /\ q.pc # "idle" /\ r.event = q.event
        /\ HandlerOK(r, event, runStatus, ticket)
        /\ LastReads(q, runStatus, ticket, comment) => LastReads(r, runStatus, ticket, comment)
  <2>1. CASE q.pc = "run" /\ ReadSnapshot(h)
    <3> PICK r : r = [q EXCEPT !.pc = "tickets", !.run = runStatus]
      OBVIOUS
    <3>1. handler' = [handler EXCEPT ![h] = r]
      BY <2>1 DEF ReadSnapshot, At, ActivitySafe, ActivityShape
    <3>2. r \in Readers /\ r.pc = "tickets" /\ r.run = runStatus /\ r.event = q.event /\ q.event \in 1 .. event
      BY <1>3, <2>1 DEF Readers, HandlerSteps, HandlerOK
    <3>3. q.event >= 2 => event >= 2
      BY <1>3, <3>2
    <3>4. HandlerOK(r, event, runStatus, ticket)
      BY <1>3, <3>2, <3>3 DEF HandlerOK, RunOK
    <3>5. LastReads(r, runStatus, ticket, comment)
      BY <3>2 DEF LastReads
    <3> QED
      BY <2>1, <3>1, <3>2, <3>4, <3>5
  <2>2. CASE q.pc = "tickets" /\ ReadSnapshot(h)
    <3> PICK r : r = [q EXCEPT !.pc = "comments", !.tickets = ticket]
      OBVIOUS
    <3>1. handler' = [handler EXCEPT ![h] = r]
      BY <2>2 DEF ReadSnapshot, At, ActivitySafe, ActivityShape
    <3>2. r \in Readers /\ r.pc = "comments" /\ r.run = q.run /\ r.tickets = ticket /\ r.event = q.event
      BY <1>3 DEF Readers, HandlerSteps
    <3>3. HandlerOK(r, event, runStatus, ticket)
      BY <1>3, <2>2, <3>2 DEF HandlerOK, RunOK
    <3>4. LastReads(q, runStatus, ticket, comment) => LastReads(r, runStatus, ticket, comment)
      BY <2>2, <3>2 DEF LastReads
    <3> QED
      BY <2>2, <3>1, <3>2, <3>3, <3>4
  <2>3. CASE ReadComments(h)
    <3> PICK r : r = [q EXCEPT !.pc = "tokens", !.comments = comment]
      OBVIOUS
    <3>1. handler' = [handler EXCEPT ![h] = r] /\ q.pc = "comments"
      BY <2>3 DEF ReadComments, At, ActivitySafe, ActivityShape
    <3>2. r \in Readers /\ r.pc = "tokens" /\ r.run = q.run /\ r.tickets = q.tickets /\ r.comments = comment /\ r.event = q.event
      BY <1>3 DEF Readers, HandlerSteps
    <3>3. HandlerOK(r, event, runStatus, ticket)
      BY <1>3, <3>1, <3>2 DEF HandlerOK, RunOK
    <3>4. LastReads(q, runStatus, ticket, comment) => LastReads(r, runStatus, ticket, comment)
      BY <3>1, <3>2 DEF LastReads
    <3> QED
      BY <3>1, <3>2, <3>3, <3>4
  <2> QED
    BY <2>1, <2>2, <2>3 DEF ReadSnapshot, At
<1>5. EndIsUnderWay'
  BY <1>1, <1>2, <1>4, EndStaysUnderWay
<1> QED
  BY <1>1, <1>2, <1>4, <1>5, OneHandlerMoves

\* The tokens are read: the handler sends, starts the activity or ends.
LEMMA ReadTokensStep ==
  ASSUME ActivitySafe, NEW h \in Handlers, ReadTokens(h)
  PROVE  ActivitySafe'
<1>1. /\ UNCHANGED <<stage, runStatus, ticket, comment, startTokens, rotation, phone, pushFaults, event, starts, crossed, followed>>
      /\ updateToken' = IF updateToken = "old" THEN "none" ELSE updateToken
  BY DEF ReadTokens, ledger
<1>2. TokenShape' /\ phone' \in Phones /\ starts' \in Nat /\ PhoneIs(phone', runStatus, followed) /\ (Following' => Following)
  BY <1>1, HandlerFacts DEF TokenShape, Following
<1> PICK q : q = handler[h]
  OBVIOUS
<1>3. q \in Readers /\ HandlerOK(q, event, runStatus, ticket) /\ event \in Nat /\ q.pc = "tokens"
  BY HandlerFacts DEF ReadTokens, At
<1>4. PICK r \in Readers :
        /\ handler' = [handler EXCEPT ![h] = r]
        /\ r.pc # "idle" => r.event = q.event
        /\ HandlerOK(r, event, runStatus, ticket)
        /\ Following' /\ LastReads(q, runStatus, ticket, comment) => r.event = q.event /\ LastReads(r, runStatus, ticket, comment)
  <2>1. CASE updateToken' # "none"
    <3> PICK r : r = [q EXCEPT !.pc = "send"]
      OBVIOUS
    <3>1. handler' = [handler EXCEPT ![h] = r]
      BY <2>1 DEF ReadTokens, ActivitySafe, ActivityShape
    <3>2. r \in Readers /\ r.pc = "send" /\ r.run = q.run /\ r.tickets = q.tickets /\ r.comments = q.comments /\ r.event = q.event
      BY <1>3 DEF Readers, HandlerSteps
    <3>3. HandlerOK(r, event, runStatus, ticket)
      BY <1>3, <3>2 DEF HandlerOK
    <3>4. LastReads(q, runStatus, ticket, comment) => LastReads(r, runStatus, ticket, comment)
      BY <1>3, <3>2 DEF LastReads
    <3> QED
      BY <3>1, <3>2, <3>3, <3>4
  <2>2. CASE updateToken' = "none" /\ NewlyCreated(h)
    <3> PICK r : r = [q EXCEPT !.pc = "start"]
      OBVIOUS
    <3>1. handler' = [handler EXCEPT ![h] = r]
      BY <2>2 DEF ReadTokens, ActivitySafe, ActivityShape
    <3>2. r \in Readers /\ r.pc = "start" /\ r.run = q.run /\ r.tickets = q.tickets /\ r.comments = q.comments /\ r.event = q.event
      BY <1>3 DEF Readers, HandlerSteps
    <3>3. StateOf(q).phase = "running" /\ \A t \in Tickets : StateOf(q).segments[t] = "pending"
      BY <2>2, HandlerFacts DEF NewlyCreated
    <3>4. q.event = 1 \/ \E t \in Tickets : ticket[t] = "blocked"
      BY <1>3, <3>3, NewIsFirst
    <3>5. HandlerOK(r, event, runStatus, ticket)
      BY <1>3, <3>2, <3>4 DEF HandlerOK
    <3> QED
      BY <2>2, <3>1, <3>2, <3>5 DEF Following
  <2>3. CASE updateToken' = "none" /\ ~ NewlyCreated(h)
    <3>1. handler' = [handler EXCEPT ![h] = Idle]
      BY <2>3 DEF ReadTokens, ActivitySafe, ActivityShape
    <3> QED
      BY <1>3, <2>3, <3>1, IdleReads DEF Following
  <2> QED
    BY <2>1, <2>2, <2>3
<1>5. EndIsUnderWay'
  BY <1>1, <1>2, <1>4, EndStaysUnderWay
<1> QED
  BY <1>1, <1>2, <1>3, <1>4, <1>5, OneHandlerMoves


\* A read or a start that fails ends the handler.
LEMMA HandlerFailsStep ==
  ASSUME ActivitySafe, NEW h \in Handlers, ReadFails(h) \/ StartFails(h)
  PROVE  ActivitySafe'
<1>1. /\ UNCHANGED <<stage, runStatus, ticket, comment, updateToken, startTokens, rotation, phone, event, starts, crossed, followed>>
      /\ pushFaults' = pushFaults + 1 /\ handler' = [handler EXCEPT ![h] = Idle] /\ handler[h].pc # "idle"
  BY DEF ReadFails, StartFails, PushFault, ledger, At
<1>2. TokenShape' /\ phone' \in Phones /\ starts' \in Nat /\ PhoneIs(phone', runStatus, followed) /\ ~ Following'
  BY <1>1, HandlerFacts DEF TokenShape, Following
<1>3. EndIsUnderWay'
  BY <1>2 DEF EndIsUnderWay
<1>4. Idle \in Readers /\ Idle.pc = "idle" /\ HandlerOK(Idle, event, runStatus, ticket)
  BY HandlerFacts, IdleReads
<1> QED
  BY <1>1, <1>2, <1>3, <1>4, OneHandlerMoves

\* Among the start tokens, at most one is the phone's.
LEMMA OneTokenAtMost ==
  ASSUME NEW S, NEW x
  PROVE  Cardinality(S \cap {x}) \in 0 .. 1
<1>1. CASE x \in S
  <2>1. S \cap {x} = {x}
    BY <1>1
  <2>2. Cardinality({x}) = 1
    BY FS_Singleton
  <2> QED
    BY <2>1, <2>2
<1>2. CASE x \notin S
  <2>1. S \cap {x} = {}
    BY <1>2
  <2>2. Cardinality({}) = 0
    BY FS_EmptySet
  <2> QED
    BY <2>1, <2>2
<1> QED
  BY <1>1, <1>2

\* What is sent to the phone is a state of the activity, and says done only of a run that is.
LEMMA SentState ==
  ASSUME ActivitySafe, NEW h \in Handlers, handler[h].pc \in {"start", "send"}, NEW shows \in {"activity", "ended"},
         shows = "ended" => Seen(h).phase = "done",
         NEW p, p = [shows |-> shows, state |-> Seen(h), of |-> handler[h].event]
  PROVE  p \in Phones /\ p.of = handler[h].event /\ PhoneIs(p, runStatus, followed)
<1>1. Seen(h) \in ContentStates /\ handler[h].event \in Nat
  BY HandlerFacts, ReaderState DEF Readers
<1>2. p \in Phones /\ p.of = handler[h].event /\ p.state = Seen(h) /\ p.shows = shows
  BY <1>1 DEF Phones
<1>3. Seen(h).phase = "done" => runStatus = "done" /\ \A t \in Tickets : Seen(h).segments[t] = "done"
  BY HandlerFacts, DoneIsRead
<1> QED
  BY <1>2, <1>3 DEF PhoneIs

\* The activity is started: by the handler of the first event, unless a ticket is blocked.
LEMMA StartActivityStep ==
  ASSUME ActivitySafe, NEW h \in Handlers, StartActivity(h)
  PROVE  ActivitySafe'
<1> PICK valid : valid = startTokens \cap {rotation.given}
  OBVIOUS
<1>1. /\ UNCHANGED <<stage, runStatus, ticket, comment, updateToken, rotation, pushFaults, event, crossed, followed>>
      /\ handler[h].pc = "start" /\ handler' = [handler EXCEPT ![h] = Idle]
      /\ startTokens' = valid /\ starts' = starts + Cardinality(valid)
      /\ phone' = IF valid = {} \/ phone.shows # "nothing" THEN phone
                  ELSE [shows |-> "activity", state |-> Seen(h), of |-> handler[h].event]
  BY DEF StartActivity, At, ledger
<1>2. Cardinality(valid) \in 0 .. 1
  BY OneTokenAtMost
<1>3. TokenShape' /\ starts \in Nat /\ starts' \in Nat /\ (Following' => Following)
  BY <1>1, <1>2, HandlerFacts DEF TokenShape, Following
<1>4. Idle \in Readers /\ Idle.pc = "idle" /\ HandlerOK(Idle, event, runStatus, ticket)
  BY HandlerFacts, IdleReads
<1>5. /\ phone' \in Phones /\ PhoneIs(phone', runStatus, followed) /\ (phone'.of = phone.of \/ phone'.of = handler[h].event)
      /\ phone.shows # "nothing" => phone' = phone
  <2>1. CASE phone' = phone
    BY <2>1, HandlerFacts
  <2>2. CASE phone' # phone
    <3>1. phone' = [shows |-> "activity", state |-> Seen(h), of |-> handler[h].event] /\ phone.shows = "nothing"
      BY <1>1, <2>2
    <3> QED
      BY <1>1, <3>1, SentState
  <2> QED
    BY <2>1, <2>2
<1>6. starts' = starts \/ StartsOK'
  <2>1. handler[h].event \in 1 .. event /\ (handler[h].event = 1 \/ \E t \in Tickets : ticket[t] = "blocked") /\ event \in Nat
    BY <1>1, HandlerFacts DEF HandlerOK
  <2>2. event # 0
    BY <2>1
  <2>3. CASE \E t \in Tickets : ticket[t] = "blocked"
    BY <1>1, <2>2, <2>3 DEF StartsOK
  <2>4. CASE handler[h].event = 1 /\ ~ \E t \in Tickets : ticket[t] = "blocked"
    <3>1. starts = 0
      BY <1>1, <2>4 DEF ActivitySafe, StartsOK
    <3>2. ASSUME NEW k \in Handlers, handler'[k].pc # "idle" PROVE handler'[k].event >= 2
      <4>1. k # h /\ handler'[k] = handler[k]
        BY <1>1, <1>4, <3>2 DEF ActivitySafe, ActivityShape
      <4>2. handler[k].event \in 1 .. event /\ handler[k].event # 1
        BY <1>1, <2>4, <3>2, <4>1 DEF ActivitySafe, EventsDiffer, HandlersOK, HandlerOK
      <4> QED
        BY <2>1, <4>1, <4>2
    <3> QED
      BY <1>1, <1>2, <2>2, <3>1, <3>2 DEF StartsOK
  <2> QED
    BY <2>1, <2>3, <2>4
<1>7. EndIsUnderWay'
  <2>1. ASSUME Following' PROVE phone' = phone
    BY <1>3, <1>5, <2>1, HandlerFacts DEF Following, PhoneIs
  <2>2. ~ LastReads(handler[h], runStatus, ticket, comment)
    BY <1>1 DEF LastReads
  <2>3. CASE Following'
    BY <1>1, <1>3, <1>4, <2>1, <2>2, <2>3, EndStaysUnderWay
  <2>4. CASE ~ Following'
    BY <2>4 DEF EndIsUnderWay
  <2> QED
    BY <2>3, <2>4
<1> QED
  BY <1>1, <1>3, <1>4, <1>5, <1>6, <1>7, OneHandlerMoves

\* What the phone makes of an update.
LEMMA UpdatedPhone ==
  ASSUME ActivitySafe, NEW h \in Handlers, handler[h].pc = "send"
  PROVE  /\ Updated(h) \in Phones /\ PhoneIs(Updated(h), runStatus, followed)
         /\ Updated(h).of = phone.of \/ Updated(h).of = handler[h].event
         /\ phone.shows = "ended" => Updated(h) = phone
         /\ phone.shows # "ended" => Updated(h).state = Seen(h) /\ Updated(h).of = handler[h].event
<1>1. CASE phone.shows = "ended"
  BY <1>1, HandlerFacts DEF Updated
<1>2. CASE phone.shows # "ended"
  <2> PICK shows : shows = IF Seen(h).phase = "done" THEN "ended" ELSE "activity"
    OBVIOUS
  <2> PICK p : p = [shows |-> shows, state |-> Seen(h), of |-> handler[h].event]
    OBVIOUS
  <2>1. Updated(h) = p /\ shows \in {"activity", "ended"} /\ (shows = "ended" => Seen(h).phase = "done") /\ p.state = Seen(h)
    BY <1>2 DEF Updated
  <2>2. p \in Phones /\ p.of = handler[h].event /\ PhoneIs(p, runStatus, followed)
    BY <2>1, SentState
  <2> QED
    BY <1>2, <2>1, <2>2
<1> QED
  BY <1>1, <1>2

\* The update is sent: by the last handler it shows the end, and one that comes later than a
\* later event's is counted as crossed.
LEMMA SendUpdateStep ==
  ASSUME ActivitySafe, NEW h \in Handlers, SendUpdate(h)
  PROVE  ActivitySafe'
<1>1. /\ UNCHANGED <<stage, runStatus, ticket, comment, updateToken, startTokens, rotation, pushFaults, event, starts, followed>>
      /\ handler[h].pc = "send" /\ handler' = [handler EXCEPT ![h] = Idle] /\ phone' = Updated(h)
      /\ crossed' = IF handler[h].event < phone.of THEN "yes" ELSE crossed
  BY DEF SendUpdate, At, ledger
<1>2. TokenShape' /\ starts' \in Nat /\ (Following' => Following /\ ~ (handler[h].event < phone.of))
  BY <1>1, HandlerFacts DEF TokenShape, Following
<1>3. Idle \in Readers /\ Idle.pc = "idle" /\ HandlerOK(Idle, event, runStatus, ticket)
  BY HandlerFacts, IdleReads
<1>4. phone' \in Phones /\ PhoneIs(phone', runStatus, followed) /\ (phone'.of = phone.of \/ phone'.of = handler[h].event)
  BY <1>1, UpdatedPhone
<1>5. EndIsUnderWay'
  <2> SUFFICES ASSUME stage = "completed", Following'
               PROVE  \/ \E k \in Handlers : handler'[k].event = event /\ LastReads(handler'[k], runStatus, ticket, comment)
                      \/ ShowsEnd(phone'.state, runStatus, ticket, comment) /\ (phone'.of = event \/ phone'.shows = "ended")
    BY <1>1 DEF EndIsUnderWay
  <2>1. /\ runStatus \in RunStatuses /\ runStatus # "running" /\ ticket \in TicketStates /\ comment \in CommentStates
        /\ runStatus # "blocked" => \A t \in Tickets : comment[t] = {}
        /\ runStatus = "done" => \A t \in Tickets : ticket[t] = "done"
    BY HandlerFacts DEF RunShape, RunOK
  <2>2. CASE phone.shows = "ended"
    <3>1. phone' = phone /\ phone.state.phase = "done" /\ runStatus = "done" /\ \A t \in Tickets : phone.state.segments[t] = "done"
      BY <1>1, <2>2, UpdatedPhone, HandlerFacts DEF PhoneIs
    <3>2. ShowsEnd(phone.state, runStatus, ticket, comment)
      BY <2>1, <3>1, DoneShowsEnd
    <3> QED
      BY <2>2, <3>1, <3>2
  <2>3. CASE phone.shows # "ended" /\ handler[h].event = event /\ LastReads(handler[h], runStatus, ticket, comment)
    <3>1. phone'.state = StateOf(handler[h]) /\ phone'.of = event
      BY <1>1, <2>3, UpdatedPhone, HandlerFacts
    <3>2. ShowsEnd(StateOf(handler[h]), runStatus, ticket, comment)
      BY <1>1, <2>1, <2>3, HandlerFacts, LastShowsEnd
    <3> QED
      BY <3>1, <3>2
  <2>4. CASE \E k \in Handlers \ {h} : handler[k].event = event /\ LastReads(handler[k], runStatus, ticket, comment)
    BY <1>1, <2>4 DEF ActivitySafe, ActivityShape
  <2>5. CASE phone.shows # "ended" /\ phone.of = event
    <3>1. handler[h].event \in 1 .. event /\ handler[h].event # phone.of /\ event \in Nat
      BY <1>1, HandlerFacts DEF ActivitySafe, EventsDiffer, HandlerOK
    <3> QED
      BY <1>2, <2>5, <3>1
  <2>6. \/ \E k \in Handlers : handler[k].event = event /\ LastReads(handler[k], runStatus, ticket, comment)
        \/ ShowsEnd(phone.state, runStatus, ticket, comment) /\ (phone.of = event \/ phone.shows = "ended")
    BY <1>2 DEF ActivitySafe, EndIsUnderWay
  <2> QED
    BY <2>2, <2>3, <2>4, <2>5, <2>6
<1> QED
  BY <1>1, <1>2, <1>3, <1>4, <1>5, OneHandlerMoves

\* The update is refused, or is not answered and may have arrived.
LEMMA SendUpdateFailsStep ==
  ASSUME ActivitySafe, NEW h \in Handlers, SendUpdateFails(h)
  PROVE  ActivitySafe'
<1>1. /\ UNCHANGED <<stage, runStatus, ticket, comment, startTokens, rotation, event, starts, crossed, followed>>
      /\ handler[h].pc = "send" /\ handler' = [handler EXCEPT ![h] = Idle]
      /\ pushFaults' = pushFaults + 1 /\ updateToken' \in {updateToken, "none"} /\ (phone' = phone \/ phone' = Updated(h))
  BY DEF SendUpdateFails, At, ledger, PushFault
<1>2. TokenShape' /\ starts' \in Nat /\ ~ Following'
  BY <1>1, HandlerFacts DEF TokenShape, Following
<1>3. Idle \in Readers /\ Idle.pc = "idle" /\ HandlerOK(Idle, event, runStatus, ticket)
  BY HandlerFacts, IdleReads
<1>4. phone' \in Phones /\ PhoneIs(phone', runStatus, followed) /\ (phone'.of = phone.of \/ phone'.of = handler[h].event)
  BY <1>1, UpdatedPhone, HandlerFacts
<1>5. EndIsUnderWay'
  BY <1>2 DEF EndIsUnderWay
<1> QED
  BY <1>1, <1>2, <1>3, <1>4, <1>5, OneHandlerMoves


\* The owner answers a conflict: of a run that is blocked, which it stays.
LEMMA ResolveConflictStep ==
  ASSUME ActivitySafe, NEW t \in Tickets, ResolveConflict(t)
  PROVE  ActivitySafe'
<1>1. /\ UNCHANGED <<stage, runStatus, ticket, handler, updateToken, startTokens, rotation, phone, pushFaults, event, starts, crossed, followed>>
      /\ comment' = [comment EXCEPT ![t] = @ \cup {"resolution"}] /\ HasOpenConflict(comment[t])
  BY DEF ResolveConflict
<1>2. RunShape /\ TokenShape /\ RunOK
  BY DEF ActivitySafe, ActivityShape
<1>3. comment \in [Tickets -> SUBSET {"conflict", "resolution"}] /\ comment' \in [Tickets -> SUBSET {"conflict", "resolution"}]
      /\ \A k \in Tickets : comment'[k] = comment[k] \/ "resolution" \in comment'[k]
  BY <1>1, <1>2 DEF RunShape, CommentStates
<1>4. stage # "new" /\ stage # "batches" /\ (stage = "completed" => runStatus = "blocked")
  BY <1>1, <1>2 DEF RunShape, RunOK, HasOpenConflict
<1>5. ActivityShape'
  BY <1>1, <1>3 DEF ActivitySafe, ActivityShape, RunShape, TokenShape, CommentStates
<1>6. RunOK'
  BY <1>1, <1>2, <1>4 DEF RunShape, RunOK
<1>7. HandlersOK' /\ EventsDiffer' /\ StartsOK' /\ PhoneOK'
  BY <1>1 DEF ActivitySafe, HandlersOK, EventsDiffer, StartsOK, PhoneOK
<1>8. \A r : LastReads(r, runStatus, ticket, comment) => LastReads(r, runStatus, ticket, comment')
  <2> TAKE r
  <2> HAVE LastReads(r, runStatus, ticket, comment)
  <2>1. ASSUME NEW k \in Tickets, r.comments[k] = comment[k] \/ "resolution" \in comment[k]
        PROVE  r.comments[k] = comment'[k] \/ "resolution" \in comment'[k]
    BY <1>1, <1>3, <2>1
  <2> QED
    BY <2>1 DEF LastReads
<1>9. stage = "completed" /\ ShowsEnd(phone.state, runStatus, ticket, comment) => ShowsEnd(phone.state, runStatus, ticket, comment')
  <2> SUFFICES ASSUME runStatus = "blocked", ShowsEnd(phone.state, runStatus, ticket, comment)
               PROVE  ShowsEnd(phone.state, runStatus, ticket, comment')
    BY <1>4
  <2>1. Phase(runStatus, Segments(ticket, comment)) = Phase(runStatus, Segments(ticket, comment'))
    BY PhaseOfEnd DEF RunStatuses
  <2>2. \A k \in Tickets : "resolution" \in comment[k] => "resolution" \in comment'[k]
    BY <1>1, <1>3
  <2>3. \A k \in Tickets : "resolution" \in comment'[k] \/ phone.state.segments[k] = Segment(ticket[k], comment'[k])
    BY <1>3, <2>2 DEF ShowsEnd
  <2> QED
    BY <2>1, <2>3 DEF ShowsEnd
<1>10. EndIsUnderWay'
  <2> SUFFICES ASSUME stage = "completed", Following'
               PROVE  \/ \E h \in Handlers : handler[h].event = event /\ LastReads(handler[h], runStatus, ticket, comment')
                      \/ ShowsEnd(phone.state, runStatus, ticket, comment') /\ (phone.of = event \/ phone.shows = "ended")
    BY <1>1 DEF EndIsUnderWay
  <2>1. Following
    BY <1>1 DEF Following
  <2> QED
    BY <1>8, <1>9, <2>1 DEF ActivitySafe, EndIsUnderWay
<1> QED
  BY <1>5, <1>6, <1>7, <1>10 DEF ActivitySafe

\* The phone registers its tokens, and they grow old.
LEMMA RegistrationStep ==
  ASSUME ActivitySafe, RegisterUpdateToken \/ TokenAges \/ DeleteStartTokens \/ InsertStartToken
  PROVE  ActivitySafe'
<1>1. UNCHANGED <<stage, runStatus, ticket, comment, handler, phone, pushFaults, event, starts, crossed>>
  BY DEF RegisterUpdateToken, TokenAges, DeleteStartTokens, InsertStartToken, ledger
<1>2. TokenShape
  BY DEF ActivitySafe, ActivityShape
<1>3. TokenShape' /\ (Following' => Following) /\ PhoneOK'
  <2>1. CASE RegisterUpdateToken
    <3>1. updateToken' = "fresh" /\ followed' = "late" /\ phone.shows = "activity" /\ UNCHANGED <<startTokens, rotation>>
      BY <2>1 DEF RegisterUpdateToken
    <3> QED
      BY <1>1, <1>2, <3>1 DEF TokenShape, Following, ActivitySafe, PhoneOK, PhoneIs
  <2>2. CASE TokenAges
    <3>1. updateToken' = "old" /\ UNCHANGED <<startTokens, rotation, followed>>
      BY <2>2 DEF TokenAges
    <3> QED
      BY <1>1, <1>2, <3>1 DEF TokenShape, Following, ActivitySafe, PhoneOK
  <2>3. CASE DeleteStartTokens
    <3>1. /\ rotation' = [rotation EXCEPT !.given = @ + 1, !.waits = @ \cup {rotation.given + 1}] /\ rotation.given < MaxRotations
          /\ startTokens' = {} /\ UNCHANGED <<updateToken, followed>>
      BY <2>3 DEF DeleteStartTokens
    <3>2. rotation.given + 1 \in 1 .. MaxRotations /\ rotation.given + 1 \in 0 .. MaxRotations
      BY <1>2, <3>1, ActivityAssumption DEF TokenShape, Rotations
    <3>3. rotation' \in Rotations
      BY <1>2, <3>1, <3>2 DEF TokenShape, Rotations
    <3> QED
      BY <1>1, <1>2, <3>1, <3>3 DEF TokenShape, Following, ActivitySafe, PhoneOK
  <2>4. CASE InsertStartToken
    <3>1. PICK r \in rotation.waits : rotation' = [rotation EXCEPT !.waits = @ \ {r}] /\ startTokens' = startTokens \cup {r}
      BY <2>4 DEF InsertStartToken
    <3>2. rotation' \in Rotations /\ startTokens' \subseteq 1 .. MaxRotations
      BY <1>2, <3>1 DEF TokenShape, Rotations
    <3>3. UNCHANGED <<updateToken, followed>>
      BY <2>4 DEF InsertStartToken
    <3> QED
      BY <1>1, <1>2, <3>2, <3>3 DEF TokenShape, Following, ActivitySafe, PhoneOK
  <2> QED
    BY <2>1, <2>2, <2>3, <2>4
<1>4. ActivityShape' /\ RunOK' /\ HandlersOK' /\ EventsDiffer' /\ StartsOK'
  BY <1>1, <1>3 DEF ActivitySafe, ActivityShape, RunShape, RunOK, HandlersOK, EventsDiffer, StartsOK
<1>5. EndIsUnderWay'
  BY <1>1, <1>3 DEF ActivitySafe, EndIsUnderWay
<1> QED
  BY <1>3, <1>4, <1>5 DEF ActivitySafe

\* The inductive invariant of the live activity, for every number of tickets, handlers, rotations
\* and faults.
THEOREM ActivitySafety == ActivitySpec => []ActivitySafe
<1>1. ActivityInit => ActivitySafe
  <2> SUFFICES ASSUME ActivityInit PROVE ActivitySafe
    OBVIOUS
  <2>1. Idle \in Readers /\ Idle.pc = "idle" /\ Idle.run = "running" /\ HandlerOK(Idle, 0, runStatus, ticket)
    BY IdleReads
  <2>2. handler \in [Handlers -> Readers] /\ \A h \in Handlers : handler[h] = Idle
    BY <2>1 DEF ActivityInit
  <2> PICK h0 : h0 = CHOOSE h \in Handlers : TRUE
    OBVIOUS
  <2>3. h0 \in Handlers
    BY ActivityAssumption
  <2>4. Seen(h0) = StateOf(Idle)
    BY <2>2, <2>3 DEF Seen, StateOf
  <2>5. StateOf(Idle) \in ContentStates /\ StateOf(Idle).phase # "done"
    <3>1. Phase("running", Segments(Idle.tickets, Idle.comments)) # "done"
      BY DEF Phase
    <3> QED
      BY <2>1, <3>1, ReaderState
  <2>6. phone = [shows |-> "nothing", state |-> StateOf(Idle), of |-> 0]
    BY <2>4 DEF ActivityInit
  <2>7. phone \in Phones /\ phone.of = 0 /\ phone.shows = "nothing" /\ phone.state.phase # "done"
    BY <2>5, <2>6 DEF Phones
  <2>8. RunShape
    BY DEF ActivityInit, RunShape, RunStatuses, TicketStates, CommentStates, Statuses
  <2>9. TokenShape
    BY ActivityAssumption DEF ActivityInit, TokenShape, Rotations
  <2>10. ActivityShape
    BY <2>2, <2>7, <2>8, <2>9 DEF ActivityInit, ActivityShape
  <2>11. event = 0 /\ starts = 0 /\ stage = "new" /\ runStatus = "running" /\ followed = "no"
         /\ \A t \in Tickets : ticket[t] = "pending" /\ comment[t] = {}
    BY DEF ActivityInit
  <2>12. RunOK
    BY <2>11 DEF RunOK
  <2>13. HandlersOK /\ EventsDiffer /\ StartsOK
    BY <2>1, <2>2, <2>7, <2>11 DEF HandlersOK, EventsDiffer, StartsOK
  <2>14. EndIsUnderWay /\ PhoneOK
    BY <2>7, <2>11 DEF EndIsUnderWay, PhoneOK, PhoneIs
  <2> QED
    BY <2>10, <2>12, <2>13, <2>14 DEF ActivitySafe
<1>2. ActivitySafe /\ [ActivityNext]_activityVars => ActivitySafe'
  <2>1. ASSUME ActivitySafe, UNCHANGED activityVars PROVE ActivitySafe'
    BY <2>1 DEF activityVars, ActivitySafe, ActivityShape, RunShape, TokenShape, RunOK, HandlersOK, EventsDiffer, StartsOK,
                EndIsUnderWay, Following, PhoneOK
  <2> QED
    BY <2>1, TicketStep, RunEndsStep, ResolveConflictStep, ReadStep, ReadTokensStep, HandlerFailsStep, StartActivityStep,
       SendUpdateStep, SendUpdateFailsStep, RegistrationStep DEF ActivityNext
<1> QED
  BY <1>1, <1>2, PTL DEF ActivitySpec

\* However the handlers of a run overtake each other: the activity is started once, says done only
\* over tickets that are done, and shows the end of a run it follows.
THEOREM ActivityIsTrue == ActivitySpec => []ActivityInv
<1>1. ActivitySafe => ActivityInv
  <2> SUFFICES ASSUME ActivitySafe PROVE ActivityTypeOK /\ EndIsShown /\ DoneMeansDone /\ StartedOnce
    BY DEF ActivityInv
  <2>1. RunShape /\ TokenShape /\ event \in Nat /\ phone \in Phones /\ phone.of <= event /\ PhoneIs(phone, runStatus, followed)
    BY DEF ActivitySafe, ActivityShape, EventsDiffer, PhoneOK
  <2>2. \A h \in Handlers : handler[h].pc \in HandlerSteps /\ Seen(h) \in ContentStates
    <3> TAKE h \in Handlers
    <3>1. handler[h] \in Readers /\ Seen(h) = StateOf(handler[h])
      BY HandlerFacts
    <3> QED
      BY <3>1, ReaderState DEF Readers
  <2>3. phone \in [shows : {"nothing", "activity", "ended"}, state : ContentStates, of : 0 .. event]
    BY <2>1 DEF Phones
  <2>4. ActivityTypeOK
    BY <2>1, <2>2, <2>3 DEF ActivityTypeOK, RunShape, TokenShape, RunStatuses, TicketStates, CommentStates, Statuses, HandlerSteps, PhoneIs
  <2>5. EndIsShown
    <3> SUFFICES ASSUME stage = "completed", \A h \in Handlers : handler[h].pc = "idle", Following
                 PROVE  LET now == OrchestrationContentState(runStatus, ticket, comment) IN
                          /\ phone.state.phase = now.phase
                          /\ \A t \in Tickets : "resolution" \in comment[t] \/ phone.state.segments[t] = now.segments[t]
      BY DEF EndIsShown, Following
    <3>1. ShowsEnd(phone.state, runStatus, ticket, comment)
      BY DEF ActivitySafe, EndIsUnderWay, LastReads
    <3>2. runStatus \in RunStatuses /\ ticket \in TicketStates /\ comment \in CommentStates
      BY <2>1 DEF RunShape
    <3> HIDE DEF OrchestrationContentState
    <3> QED
      BY <3>1, <3>2, ContentStateType DEF ShowsEnd
  <2>6. DoneMeansDone
    BY <2>1 DEF PhoneIs, DoneMeansDone
  <2>7. StartedOnce
    BY DEF ActivitySafe, StartsOK, StartedOnce
  <2> QED
    BY <2>4, <2>5, <2>6, <2>7
<1> QED
  BY <1>1, ActivitySafety, PTL
=============================================================================
