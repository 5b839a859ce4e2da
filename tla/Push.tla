-------------------------------- MODULE Push --------------------------------
(***************************************************************************)
(* The notices of the iOS app (PushService, PushStore, ApnsClient): an     *)
(* event becomes a notice, which is sent to the devices that want its      *)
(* kind, one after the other, while the phones register, change their      *)
(* preferences and leave.  Apple is external: it refuses a token that is   *)
(* dead, or that was registered for the other environment.                 *)
(***************************************************************************)
EXTENDS Naturals, FiniteSets

CONSTANTS
  Devices,
  Notices,        \* bound: the events that happen, in any order
  MaxRegs,        \* bound: registrations and departures
  MaxApnsFaults   \* bound: failed queries and sends without an answer

ASSUME PushAssumption == MaxRegs \in Nat /\ MaxApnsFaults \in Nat

VARIABLES
  device,     \* push_devices: token -> environment and preferences
  token,      \* Apple's view: "live" or "dead"
  cast,       \* notice -> what its handler is doing
  shown,      \* device -> notices on its screen
  apnsFaults, regs,
  \* history
  due,        \* notice -> devices it is owed to
  tried,      \* notice -> devices it was sent to
  wronged     \* devices removed for the answer to an older registration

pushVars == <<device, token, cast, shown, apnsFaults, regs, due, tried, wronged>>

-----------------------------------------------------------------------------
(* push.types: the kinds and who wants them *)

Kinds == {"approval_new", "approval_expiring", "notify_executed", "budget", "kill_switch",
          "bridge_message", "morning_summary", "chat_done"}
DefaultPreferences == [k \in Kinds |-> k # "notify_executed"]

\* A device that chose nothing, everything or nothing at all.
Preferences == {"default", "all", "none"}
WantsKind(preferences, kind) ==
  CASE preferences = "default" -> DefaultPreferences[kind] [] OTHER -> preferences = "all"

NoDevice == [env |-> "none", pref |-> "default"]
Events == [kind : Kinds \cup {"test"}, ref : 1 .. 2]
ASSUME NoticesAssumption == Notices \subseteq Events

Wanting(kind) ==
  {d \in Devices : device[d].env # "none" /\ (kind = "test" \/ WantsKind(device[d].pref, kind))}

-----------------------------------------------------------------------------
(* push.payloads: what of a notice decides where it shows *)

\* Notices about one approval replace each other, and so do those of the kill switch.
CollapseApproval(n) == IF n.kind \in {"approval_new", "approval_expiring"} THEN n.ref ELSE 0
CollapseKillSwitch(n) == n.kind = "kill_switch"

\* The other notices stay until they are read.
KeptNotices == {"notify_executed", "budget", "morning_summary", "chat_done", "bridge_message", "test"}

\* What an alert leaves on the screen of a phone that showed S.
Alert(S, n) ==
  {n} \cup {o \in S : \/ o.kind \in KeptNotices
                      \/ CollapseKillSwitch(o) /\ ~CollapseKillSwitch(n)
                      \/ ~CollapseKillSwitch(o) /\ (CollapseApproval(o) = 0 \/ CollapseApproval(o) # CollapseApproval(n))}

-----------------------------------------------------------------------------
ApnsFault == apnsFaults < MaxApnsFaults /\ apnsFaults' = apnsFaults + 1
Handler == [pc |-> "list", left |-> {}, to |-> NoDevice]
Over == {"done", "aborted"}

\* The handler of an event, and sendTest, which takes no preference into account; an
\* event that has to be read first awaits its row.
OnEvent(n) ==
  /\ cast[n].pc = "none"
  /\ cast' = [cast EXCEPT ![n] = IF n.kind \in {"approval_new", "bridge_message"}
                                 THEN [Handler EXCEPT !.pc = "read"] ELSE Handler]
  /\ due' = [due EXCEPT ![n] = Wanting(n.kind)]
  /\ UNCHANGED <<device, token, shown, apnsFaults, tried, wronged, regs>>

\* The row the event is about.
ReadRow(n) ==
  /\ cast[n].pc = "read"
  /\ cast' = [cast EXCEPT ![n].pc = "list"]
  /\ UNCHANGED <<device, token, shown, apnsFaults, due, tried, wronged, regs>>

\* broadcast: the devices there are now, those that want the kind.
ListDevices(n) ==
  /\ cast[n].pc = "list"
  /\ cast' = [cast EXCEPT ![n].pc = "next", ![n].left = {[d |-> d, env |-> device[d].env] : d \in Wanting(n.kind)}]
  /\ UNCHANGED <<device, token, shown, apnsFaults, due, tried, wronged, regs>>

\* The next of them; after the last the handler is done.
NextDevice(n) ==
  /\ cast[n].pc = "next"
  /\ IF cast[n].left = {} THEN cast' = [cast EXCEPT ![n] = [Handler EXCEPT !.pc = "done"]]
     ELSE \E to \in cast[n].left : cast' = [cast EXCEPT ![n] = [pc |-> "send", left |-> @.left \ {to}, to |-> to]]
  /\ UNCHANGED <<device, token, shown, apnsFaults, due, tried, wronged, regs>>

\* Who left, changed his mind or cannot be reached is owed nothing by the notices under way.
NotDue(d) == due' = [n \in Notices |-> due[n] \ {d}]

Sending(n) == cast[n].pc = "send"
To(n) == cast[n].to.d

\* send: Apple takes a notice for a live token of its own environment.
Delivered(n) ==
  /\ Sending(n) /\ token[To(n)] = "live" /\ cast[n].to.env = "production"
  /\ shown' = [shown EXCEPT ![To(n)] = Alert(@, n)]
  /\ tried' = [tried EXCEPT ![n] = @ \cup {To(n)}]
  /\ cast' = [cast EXCEPT ![n].pc = "next"]
  /\ UNCHANGED <<device, token, apnsFaults, due, wronged, regs>>

\* Mutant: the first failure ends the broadcast, and the phones that are left are forgotten.
UnansweredForgets(n) ==
  /\ Sending(n) /\ ApnsFault
  /\ tried' = [tried EXCEPT ![n] = @ \cup {To(n)}]
  /\ cast' = [cast EXCEPT ![n].pc = "done", ![n].left = {}]
  /\ UNCHANGED <<device, token, shown, due, wronged, regs>>

\* No answer: the connection is dropped for the next send to open another.
Unanswered(n) ==
  /\ Sending(n) /\ ApnsFault
  /\ tried' = [tried EXCEPT ![n] = @ \cup {To(n)}]
  /\ cast' = [cast EXCEPT ![n].pc = "next"]
  /\ UNCHANGED <<device, token, shown, due, wronged, regs>>

\* The token will never work again (invalidToken).
Refused(n) ==
  /\ Sending(n) /\ (token[To(n)] = "dead" \/ cast[n].to.env # "production")
  /\ tried' = [tried EXCEPT ![n] = @ \cup {To(n)}]
  /\ cast' = [cast EXCEPT ![n].pc = "delete"]
  /\ UNCHANGED <<device, token, shown, apnsFaults, due, wronged, regs>>

\* deleteDevice, by token only: the device may have registered again since.
DeleteRefused(n) ==
  /\ cast[n].pc = "delete" /\ cast' = [cast EXCEPT ![n].pc = "next"]
  /\ device' = [device EXCEPT ![To(n)] = NoDevice]
  /\ IF device[To(n)].env \in {"none", cast[n].to.env}
     THEN NotDue(To(n)) /\ UNCHANGED wronged
     ELSE wronged' = wronged \cup {To(n)} /\ UNCHANGED due
  /\ UNCHANGED <<token, shown, apnsFaults, tried, regs>>

\* safely: a query that fails ends the handler, whoever was left.
QueryFails(n) ==
  /\ cast[n].pc \in {"read", "list", "delete"} /\ ApnsFault
  /\ cast' = [cast EXCEPT ![n] = [Handler EXCEPT !.pc = "aborted"]]
  /\ UNCHANGED <<device, token, shown, due, tried, wronged, regs>>

-----------------------------------------------------------------------------
(* PushController, and the phones *)

Reg == regs < MaxRegs /\ regs' = regs + 1

RegisterDevice(d) ==
  /\ token[d] = "live" /\ Reg
  /\ \E env \in {"sandbox", "production"}, pref \in Preferences :
       /\ device[d] # [env |-> env, pref |-> pref]
       /\ device' = [device EXCEPT ![d] = [env |-> env, pref |-> pref]]
       /\ IF pref = device[d].pref THEN UNCHANGED due ELSE NotDue(d)
  /\ UNCHANGED <<token, cast, shown, apnsFaults, tried, wronged>>

UnregisterDevice(d) ==
  /\ device[d].env # "none" /\ device' = [device EXCEPT ![d] = NoDevice] /\ NotDue(d) /\ Reg
  /\ UNCHANGED <<token, cast, shown, apnsFaults, tried, wronged>>

\* The app is removed from the phone.
Uninstall(d) ==
  /\ token[d] = "live" /\ token' = [token EXCEPT ![d] = "dead"] /\ Reg
  /\ UNCHANGED <<device, cast, shown, apnsFaults, due, tried, wronged>>

-----------------------------------------------------------------------------
PushInit ==
  /\ device = [d \in Devices |-> NoDevice] /\ token = [d \in Devices |-> "live"]
  /\ cast = [n \in Notices |-> [Handler EXCEPT !.pc = "none"]]
  /\ shown = [d \in Devices |-> {}] /\ apnsFaults = 0 /\ regs = 0
  /\ due = [n \in Notices |-> {}] /\ tried = [n \in Notices |-> {}] /\ wronged = {}

PushNext ==
  \/ \E n \in Notices : \/ OnEvent(n) \/ ReadRow(n) \/ ListDevices(n) \/ NextDevice(n) \/ Delivered(n)
                        \/ Unanswered(n) \/ Refused(n) \/ DeleteRefused(n) \/ QueryFails(n)
  \/ \E d \in Devices : RegisterDevice(d) \/ UnregisterDevice(d) \/ Uninstall(d)

PushSpec == PushInit /\ [][PushNext]_pushVars

-----------------------------------------------------------------------------
\* Types of the devices, the handlers and the screens.
PushTypeOK ==
  /\ Notices \subseteq Events
  /\ device \in [Devices -> [env : {"none", "sandbox", "production"}, pref : Preferences]]
  /\ token \in [Devices -> {"live", "dead"}]
  /\ \A n \in Notices : cast[n].pc \in {"none", "read", "list", "next", "send", "delete"} \cup Over
  /\ \A n \in Notices : cast[n].pc \in Over => cast[n].left = {}
  /\ shown \in [Devices -> SUBSET Notices]
  /\ due \in [Notices -> SUBSET Devices] /\ tried \in [Notices -> SUBSET Devices] /\ wronged \subseteq Devices

\* A broadcast that ran to its end was sent to every device that had asked for the kind
\* before the event, can be reached and has not changed its mind: what Apple answers for one phone, and
\* what other broadcasts and registrations do meanwhile, takes it from no other.  The
\* exception is a phone that corrected its environment while a send to the old one was
\* under way: the refusal then deletes the new registration.
DueIsTried == \A n \in Notices : cast[n].pc = "done" => due[n] \subseteq tried[n] \cup wronged

\* A phone shows one notice of an approval, the latest that reached it, and nothing it
\* did not ask for.
OneNoticePerApproval ==
  \A d \in Devices : \A n, o \in shown[d] :
    n.kind \in {"approval_new", "approval_expiring"} /\ o.kind \in {"approval_new", "approval_expiring"} /\ n.ref = o.ref
      => n = o

\* Notices reach every device they are due to, whatever happens to the others, and a phone shows
\* one notice of an approval.
PushInv == PushTypeOK /\ DueIsTried /\ OneNoticePerApproval
=============================================================================
