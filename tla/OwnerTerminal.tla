--------------------------- MODULE OwnerTerminal ---------------------------
(***************************************************************************)
(* The owner's operations on one project of the terminal                   *)
(* (TerminalController, OwnerTerminalService, TerminalExecutorClient).     *)
(* Opening the pod and publishing a build wait for an approval; whatever   *)
(* else changes the project is audited first; reading is free.  Requests   *)
(* overlap, the audit and the executor fail, answers are lost, and the     *)
(* project changes between the check of a request and its approval.        *)
(*                                                                         *)
(* The approval cycle is that of Approvals, here in one step; the executor *)
(* is external: what its operations do to a project is in their contract,  *)
(* the client's comments and the answers the service looks at.             *)
(***************************************************************************)
EXTENDS Naturals, FiniteSets

CONSTANTS
  MaxRequests,  \* bound: requests made
  MaxOpFaults   \* bound: failed audits and calls

ASSUME RequestsAssumption == MaxRequests \in Nat /\ MaxOpFaults \in Nat

VARIABLES
  project,   \* the executor's: disk, pod, files, servers and the published build
  req,       \* request -> operation and how far it got
  opFaults,
  \* history
  logged,    \* requests in the audit log
  approved   \* requests the owner approved

opVars == <<project, req, opFaults, logged, approved>>

Requests == 1 .. MaxRequests
NoProject == [disk |-> "none", pod |-> "off", server |-> 0, startedBy |-> 0, exposedBy |-> 0, changedBy |-> {}]

-----------------------------------------------------------------------------
(* The routes: which operations there are, and which are audited before they are sent *)

ProjectRoutes  == [audited |-> {"stopPod", "deleteWorkspace", "exec"}, free |-> {"list"}]
FileRoutes     == [audited |-> {"importFiles"}, free |-> {"exportFiles"}]
ExplorerRoutes == [audited |-> {"fsWrite", "fsMkdir", "fsDelete"}, free |-> {"fsList", "fsRead"}]
ServerRoutes   == [audited |-> {"startService", "stopService"}, free |-> {"listServices", "serviceLogs"}]
PreviewRoute   == [audited |-> {}, free |-> {"preview"}]
Routes  == {ProjectRoutes, FileRoutes, ExplorerRoutes, ServerRoutes, PreviewRoute}
Audited == UNION {r.audited : r \in Routes}
Free    == UNION {r.free : r \in Routes}
Gated   == {"start", "expose"}

-----------------------------------------------------------------------------
(* What the executor does to project p for request r; it refuses by leaving p alone *)

Running(p) == p.pod = "on"
Change(p, r) == IF Running(p) THEN [p EXCEPT !.changedBy = @ \cup {r}] ELSE p

Start(p, r)  == IF Running(p) THEN p ELSE [p EXCEPT !.disk = "kept", !.pod = "on", !.startedBy = r]
Expose(p, r) == IF Running(p) /\ p.exposedBy = 0 THEN [p EXCEPT !.exposedBy = r] ELSE p
StopPod(p)   == [p EXCEPT !.pod = "off", !.server = 0, !.startedBy = 0, !.exposedBy = 0]

DeleteWorkspace(p) == NoProject
ImportFiles(p, r)  == Change(p, r)
ExploreFiles(p, r) == Change(p, r)
Exec(p, r)         == Change(p, r)
StartService(p, r) == IF Running(p) /\ p.server = 0 THEN [p EXCEPT !.server = r] ELSE p
StopService(p)     == [p EXCEPT !.server = 0]

Effect(p, op, r) ==
  CASE op = "start"           -> Start(p, r)
    [] op = "expose"          -> Expose(p, r)
    [] op = "stopPod"         -> StopPod(p)
    [] op = "deleteWorkspace" -> DeleteWorkspace(p)
    [] op = "importFiles"     -> ImportFiles(p, r)
    [] op \in {"fsWrite", "fsMkdir", "fsDelete"} -> ExploreFiles(p, r)
    [] op = "exec"            -> Exec(p, r)
    [] op = "startService"    -> StartService(p, r)
    [] op = "stopService"     -> StopService(p)
    [] op \in Free            -> p

-----------------------------------------------------------------------------
OpFault == opFaults < MaxOpFaults /\ opFaults' = opFaults + 1

\* Requests are numbered in the order they come.
NextRequest(r) == req[r].pc = "free" /\ \A k \in 1 .. r - 1 : req[k].pc # "free"

\* A route takes a request with a valid project id and port; others are refused.
Accept(r, op) ==
  /\ NextRequest(r) /\ op \in Audited \cup Free
  /\ req' = [req EXCEPT ![r] = [op |-> op, pc |-> IF op \in Audited THEN "audit" ELSE "send", saw |-> 0]]
  /\ UNCHANGED <<project, opFaults, logged, approved>>

\* Mutant: a failed audit does not stop the request.
AuditOpLenient(r) ==
  /\ req[r].pc = "audit" /\ req' = [req EXCEPT ![r].pc = "send"]
  /\ \/ logged' = logged \cup {r} /\ UNCHANGED opFaults
     \/ OpFault /\ UNCHANGED logged
  /\ UNCHANGED <<project, approved>>

\* audit: without its row the request ends here.
AuditOp(r) ==
  /\ req[r].pc = "audit"
  /\ \/ /\ logged' = logged \cup {r} /\ req' = [req EXCEPT ![r].pc = "send"] /\ UNCHANGED opFaults
     \/ /\ OpFault /\ req' = [req EXCEPT ![r].pc = "failed"] /\ UNCHANGED logged
  /\ UNCHANGED <<project, approved>>

\* requestStart: refused while the pod runs, otherwise it waits for the owner.
RequestStart(r) ==
  /\ NextRequest(r)
  /\ req' = [req EXCEPT ![r] = [op |-> "start", saw |-> 0, pc |-> IF Running(project) THEN "failed" ELSE "create"]]
  /\ UNCHANGED <<project, opFaults, logged, approved>>

\* requestExpose: refused without a running pod, or with a build already published.
RequestExpose(r) ==
  /\ NextRequest(r)
  /\ req' = [req EXCEPT ![r] = [op |-> "expose", saw |-> 0,
               pc |-> IF ~Running(project) \/ project.exposedBy # 0 THEN "failed" ELSE "create"]]
  /\ UNCHANGED <<project, opFaults, logged, approved>>

\* createPendingApproval, after the await of the check.
CreatePending(r) ==
  /\ req[r].pc = "create" /\ req' = [req EXCEPT ![r].pc = "pending"] /\ logged' = logged \cup {r}
  /\ UNCHANGED <<project, opFaults, approved>>

\* The owner approves, at most once, or rejects or lets it lapse (Approvals).
Decide(r) ==
  /\ req[r].pc = "pending"
  /\ \/ req' = [req EXCEPT ![r].pc = "send"] /\ approved' = approved \cup {r}
     \/ req' = [req EXCEPT ![r].pc = "failed"] /\ UNCHANGED approved
  /\ UNCHANGED <<project, opFaults, logged>>

\* send, for applyStart and applyExpose too: the executor acts, or refuses.
SendOp(r) ==
  /\ req[r].pc = "send"
  /\ project' = Effect(project, req[r].op, r)
  /\ req' = [req EXCEPT ![r].pc = IF req[r].op = "exec" THEN "stream" ELSE "done",
                        ![r].saw = IF req[r].op = "preview" THEN project.server ELSE 0]
  /\ UNCHANGED <<opFaults, logged, approved>>

\* The executor is out of reach, before or after it acted.
SendOpFails(r) ==
  /\ req[r].pc = "send" /\ OpFault
  /\ project' \in {project, Effect(project, req[r].op, r)}
  /\ req' = [req EXCEPT ![r].pc = "failed"]
  /\ UNCHANGED <<logged, approved>>

\* The output of a command: to its end, cut by the executor, or the owner left.
StreamEnds(r) ==
  /\ req[r].pc = "stream"
  /\ \E end \in {"done", "cut", "aborted"} : req' = [req EXCEPT ![r].pc = end]
  /\ UNCHANGED <<project, opFaults, logged, approved>>

\* The pod expires by itself.
PodExpires == Running(project) /\ project' = StopPod(project) /\ UNCHANGED <<req, opFaults, logged, approved>>

-----------------------------------------------------------------------------
OpsInit ==
  /\ project = NoProject /\ req = [r \in Requests |-> [op |-> "list", pc |-> "free", saw |-> 0]]
  /\ opFaults = 0 /\ logged = {} /\ approved = {}

OpsNext ==
  \/ \E r \in Requests : \/ \E op \in Audited \cup Free : Accept(r, op)
                         \/ AuditOp(r) \/ RequestStart(r) \/ RequestExpose(r) \/ CreatePending(r)
                         \/ Decide(r) \/ SendOp(r) \/ SendOpFails(r) \/ StreamEnds(r)
  \/ PodExpires

OpsSpec == OpsInit /\ [][OpsNext]_opVars

-----------------------------------------------------------------------------
\* Types of the project and the requests; a pod runs on a disk.
OpsTypeOK ==
  /\ project.pod = "on" => project.disk = "kept"
  /\ project \in [disk : {"none", "kept"}, pod : {"off", "on"}, server : 0 .. MaxRequests,
                  startedBy : 0 .. MaxRequests, exposedBy : 0 .. MaxRequests, changedBy : SUBSET Requests]
  /\ req \in [Requests -> [op : Audited \cup Free \cup Gated, saw : 0 .. MaxRequests,
                           pc : {"free", "audit", "create", "pending", "send", "stream", "done", "cut", "aborted", "failed"}]]
  /\ opFaults \in 0 .. MaxOpFaults /\ logged \subseteq Requests /\ approved \subseteq Requests

\* Nothing a request did to the project, a file, a command or a server, is missing from
\* the audit log, whether the request succeeded, failed or was cut, and a preview only
\* ever reaches a server whose command is in the log.
NothingUnaudited ==
  /\ project.changedBy \subseteq logged
  /\ project.server # 0 => project.server \in logged
  /\ \A r \in Requests : req[r].saw # 0 => req[r].saw \in logged

\* A pod runs, and a build is public, only by a request the owner approved; and a build
\* is never public without the pod it is served from.
OnlyApprovedIsOpen ==
  /\ project.pod = "on" => project.startedBy \in approved
  /\ project.exposedBy # 0 => project.exposedBy \in approved /\ project.pod = "on"

\* What the operations on a project leave: nothing done that is not in the log, nothing running
\* or public that was not approved.
OpsInv == OpsTypeOK /\ NothingUnaudited /\ OnlyApprovedIsOpen
=============================================================================
