--------------------------- MODULE Terminal_proofs ---------------------------
(***************************************************************************)
(* The owner's terminal, proved for any number of requests, sockets,       *)
(* openings and pieces of output, and any size of the ring: the operations *)
(* on a project (OwnerTerminal), the interactive sessions (PtySessions),   *)
(* then the keyboard (PtyInput), for chunks and lines of any length.       *)
(***************************************************************************)
EXTENDS OwnerTerminal, PtySessions, PtyInput, Integers, SequenceTheorems, WellFoundedInduction, TLAPS

-----------------------------------------------------------------------------
(* OwnerTerminal: the inductive invariant. *)

ProjectType == [disk : {"none", "kept"}, pod : {"off", "on"}, server : 0 .. MaxRequests,
                startedBy : 0 .. MaxRequests, exposedBy : 0 .. MaxRequests, changedBy : SUBSET Requests]
RequestType == [op : Audited \cup Free \cup Gated, saw : 0 .. MaxRequests,
                pc : {"free", "audit", "create", "pending", "send", "stream", "done", "cut", "aborted", "failed"}]

\* What is on the project is in the log, and what runs or is public was approved.
ProjectOK(p, log, appr) ==
  /\ p.pod = "on" => p.disk = "kept" /\ p.startedBy \in appr
  /\ p.changedBy \subseteq log
  /\ p.server # 0 => p.server \in log
  /\ p.exposedBy # 0 => p.exposedBy \in appr /\ p.pod = "on"

\* A request that is about to be sent has passed the audit or the approval its operation needs.
Cleared(q, r, log, appr) ==
  /\ q.pc = "audit" => q.op \in Audited
  /\ q.pc \in {"create", "pending"} => q.op \in Gated
  /\ q.pc = "send" /\ q.op \in Audited => r \in log
  /\ q.pc = "send" /\ q.op \in Gated => r \in appr
  /\ q.saw # 0 => q.saw \in log

OpsSafe ==
  /\ project \in ProjectType /\ ProjectOK(project, logged, approved)
  /\ req \in [Requests -> RequestType] /\ \A r \in Requests : Cleared(req[r], r, logged, approved)
  /\ opFaults \in 0 .. MaxOpFaults /\ logged \subseteq Requests /\ approved \subseteq Requests

-----------------------------------------------------------------------------
(* OwnerTerminal: its operators. *)

\* The routes, by what they need before they are sent.
LEMMA RouteSets ==
  /\ Audited = {"stopPod", "deleteWorkspace", "exec", "importFiles", "fsWrite", "fsMkdir", "fsDelete",
                "startService", "stopService"}
  /\ Free = {"list", "exportFiles", "fsList", "fsRead", "listServices", "serviceLogs", "preview"}
<1>1. ProjectRoutes.audited = {"stopPod", "deleteWorkspace", "exec"} /\ ProjectRoutes.free = {"list"}
  BY DEF ProjectRoutes
<1>2. FileRoutes.audited = {"importFiles"} /\ FileRoutes.free = {"exportFiles"}
  BY DEF FileRoutes
<1>3. ExplorerRoutes.audited = {"fsWrite", "fsMkdir", "fsDelete"} /\ ExplorerRoutes.free = {"fsList", "fsRead"}
  BY DEF ExplorerRoutes
<1>4. ServerRoutes.audited = {"startService", "stopService"} /\ ServerRoutes.free = {"listServices", "serviceLogs"}
  BY DEF ServerRoutes
<1>5. PreviewRoute.audited = {} /\ PreviewRoute.free = {"preview"}
  BY DEF PreviewRoute
<1>6. Audited = ProjectRoutes.audited \cup FileRoutes.audited \cup ExplorerRoutes.audited
                \cup ServerRoutes.audited \cup PreviewRoute.audited
  BY DEF Audited, Routes
<1>7. Free = ProjectRoutes.free \cup FileRoutes.free \cup ExplorerRoutes.free
             \cup ServerRoutes.free \cup PreviewRoute.free
  BY DEF Free, Routes
<1>8. QED  BY <1>1, <1>2, <1>3, <1>4, <1>5, <1>6, <1>7

\* Stopping the pod stops its server and withdraws its build.
LEMMA StopPodOK ==
  ASSUME NEW p \in ProjectType, NEW log, NEW appr, ProjectOK(p, log, appr)
  PROVE  StopPod(p) \in ProjectType /\ ProjectOK(StopPod(p), log, appr)
<1>1. 0 \in 0 .. MaxRequests
  BY RequestsAssumption
<1>2. StopPod(p) \in ProjectType
  BY <1>1 DEF StopPod, ProjectType
<1>3. /\ StopPod(p).pod = "off" /\ StopPod(p).server = 0 /\ StopPod(p).exposedBy = 0
      /\ StopPod(p).changedBy = p.changedBy
  BY <1>1 DEF StopPod, ProjectType
<1>4. QED  BY <1>2, <1>3 DEF ProjectOK

\* What each operation of the executor does, on a project that is as it should be.
LEMMA Effects ==
  ASSUME NEW p \in ProjectType, NEW log, NEW appr, ProjectOK(p, log, appr), NEW r \in Requests,
         NEW op \in Audited \cup Free \cup Gated, op \in Audited => r \in log, op \in Gated => r \in appr
  PROVE  Effect(p, op, r) \in ProjectType /\ ProjectOK(Effect(p, op, r), log, appr)
<1>0. r \in 0 .. MaxRequests /\ r # 0
  BY RequestsAssumption DEF Requests
<1>1. CASE op = "start"
  <2>1. Effect(p, op, r) = Start(p, r) /\ r \in appr
    BY <1>1, RouteSets DEF Effect, Gated
  <2>2. QED  BY <1>0, <2>1 DEF Start, Running, ProjectType, ProjectOK
<1>2. CASE op = "expose"
  <2>1. Effect(p, op, r) = Expose(p, r) /\ r \in appr
    BY <1>2, RouteSets DEF Effect, Gated
  <2>2. QED  BY <1>0, <2>1 DEF Expose, Running, ProjectType, ProjectOK
<1>3. CASE op = "stopPod"
  <2>1. Effect(p, op, r) = StopPod(p)
    BY <1>3, RouteSets DEF Effect
  <2>2. QED  BY <2>1, StopPodOK
<1>4. CASE op = "deleteWorkspace"
  <2>1. Effect(p, op, r) = NoProject
    BY <1>4, RouteSets DEF Effect, DeleteWorkspace
  <2>2. QED  BY <2>1, RequestsAssumption DEF NoProject, ProjectType, ProjectOK
<1>5. CASE op \in {"importFiles", "fsWrite", "fsMkdir", "fsDelete", "exec"}
  <2>1. Effect(p, op, r) = Change(p, r) /\ r \in log
    BY <1>5, RouteSets DEF Effect, ImportFiles, ExploreFiles, Exec
  <2>2. QED  BY <1>0, <2>1 DEF Change, Running, ProjectType, ProjectOK
<1>6. CASE op = "startService"
  <2>1. Effect(p, op, r) = StartService(p, r) /\ r \in log
    BY <1>6, RouteSets DEF Effect
  <2>2. QED  BY <1>0, <2>1 DEF StartService, Running, ProjectType, ProjectOK
<1>7. CASE op = "stopService"
  <2>1. Effect(p, op, r) = StopService(p)
    BY <1>7, RouteSets DEF Effect
  <2>2. QED  BY <2>1, RequestsAssumption DEF StopService, ProjectType, ProjectOK
<1>8. CASE op \in Free
  <2>1. Effect(p, op, r) = p
    BY <1>8, RouteSets DEF Effect
  <2>2. QED  BY <2>1
<1>9. QED  BY <1>1, <1>2, <1>3, <1>4, <1>5, <1>6, <1>7, <1>8, RouteSets DEF Gated

\* Only one request changes, and what is on record only grows.
LEMMA RequestMoves ==
  ASSUME OpsSafe, NEW r \in Requests, NEW q \in RequestType, req' = [req EXCEPT ![r] = q],
         project' \in ProjectType, ProjectOK(project', logged', approved'),
         opFaults' \in 0 .. MaxOpFaults, logged \subseteq logged', logged' \subseteq Requests,
         approved \subseteq approved', approved' \subseteq Requests, Cleared(q, r, logged', approved')
  PROVE  OpsSafe'
<1>1. req \in [Requests -> RequestType] /\ \A s \in Requests : Cleared(req[s], s, logged, approved)
  BY DEF OpsSafe
<1>2. req' \in [Requests -> RequestType] /\ req'[r] = q /\ \A s \in Requests \ {r} : req'[s] = req[s]
  BY <1>1
<1>3. \A s \in Requests \ {r} : Cleared(req[s], s, logged', approved')
  BY <1>1 DEF Cleared
<1>4. \A s \in Requests : Cleared(req'[s], s, logged', approved')
  BY <1>2, <1>3
<1>5. QED  BY <1>2, <1>4 DEF OpsSafe

\* A larger log and more approvals justify what smaller ones did.
LEMMA ProjectGrows ==
  ASSUME NEW p, NEW log, NEW appr, NEW log2, NEW appr2, ProjectOK(p, log, appr),
         log \subseteq log2, appr \subseteq appr2
  PROVE  ProjectOK(p, log2, appr2)
  BY DEF ProjectOK

-----------------------------------------------------------------------------
(* OwnerTerminal: its steps. *)

\* A route takes a request.
LEMMA AcceptStep ==
  ASSUME OpsSafe, NEW r \in Requests, NEW op \in Audited \cup Free, Accept(r, op)
  PROVE  OpsSafe'
<1> DEFINE pcn == IF op \in Audited THEN "audit" ELSE "send"
           q == [op |-> op, pc |-> pcn, saw |-> 0]
<1>1. req' = [req EXCEPT ![r] = q] /\ UNCHANGED <<project, opFaults, logged, approved>>
  BY DEF Accept
<1>2. pcn \in {"audit", "send"} /\ (pcn = "audit" <=> op \in Audited)
  OBVIOUS
<1>3. op \notin Gated
  BY RouteSets DEF Gated
<1> HIDE DEF pcn
<1>4. q \in RequestType
  BY <1>2, RequestsAssumption DEF RequestType
<1>5. Cleared(q, r, logged', approved')
  BY <1>1, <1>2, <1>3 DEF Cleared
<1> HIDE DEF q
<1>6. QED  BY <1>1, <1>4, <1>5, RequestMoves DEF OpsSafe

\* The requests that wait for an approval.
LEMMA RequestStartStep ==
  ASSUME OpsSafe, NEW r \in Requests, RequestStart(r)
  PROVE  OpsSafe'
<1> DEFINE pcn == IF Running(project) THEN "failed" ELSE "create"
           q == [op |-> "start", saw |-> 0, pc |-> pcn]
<1>1. req' = [req EXCEPT ![r] = q] /\ UNCHANGED <<project, opFaults, logged, approved>>
  BY DEF RequestStart
<1>2. pcn \in {"failed", "create"}
  OBVIOUS
<1> HIDE DEF pcn
<1>3. q \in RequestType /\ Cleared(q, r, logged', approved')
  BY <1>2, RequestsAssumption DEF RequestType, Cleared, Gated
<1> HIDE DEF q
<1>4. QED  BY <1>1, <1>3, RequestMoves DEF OpsSafe

\* An expose fails unless the project runs and is not exposed yet.
LEMMA RequestExposeStep ==
  ASSUME OpsSafe, NEW r \in Requests, RequestExpose(r)
  PROVE  OpsSafe'
<1> DEFINE pcn == IF ~Running(project) \/ project.exposedBy # 0 THEN "failed" ELSE "create"
           q == [op |-> "expose", saw |-> 0, pc |-> pcn]
<1>1. req' = [req EXCEPT ![r] = q] /\ UNCHANGED <<project, opFaults, logged, approved>>
  BY DEF RequestExpose
<1>2. pcn \in {"failed", "create"}
  OBVIOUS
<1> HIDE DEF pcn
<1>3. q \in RequestType /\ Cleared(q, r, logged', approved')
  BY <1>2, RequestsAssumption DEF RequestType, Cleared, Gated
<1> HIDE DEF q
<1>4. QED  BY <1>1, <1>3, RequestMoves DEF OpsSafe

\* A request moves on and keeps its operation.
LEMMA PcMoves ==
  ASSUME OpsSafe, NEW r \in Requests,
         NEW to \in {"audit", "create", "pending", "send", "stream", "done", "cut", "aborted", "failed"},
         req' = [req EXCEPT ![r].pc = to]
  PROVE  \E q \in RequestType : /\ req' = [req EXCEPT ![r] = q] /\ q.pc = to
                                /\ q.op = req[r].op /\ q.saw = req[r].saw
<1> DEFINE q == [req[r] EXCEPT !.pc = to]
<1>1. req[r] \in RequestType
  BY DEF OpsSafe
<1>2. q \in RequestType /\ q.pc = to /\ q.op = req[r].op /\ q.saw = req[r].saw
  BY <1>1 DEF RequestType
<1>3. req' = [req EXCEPT ![r] = q]
  BY DEF OpsSafe
<1>4. QED  BY <1>2, <1>3

\* audit: the request goes on with its row, or ends.
LEMMA AuditOpStep ==
  ASSUME OpsSafe, NEW r \in Requests, AuditOp(r)
  PROVE  OpsSafe'
<1>1. UNCHANGED <<project, approved>> /\ req[r].pc = "audit" /\ Cleared(req[r], r, logged, approved)
  BY DEF AuditOp, OpsSafe
<1>2. CASE logged' = logged \cup {r} /\ req' = [req EXCEPT ![r].pc = "send"] /\ UNCHANGED opFaults
  <2>1. PICK q \in RequestType : /\ req' = [req EXCEPT ![r] = q] /\ q.pc = "send"
                                 /\ q.op = req[r].op /\ q.saw = req[r].saw
    BY <1>2, PcMoves
  <2>2. q.op \notin Gated
    BY <1>1, <2>1, RouteSets DEF Cleared, Gated
  <2>3. Cleared(q, r, logged', approved')
    BY <1>1, <1>2, <2>1, <2>2 DEF Cleared
  <2>4. ProjectOK(project', logged', approved')
    BY <1>1, <1>2, ProjectGrows DEF OpsSafe
  <2>5. QED  BY <1>1, <1>2, <2>1, <2>3, <2>4, RequestMoves DEF OpsSafe
<1>3. CASE OpFault /\ req' = [req EXCEPT ![r].pc = "failed"] /\ UNCHANGED logged
  <2>1. PICK q \in RequestType : /\ req' = [req EXCEPT ![r] = q] /\ q.pc = "failed"
                                 /\ q.op = req[r].op /\ q.saw = req[r].saw
    BY <1>3, PcMoves
  <2>2. Cleared(q, r, logged', approved')
    BY <1>1, <1>3, <2>1 DEF Cleared
  <2>3. opFaults' \in 0 .. MaxOpFaults
    BY <1>3, RequestsAssumption DEF OpFault, OpsSafe
  <2>4. QED  BY <1>1, <1>3, <2>1, <2>2, <2>3, RequestMoves DEF OpsSafe
<1>4. QED  BY <1>2, <1>3 DEF AuditOp

\* The approval is created, with its row.
LEMMA CreatePendingStep ==
  ASSUME OpsSafe, NEW r \in Requests, CreatePending(r)
  PROVE  OpsSafe'
<1>1. UNCHANGED <<project, opFaults, approved>> /\ req[r].pc = "create" /\ logged' = logged \cup {r}
      /\ req' = [req EXCEPT ![r].pc = "pending"] /\ Cleared(req[r], r, logged, approved)
  BY DEF CreatePending, OpsSafe
<1>2. PICK q \in RequestType : /\ req' = [req EXCEPT ![r] = q] /\ q.pc = "pending"
                               /\ q.op = req[r].op /\ q.saw = req[r].saw
  BY <1>1, PcMoves
<1>3. Cleared(q, r, logged', approved')
  BY <1>1, <1>2 DEF Cleared
<1>4. ProjectOK(project', logged', approved')
  BY <1>1, ProjectGrows DEF OpsSafe
<1>5. QED  BY <1>1, <1>2, <1>3, <1>4, RequestMoves DEF OpsSafe

\* The owner decides.
LEMMA OwnerDecideStep ==
  ASSUME OpsSafe, NEW r \in Requests, Decide(r)
  PROVE  OpsSafe'
<1>1. UNCHANGED <<project, opFaults, logged>> /\ req[r].pc = "pending" /\ Cleared(req[r], r, logged, approved)
  BY DEF Decide, OpsSafe
<1>2. CASE req' = [req EXCEPT ![r].pc = "send"] /\ approved' = approved \cup {r}
  <2>1. PICK q \in RequestType : /\ req' = [req EXCEPT ![r] = q] /\ q.pc = "send"
                                 /\ q.op = req[r].op /\ q.saw = req[r].saw
    BY <1>2, PcMoves
  <2>2. q.op \notin Audited
    BY <1>1, <2>1, RouteSets DEF Cleared, Gated
  <2>3. Cleared(q, r, logged', approved')
    BY <1>1, <1>2, <2>1, <2>2 DEF Cleared
  <2>4. ProjectOK(project', logged', approved')
    BY <1>1, <1>2, ProjectGrows DEF OpsSafe
  <2>5. QED  BY <1>1, <1>2, <2>1, <2>3, <2>4, RequestMoves DEF OpsSafe
<1>3. CASE req' = [req EXCEPT ![r].pc = "failed"] /\ UNCHANGED approved
  <2>1. PICK q \in RequestType : /\ req' = [req EXCEPT ![r] = q] /\ q.pc = "failed"
                                 /\ q.op = req[r].op /\ q.saw = req[r].saw
    BY <1>3, PcMoves
  <2>2. Cleared(q, r, logged', approved')
    BY <1>1, <1>3, <2>1 DEF Cleared
  <2>3. QED  BY <1>1, <1>3, <2>1, <2>2, RequestMoves DEF OpsSafe
<1>4. QED  BY <1>2, <1>3 DEF Decide

\* The executor acts on a request that was cleared.
LEMMA ClearedEffect ==
  ASSUME OpsSafe, NEW r \in Requests, req[r].pc = "send"
  PROVE  LET p == Effect(project, req[r].op, r)
         IN  p \in ProjectType /\ ProjectOK(p, logged, approved)
<1>1. req[r] \in RequestType /\ Cleared(req[r], r, logged, approved)
  BY DEF OpsSafe
<1>2. PICK op \in Audited \cup Free \cup Gated : op = req[r].op
  BY <1>1 DEF RequestType
<1>3. (op \in Audited => r \in logged) /\ (op \in Gated => r \in approved)
  BY <1>1, <1>2 DEF Cleared
<1>4. Effect(project, op, r) \in ProjectType /\ ProjectOK(Effect(project, op, r), logged, approved)
  BY <1>3, Effects DEF OpsSafe
<1>5. QED  BY <1>2, <1>4

\* send: the executor acts; a preview sees the server that runs.
LEMMA SendOpStep ==
  ASSUME OpsSafe, NEW r \in Requests, SendOp(r)
  PROVE  OpsSafe'
<1> DEFINE to == IF req[r].op = "exec" THEN "stream" ELSE "done"
           sees == IF req[r].op = "preview" THEN project.server ELSE 0
           q == [req[r] EXCEPT !.pc = to, !.saw = sees]
<1>1. req[r].pc = "send" /\ project' = Effect(project, req[r].op, r) /\ UNCHANGED <<opFaults, logged, approved>>
      /\ req' = [req EXCEPT ![r].pc = to, ![r].saw = sees]
  BY DEF SendOp
<1>2. req \in [Requests -> RequestType] /\ req[r] \in RequestType
  BY DEF OpsSafe
<1>3. to \in {"stream", "done"}
  OBVIOUS
<1>4. sees \in 0 .. MaxRequests /\ (sees # 0 => sees \in logged)
  BY RequestsAssumption DEF OpsSafe, ProjectType, ProjectOK
<1> HIDE DEF to, sees
<1>5. req' = [req EXCEPT ![r] = q]
  BY <1>1, <1>2
<1>6. q \in RequestType /\ q.pc = to /\ q.saw = sees
  BY <1>2, <1>3, <1>4 DEF RequestType
<1> HIDE DEF q
<1>7. Cleared(q, r, logged', approved')
  BY <1>1, <1>3, <1>4, <1>6 DEF Cleared
<1>8. project' \in ProjectType /\ ProjectOK(project', logged', approved')
  BY <1>1, ClearedEffect
<1>9. QED  BY <1>1, <1>5, <1>6, <1>7, <1>8, RequestMoves DEF OpsSafe

\* send fails, before or after the executor acted.
LEMMA SendOpFailsStep ==
  ASSUME OpsSafe, NEW r \in Requests, SendOpFails(r)
  PROVE  OpsSafe'
<1>1. req[r].pc = "send" /\ project' \in {project, Effect(project, req[r].op, r)}
      /\ UNCHANGED <<logged, approved>> /\ req' = [req EXCEPT ![r].pc = "failed"] /\ OpFault
      /\ Cleared(req[r], r, logged, approved)
  BY DEF SendOpFails, OpsSafe
<1>2. PICK q \in RequestType : /\ req' = [req EXCEPT ![r] = q] /\ q.pc = "failed"
                               /\ q.op = req[r].op /\ q.saw = req[r].saw
  BY <1>1, PcMoves
<1>3. Cleared(q, r, logged', approved')
  BY <1>1, <1>2 DEF Cleared
<1>4. project' \in ProjectType /\ ProjectOK(project', logged', approved')
  BY <1>1, ClearedEffect DEF OpsSafe
<1>5. opFaults' \in 0 .. MaxOpFaults
  BY <1>1, RequestsAssumption DEF OpFault, OpsSafe
<1>6. QED  BY <1>1, <1>2, <1>3, <1>4, <1>5, RequestMoves DEF OpsSafe

\* The output of a command ends.
LEMMA StreamEndsStep ==
  ASSUME OpsSafe, NEW r \in Requests, StreamEnds(r)
  PROVE  OpsSafe'
<1>1. PICK end : end \in {"done", "cut", "aborted"} /\ req' = [req EXCEPT ![r].pc = end]
  BY DEF StreamEnds
<1>2. UNCHANGED <<project, opFaults, logged, approved>> /\ Cleared(req[r], r, logged, approved)
  BY DEF StreamEnds, OpsSafe
<1>3. PICK q \in RequestType : /\ req' = [req EXCEPT ![r] = q] /\ q.pc = end
                               /\ q.op = req[r].op /\ q.saw = req[r].saw
  <2>1. end \in {"audit", "create", "pending", "send", "stream", "done", "cut", "aborted", "failed"}
    BY <1>1
  <2>2. QED  BY <1>1, <2>1, PcMoves
<1>4. Cleared(q, r, logged', approved')
  BY <1>1, <1>2, <1>3 DEF Cleared
<1>5. QED  BY <1>2, <1>3, <1>4, RequestMoves DEF OpsSafe

\* Every step of the routes, the owner and the executor.
LEMMA OpsStep == OpsSafe /\ [OpsNext]_opVars => OpsSafe'
<1> SUFFICES ASSUME OpsSafe, [OpsNext]_opVars  PROVE OpsSafe'
  OBVIOUS
<1>1. ASSUME NEW r \in Requests,
             \/ \E op \in Audited \cup Free : Accept(r, op)
             \/ AuditOp(r) \/ RequestStart(r) \/ RequestExpose(r) \/ CreatePending(r)
             \/ Decide(r) \/ SendOp(r) \/ SendOpFails(r) \/ StreamEnds(r)
      PROVE  OpsSafe'
  BY <1>1, AcceptStep, AuditOpStep, RequestStartStep, RequestExposeStep, CreatePendingStep,
     OwnerDecideStep, SendOpStep, SendOpFailsStep, StreamEndsStep
<1>2. CASE PodExpires
  <2>1. StopPod(project) \in ProjectType /\ ProjectOK(StopPod(project), logged, approved)
    BY StopPodOK DEF OpsSafe
  <2>2. QED  BY <1>2, <2>1 DEF PodExpires, OpsSafe
<1>3. CASE UNCHANGED opVars
  BY <1>3 DEF opVars, OpsSafe
<1>4. QED  BY <1>1, <1>2, <1>3 DEF OpsNext

\* The inductive invariant of the operations: a request that may still reach the executor carries
\* the audit row or the approval that its operation needs.
THEOREM OpsSafety == OpsSpec => []OpsSafe
<1>1. OpsInit => OpsSafe
  BY RequestsAssumption, RouteSets
     DEF OpsInit, OpsSafe, NoProject, ProjectType, ProjectOK, RequestType, Cleared
<1>2. QED  BY <1>1, OpsStep, PTL DEF OpsSpec

\* OwnerTerminalService: nothing done to a project is missing from the audit log, and nothing runs
\* or is public that the owner did not approve, whatever overlaps and whatever fails.
THEOREM OpsAreAccountable == OpsSpec => []OpsInv
<1>1. OpsSafe => OpsInv
  BY DEF OpsSafe, ProjectType, ProjectOK, RequestType, Cleared, OpsInv, OpsTypeOK, NothingUnaudited,
         OnlyApprovedIsOpen
<1>2. QED  BY <1>1, OpsSafety, PTL

-----------------------------------------------------------------------------
(* PtySessions: the inductive invariant. *)

GotType == UNION {[1 .. n -> 1 .. MaxOut] : n \in 0 .. MaxOut}
SessionType == [st : {"none", "live", "ended", "deleted"}, lis : 0 .. MaxOpens,
                timer : {"off", "on", "fired"}, closing : {0, 1},
                fails : 0 .. PumpRetries, out : 0 .. MaxOut,
                remote : {"none", "running", "gone"}, got : GotType, heard : {"no", "yes"}]
CallType == [by : Sockets \cup {"nobody"}, pc : Waiting \cup {"free", "done", "failed"}, pty : 0 .. MaxOpens]

SesTypes ==
  /\ sock \in [Sockets -> {"new", "on", "gone"}]
  /\ data \in [Sockets -> [pty : 0 .. MaxOpens, lis : 0 .. MaxOpens]]
  /\ call \in [Calls -> CallType]
  /\ byWorkspace \in [kind : {"none", "res", "pty"}, id : 0 .. MaxOpens]
  /\ byWorkspace.kind # "none" => byWorkspace.id \in Calls
  /\ raced \subseteq Calls

\* The last n of the pieces of output up to the piece numbered o.
LastPieces(n, o) == [i \in 1 .. n |-> o - n + i]

\* One session by itself: a deadline when nobody listens, and what its listener was sent is the
\* end of the output, as much of it as the ring holds or more.
SessionOK(s) ==
  /\ s \in SessionType
  /\ s.st = "live" /\ s.lis = 0 => s.timer = "on" \/ s.closing = 1
  /\ s.heard = IF s.st = "ended" /\ s.lis # 0 THEN "yes" ELSE "no"
  /\ \E n \in 0 .. s.out : /\ s.got = LastPieces(n, s.out)
                           /\ s.lis # 0 => n >= s.out \/ n >= RingCap
                           /\ s.lis = 0 => n = 0

SesOK == ses \in [Calls -> SessionType] /\ \A p \in Calls : SessionOK(ses[p])

\* The key of the workspace: a call that waits to open a session holds the reservation, and has no
\* session yet.
KeyInv ==
  /\ OneSession
  /\ \A l \in Calls : /\ call[l].pc \in {"audit", "exec"} => byWorkspace = [kind |-> "res", id |-> l]
                      /\ call[l].pc \in {"free", "audit", "exec"} => ses[l].st = "none"

CloseInv ==
  /\ closeAudits \in [Calls -> {0, 1}]
  /\ \A p \in Calls : ses[p].st \in {"none", "live"} => closeAudits[p] = 0

\* A socket's calls that wait: it is still there unless they are known to have raced; two of them
\* at a time have raced, and so has what the socket remembers while one waits.
WaitsOK(sk, dt, cl, rc) ==
  /\ \A l \in Calls : cl[l].pc \in Waiting =>
       /\ cl[l].by \in Sockets /\ (sk[cl[l].by] = "on" \/ l \in rc)
       /\ dt[cl[l].by].lis = 0 \/ dt[cl[l].by].lis \in rc
  /\ \A l, k \in Calls : cl[l].pc \in Waiting /\ cl[k].pc \in Waiting /\ l # k
                         /\ cl[l].by = cl[k].by => l \in rc

\* The listener of a live session p in state s is a call that resumes it or that its socket remembers.
ListenerOK(p, s, sk, dt, cl, rc) ==
  s.st = "live" /\ s.lis # 0 =>
    /\ cl[s.lis].pc \in {"resize", "done"}
    /\ s.closing = 0 /\ s.lis \notin rc =>
         /\ cl[s.lis].by \in Sockets /\ sk[cl[s.lis].by] = "on"
         /\ \/ cl[s.lis].pc = "resize" /\ cl[s.lis].pty = p
            \/ dt[cl[s.lis].by] = [pty |-> p, lis |-> s.lis]

WaitInv == WaitsOK(sock, data, call, raced)
ListenInv == \A p \in Calls : ListenerOK(p, ses[p], sock, data, call, raced)

SessionsSafe == SesTypes /\ SesOK /\ KeyInv /\ CloseInv /\ WaitInv /\ ListenInv

-----------------------------------------------------------------------------
(* PtySessions: its operators. *)

\* The pieces of output that a listener has.
LEMMA PiecesType ==
  ASSUME NEW o \in 0 .. MaxOut, NEW n \in 0 .. o
  PROVE  LastPieces(n, o) \in GotType
<1>1. o \in Nat /\ n \in Nat /\ n <= o /\ o <= MaxOut /\ n \in 0 .. MaxOut
  BY SessionsAssumption
<1>2. \A i \in 1 .. n : o - n + i \in 1 .. MaxOut
  BY <1>1, SessionsAssumption
<1>3. LastPieces(n, o) \in [1 .. n -> 1 .. MaxOut]
  BY <1>2 DEF LastPieces
<1>4. QED  BY <1>1, <1>3 DEF GotType

\* A listener that has got nothing has the last zero pieces.
LEMMA NoPieces == ASSUME NEW o  PROVE <<>> = LastPieces(0, o)
  BY DEF LastPieces

\* A listener that is given the next piece has the last pieces, one more of them.
LEMMA OnePieceMore ==
  ASSUME NEW o \in Nat, NEW n \in Nat
  PROVE  Append(LastPieces(n, o), o + 1) = LastPieces(n + 1, o + 1)
<1>1. LastPieces(n, o) \in Seq(Int) /\ Len(LastPieces(n, o)) = n
  BY DEF LastPieces
<1>2. \A i \in 1 .. n : o - n + i = (o + 1) - (n + 1) + i
  OBVIOUS
<1>3. o + 1 = (o + 1) - (n + 1) + (n + 1)
  OBVIOUS
<1>4. \A i \in 1 .. n : LastPieces(n, o)[i] = o - n + i
  BY DEF LastPieces
<1>5. Append(LastPieces(n, o), o + 1) = [i \in 1 .. n + 1 |-> IF i = n + 1 THEN o + 1 ELSE LastPieces(n, o)[i]]
  BY <1>1
<1>6. \A i \in 1 .. n + 1 : i = n + 1 \/ i \in 1 .. n
  OBVIOUS
<1>7. QED  BY <1>2, <1>3, <1>4, <1>5, <1>6 DEF LastPieces

\* What the ring buffer replays from a place on is the last pieces up to now.
LEMMA RingPieces ==
  ASSUME NEW o \in Nat, NEW from \in Nat
  PROVE  [i \in 1 .. o - from |-> from + i] = LastPieces(o - from, o)
<1>1. \A i \in 1 .. o - from : from + i = o - (o - from) + i
  OBVIOUS
<1>2. QED  BY <1>1 DEF LastPieces

\* The sessions that exist before they are opened and after they are forgotten.
LEMMA NoSessionOK ==
  /\ SessionOK(NoSession) /\ NoSession.st = "none" /\ NoSession.lis = 0
  /\ SessionOK([NoSession EXCEPT !.st = "deleted"]) /\ [NoSession EXCEPT !.st = "deleted"].st = "deleted"
<1>1. 0 \in 0 .. MaxOpens /\ 0 \in 0 .. PumpRetries /\ 0 \in 0 .. MaxOut /\ 0 \in 0 .. 0
  BY SessionsAssumption
<1>2. <<>> = LastPieces(0, 0) /\ <<>> \in GotType
  BY <1>1, NoPieces, PiecesType
<1>3. NoSession \in SessionType /\ [NoSession EXCEPT !.st = "deleted"] \in SessionType
  BY <1>1, <1>2 DEF NoSession, SessionType
<1>4. QED  BY <1>1, <1>2, <1>3 DEF NoSession, SessionOK

\* A session that has just been opened, with its listener.
LEMMA NewSessionOK ==
  ASSUME NEW l \in Calls
  PROVE  LET s == [NoSession EXCEPT !.st = "live", !.lis = l, !.remote = "running"]
         IN  SessionOK(s) /\ s.st = "live" /\ s.lis = l /\ s.closing = 0
<1> DEFINE s == [NoSession EXCEPT !.st = "live", !.lis = l, !.remote = "running"]
<1>1. 0 \in 0 .. PumpRetries /\ 0 \in 0 .. MaxOut /\ 0 \in 0 .. 0 /\ l \in 0 .. MaxOpens /\ l # 0
  BY SessionsAssumption DEF Calls
<1>2. <<>> = LastPieces(0, 0) /\ <<>> \in GotType
  BY <1>1, NoPieces, PiecesType
<1>3. s.st = "live" /\ s.lis = l /\ s.closing = 0 /\ s.out = 0 /\ s.got = <<>> /\ s.heard = "no"
  BY DEF NoSession
<1>4. s \in SessionType
  BY <1>1, <1>2 DEF SessionType, NoSession
<1> HIDE DEF s
<1>5. SessionOK(s)
  <2>1. 0 >= 0
    OBVIOUS
  <2>2. QED  BY <1>1, <1>2, <1>3, <1>4, <2>1 DEF SessionOK
<1>6. QED  BY <1>3, <1>5 DEF s

\* detach of the listener l of session p: it is the only one that changes, it keeps its state, and
\* when l was its listener it has none and a deadline.
LEMMA Detached ==
  ASSUME SesOK, NEW p \in 0 .. MaxOpens, NEW l \in 0 .. MaxOpens
  PROVE  /\ Detach(ses, p, l) \in [Calls -> SessionType]
         /\ \A q \in Calls : LET s == Detach(ses, p, l)[q] IN
              /\ SessionOK(s) /\ s.st = ses[q].st /\ s.closing = ses[q].closing
              /\ s.lis \in {0, ses[q].lis}
              /\ q = p /\ l # 0 /\ ses[q].st = "live" /\ ses[q].lis = l => s.lis = 0
<1>1. ses \in [Calls -> SessionType] /\ \A q \in Calls : SessionOK(ses[q])
  BY DEF SesOK
<1>2. CASE p = 0 \/ l = 0 \/ ses[p].st \notin {"live", "ended"} \/ ses[p].lis # l
  <2>1. Detach(ses, p, l) = ses
    BY <1>2 DEF Detach
  <2>2. \A q \in Calls : q # 0
    BY DEF Calls
  <2>3. QED  BY <1>1, <1>2, <2>1, <2>2
<1>3. CASE ~(p = 0 \/ l = 0 \/ ses[p].st \notin {"live", "ended"} \/ ses[p].lis # l)
  <2>1. p \in Calls
    BY <1>3, SessionsAssumption DEF Calls
  <2> DEFINE timer == IF ses[p].st = "live" THEN "on" ELSE ses[p].timer
             s == [ses[p] EXCEPT !.lis = 0, !.got = <<>>, !.heard = "no", !.timer = timer]
  <2>2. SessionOK(ses[p]) /\ ses[p] \in SessionType
    BY <1>1, <2>1
  <2>3. timer \in {"off", "on", "fired"} /\ (ses[p].st = "live" => timer = "on")
    BY <2>2 DEF SessionType
  <2>4. Detach(ses, p, l) = [ses EXCEPT ![p].lis = 0, ![p].got = <<>>, ![p].heard = "no", ![p].timer = timer]
    BY <1>3 DEF Detach
  <2> HIDE DEF timer
  <2>5. Detach(ses, p, l) = [ses EXCEPT ![p] = s]
    BY <1>1, <2>1, <2>4
  <2>6. ses[p].out \in 0 .. MaxOut /\ ses[p].out \in Nat /\ 0 \in 0 .. ses[p].out /\ 0 \in 0 .. MaxOpens
    BY <2>2, SessionsAssumption DEF SessionType
  <2>7. <<>> = LastPieces(0, ses[p].out) /\ <<>> \in GotType
    BY <2>6, NoPieces, PiecesType
  <2>8. s \in SessionType /\ s.st = ses[p].st /\ s.closing = ses[p].closing /\ s.lis = 0
        /\ s.timer = timer /\ s.got = <<>> /\ s.heard = "no" /\ s.out = ses[p].out
    BY <2>2, <2>3, <2>6, <2>7 DEF SessionType
  <2> HIDE DEF s
  <2>9. SessionOK(s)
    BY <2>3, <2>6, <2>7, <2>8 DEF SessionOK
  <2>10. QED  BY <1>1, <2>1, <2>5, <2>8, <2>9
<1>4. QED  BY <1>2, <1>3

\* attach of the listener l to the live session p: it gets the ring, and the wait is over.
LEMMA Attached ==
  ASSUME NEW ss \in [Calls -> SessionType], NEW p \in Calls, SessionOK(ss[p]), ss[p].st = "live",
         NEW l \in Calls
  PROVE  \E s : /\ Attach(ss, p, l) = [ss EXCEPT ![p] = s]
                /\ SessionOK(s) /\ s.st = "live" /\ s.lis = l /\ s.closing = ss[p].closing
<1> DEFINE o == ss[p].out
           from == IF o > RingCap THEN o - RingCap ELSE 0
           pieces == [i \in 1 .. o - from |-> from + i]
           s == [ss[p] EXCEPT !.lis = l, !.timer = "off", !.got = pieces]
<1>1. ss[p] \in SessionType /\ l \in 0 .. MaxOpens /\ l # 0
  BY SessionsAssumption DEF Calls
<1>2. o \in 0 .. MaxOut /\ o \in Nat /\ RingCap \in Nat
  BY <1>1, SessionsAssumption DEF SessionType
<1>3. from \in Nat /\ o - from \in 0 .. o /\ (o - from >= o \/ o - from >= RingCap)
  BY <1>2
<1>4. Attach(ss, p, l) = [ss EXCEPT ![p].lis = l, ![p].timer = "off", ![p].got = pieces]
  BY DEF Attach
<1> HIDE DEF from
<1>5. pieces = LastPieces(o - from, o) /\ pieces \in GotType
  BY <1>2, <1>3, RingPieces, PiecesType
<1> HIDE DEF pieces
<1>6. Attach(ss, p, l) = [ss EXCEPT ![p] = s]
  BY <1>4
<1>7. s \in SessionType /\ s.st = ss[p].st /\ s.lis = l /\ s.closing = ss[p].closing
      /\ s.got = pieces /\ s.heard = ss[p].heard /\ s.out = o
  BY <1>1, <1>5 DEF SessionType
<1> HIDE DEF s
<1>8. SessionOK(s)
  BY <1>1, <1>3, <1>5, <1>7 DEF SessionOK
<1>9. QED  BY <1>6, <1>7, <1>8

-----------------------------------------------------------------------------
(* PtySessions: the steps of one session. *)

\* A session moves on in its state, with its listener.
LEMMA SessionMoves ==
  ASSUME SessionsSafe, UNCHANGED <<sock, data, call, byWorkspace, closeAudits, raced>>,
         NEW p \in Calls, NEW s, ses' = [ses EXCEPT ![p] = s], SessionOK(s), s.st = ses[p].st,
         s.lis = ses[p].lis, s.st = "live" /\ s.closing = 0 => ses[p].closing = 0
  PROVE  SessionsSafe'
<1>1. SesTypes'
  BY DEF SessionsSafe, SesTypes
<1>2. s \in SessionType /\ ses \in [Calls -> SessionType] /\ \A q \in Calls : SessionOK(ses[q])
  BY DEF SessionOK, SessionsSafe, SesOK
<1>3. ses' \in [Calls -> SessionType] /\ ses'[p] = s /\ \A q \in Calls \ {p} : ses'[q] = ses[q]
  BY <1>2
<1>4. SesOK'
  BY <1>2, <1>3 DEF SesOK
<1>5. \A q \in Calls : /\ ses'[q].st = ses[q].st /\ ses'[q].lis = ses[q].lis
                       /\ ses'[q].st = "live" /\ ses'[q].closing = 0 => ses[q].closing = 0
  BY <1>3
<1>6. KeyInv'
  BY <1>5 DEF SessionsSafe, KeyInv, OneSession
<1>7. CloseInv'
  BY <1>5 DEF SessionsSafe, CloseInv
<1>8. WaitInv'
  BY DEF SessionsSafe, WaitInv
<1>9. ListenInv'
  BY <1>5 DEF SessionsSafe, ListenInv, ListenerOK
<1>10. QED  BY <1>1, <1>4, <1>6, <1>7, <1>8, <1>9 DEF SessionsSafe

\* A keepalive starts a wait that is over again.
LEMMA SetKeepAliveStep ==
  ASSUME SessionsSafe, NEW c \in Sockets, SetKeepAlive(c)
  PROVE  SessionsSafe'
<1>1. data[c].pty \in 0 .. MaxOpens
  BY DEF SessionsSafe, SesTypes
<1>2. PICK p \in Calls : p = data[c].pty
  BY <1>1, SessionsAssumption DEF SetKeepAlive, Calls
<1> DEFINE s == [ses[p] EXCEPT !.timer = "on"]
<1>3. ses \in [Calls -> SessionType] /\ ses[p] \in SessionType /\ SessionOK(ses[p])
  BY DEF SessionsSafe, SesOK
<1>4. ses' = [ses EXCEPT ![p] = s]
  BY <1>2, <1>3 DEF SetKeepAlive
<1>5. s \in SessionType /\ s.st = ses[p].st /\ s.lis = ses[p].lis /\ s.closing = ses[p].closing
      /\ s.got = ses[p].got /\ s.heard = ses[p].heard /\ s.out = ses[p].out /\ s.timer = "on"
  BY <1>3 DEF SessionType
<1> HIDE DEF s
<1>6. SessionOK(s)
  BY <1>3, <1>5 DEF SessionOK
<1>7. QED  BY <1>4, <1>5, <1>6, SessionMoves DEF SetKeepAlive

\* The deadline passes: the session is being closed.
LEMMA DetachTimerStep ==
  ASSUME SessionsSafe, NEW p \in Calls, DetachTimer(p)
  PROVE  SessionsSafe'
<1> DEFINE s == [ses[p] EXCEPT !.timer = "fired", !.closing = 1]
<1>1. ses \in [Calls -> SessionType] /\ ses[p] \in SessionType /\ SessionOK(ses[p])
  BY DEF SessionsSafe, SesOK
<1>2. ses' = [ses EXCEPT ![p] = s]
  BY <1>1 DEF DetachTimer
<1>3. s \in SessionType /\ s.st = ses[p].st /\ s.lis = ses[p].lis /\ s.closing = 1
      /\ s.got = ses[p].got /\ s.heard = ses[p].heard /\ s.out = ses[p].out
  BY <1>1 DEF SessionType
<1> HIDE DEF s
<1>4. SessionOK(s)
  BY <1>1, <1>3 DEF SessionOK
<1>5. s.closing # 0
  BY <1>3
<1>6. QED  BY <1>2, <1>3, <1>4, <1>5, SessionMoves DEF DetachTimer

\* The pod goes with its PTYs; the stream breaks and is read again.
LEMMA RemoteLostStep ==
  ASSUME SessionsSafe, NEW p \in Calls, RemoteLost(p)
  PROVE  SessionsSafe'
<1> DEFINE s == [ses[p] EXCEPT !.remote = "gone"]
<1>1. ses \in [Calls -> SessionType] /\ ses[p] \in SessionType /\ SessionOK(ses[p])
  BY DEF SessionsSafe, SesOK
<1>2. ses' = [ses EXCEPT ![p] = s]
  BY <1>1 DEF RemoteLost
<1>3. s \in SessionType /\ s.st = ses[p].st /\ s.lis = ses[p].lis /\ s.closing = ses[p].closing
      /\ s.got = ses[p].got /\ s.heard = ses[p].heard /\ s.out = ses[p].out /\ s.timer = ses[p].timer
  BY <1>1 DEF SessionType
<1> HIDE DEF s
<1>4. SessionOK(s)
  BY <1>1, <1>3 DEF SessionOK
<1>5. QED  BY <1>2, <1>3, <1>4, SessionMoves DEF RemoteLost

\* The pump reads again after a failed read, as often as PumpRetries allows.
LEMMA PumpRetryStep ==
  ASSUME SessionsSafe, NEW p \in Calls, PumpRetry(p)
  PROVE  SessionsSafe'
<1> DEFINE s == [ses[p] EXCEPT !.fails = ses[p].fails + 1]
<1>1. ses \in [Calls -> SessionType] /\ ses[p] \in SessionType /\ SessionOK(ses[p])
  BY DEF SessionsSafe, SesOK
<1>2. ses' = [ses EXCEPT ![p] = s]
  BY <1>1 DEF PumpRetry
<1>3. ses[p].fails + 1 \in 0 .. PumpRetries
  BY <1>1, SessionsAssumption DEF PumpRetry, SessionType
<1>4. s \in SessionType /\ s.st = ses[p].st /\ s.lis = ses[p].lis /\ s.closing = ses[p].closing
      /\ s.got = ses[p].got /\ s.heard = ses[p].heard /\ s.out = ses[p].out /\ s.timer = ses[p].timer
  BY <1>1, <1>3 DEF SessionType
<1> HIDE DEF s
<1>5. SessionOK(s)
  BY <1>1, <1>4 DEF SessionOK
<1>6. QED  BY <1>2, <1>4, <1>5, SessionMoves DEF PumpRetry

\* A piece of output: the listener has it next, or the wait starts again.
LEMMA OutputStep ==
  ASSUME SessionsSafe, NEW p \in Calls, Output(p)
  PROVE  SessionsSafe'
<1> DEFINE o == ses[p].out
           got == IF ses[p].lis = 0 THEN ses[p].got ELSE Append(ses[p].got, o + 1)
           timer == IF ses[p].lis = 0 /\ ses[p].timer # "off" THEN "on" ELSE ses[p].timer
           s == [ses[p] EXCEPT !.out = o + 1, !.fails = 0, !.got = got, !.timer = timer]
<1>1. ses \in [Calls -> SessionType] /\ ses[p] \in SessionType /\ SessionOK(ses[p])
  BY DEF SessionsSafe, SesOK
<1>2. ses' = [ses EXCEPT ![p].out = o + 1, ![p].fails = 0, ![p].got = got, ![p].timer = timer]
  BY <1>1 DEF Output
<1>3. o \in Nat /\ o + 1 \in 0 .. MaxOut /\ 0 \in 0 .. PumpRetries /\ ses[p].st = "live" /\ RingCap \in Nat
  BY <1>1, SessionsAssumption DEF Output, SessionType
<1>4. timer \in {"off", "on", "fired"} /\ (ses[p].lis = 0 /\ ses[p].timer = "on" => timer = "on")
  BY <1>1 DEF SessionType
<1>5. PICK n \in 0 .. o : /\ ses[p].got = LastPieces(n, o)
                          /\ ses[p].lis # 0 => n >= o \/ n >= RingCap
                          /\ ses[p].lis = 0 => n = 0
  BY <1>1 DEF SessionOK
<1>6. PICK m \in 0 .. o + 1 : /\ got = LastPieces(m, o + 1)
                              /\ ses[p].lis # 0 => m >= o + 1 \/ m >= RingCap
                              /\ ses[p].lis = 0 => m = 0
  <2>1. CASE ses[p].lis = 0
    <3>1. got = LastPieces(0, o) /\ 0 \in 0 .. o + 1
      BY <1>3, <1>5, <2>1
    <3>2. got = LastPieces(0, o + 1)
      BY <3>1, NoPieces
    <3>3. QED  BY <2>1, <3>1, <3>2
  <2>2. CASE ses[p].lis # 0
    <3>1. n \in Nat /\ n + 1 \in 0 .. o + 1 /\ (n + 1 >= o + 1 \/ n + 1 >= RingCap)
      BY <1>3, <1>5, <2>2
    <3>2. got = LastPieces(n + 1, o + 1)
      BY <1>3, <1>5, <2>2, <3>1, OnePieceMore
    <3>3. QED  BY <2>2, <3>1, <3>2
  <2>3. QED  BY <2>1, <2>2
<1>7. got \in GotType
  BY <1>3, <1>6, PiecesType
<1> HIDE DEF got, timer
<1>8. ses' = [ses EXCEPT ![p] = s]
  BY <1>1, <1>2
<1>9. s \in SessionType /\ s.st = ses[p].st /\ s.lis = ses[p].lis /\ s.closing = ses[p].closing
      /\ s.got = got /\ s.heard = ses[p].heard /\ s.out = o + 1 /\ s.timer = timer
  BY <1>1, <1>3, <1>4, <1>7 DEF SessionType
<1> HIDE DEF s
<1>10. SessionOK(s)
  BY <1>1, <1>3, <1>4, <1>6, <1>9 DEF SessionOK
<1>11. QED  BY <1>8, <1>9, <1>10, SessionMoves DEF Output

\* An ended session is forgotten.
LEMMA LingerStep ==
  ASSUME SessionsSafe, NEW p \in Calls, Linger(p)
  PROVE  SessionsSafe'
<1> DEFINE s == [NoSession EXCEPT !.st = "deleted"]
<1>1. ses \in [Calls -> SessionType] /\ \A q \in Calls : SessionOK(ses[q])
  BY DEF SessionsSafe, SesOK
<1>2. ses' = [ses EXCEPT ![p] = s] /\ ses[p].st = "ended"
      /\ UNCHANGED <<sock, data, call, byWorkspace, closeAudits, raced>>
  BY DEF Linger
<1>3. SessionOK(s) /\ s \in SessionType /\ s.st = "deleted"
  BY NoSessionOK DEF SessionOK
<1> HIDE DEF s
<1>4. ses' \in [Calls -> SessionType] /\ ses'[p] = s /\ \A q \in Calls \ {p} : ses'[q] = ses[q]
  BY <1>1, <1>2, <1>3
<1>5. SesTypes'
  BY <1>2 DEF SessionsSafe, SesTypes
<1>6. SesOK'
  BY <1>1, <1>3, <1>4 DEF SesOK
<1>7. KeyInv'
  BY <1>2, <1>3, <1>4 DEF SessionsSafe, KeyInv, OneSession
<1>8. CloseInv'
  BY <1>2, <1>3, <1>4 DEF SessionsSafe, CloseInv
<1>9. WaitInv'
  BY <1>2 DEF SessionsSafe, WaitInv
<1>10. ListenInv'
  BY <1>2, <1>3, <1>4 DEF SessionsSafe, ListenInv, ListenerOK
<1>11. QED  BY <1>5, <1>6, <1>7, <1>8, <1>9, <1>10 DEF SessionsSafe

\* finish: a live session ends, frees its key and is audited once; on another it does nothing.
LEMMA FinishStep ==
  ASSUME SessionsSafe, NEW p \in Calls, NEW k \in {0, 1}, Finish(p, k), UNCHANGED <<sock, data, call, raced>>
  PROVE  SessionsSafe'
<1>1. ses \in [Calls -> SessionType] /\ ses[p] \in SessionType /\ \A q \in Calls : SessionOK(ses[q])
  BY DEF SessionsSafe, SesOK
<1>2. CASE ses[p].st # "live"
  <2> DEFINE s == [ses[p] EXCEPT !.closing = k]
  <2>1. ses' = [ses EXCEPT ![p] = s] /\ UNCHANGED <<byWorkspace, closeAudits>>
    BY <1>1, <1>2 DEF Finish
  <2>2. s \in SessionType /\ s.st = ses[p].st /\ s.lis = ses[p].lis /\ s.st # "live"
        /\ s.got = ses[p].got /\ s.heard = ses[p].heard /\ s.out = ses[p].out
    BY <1>1, <1>2 DEF SessionType
  <2> HIDE DEF s
  <2>3. SessionOK(s)
    BY <1>1, <2>2 DEF SessionOK
  <2>4. QED  BY <2>1, <2>2, <2>3, SessionMoves
<1>3. CASE ses[p].st = "live"
  <2> DEFINE heard == IF ses[p].lis = 0 THEN "no" ELSE "yes"
             s == [ses[p] EXCEPT !.st = "ended", !.timer = "off", !.closing = k, !.fails = 0,
                                 !.remote = "none", !.heard = heard]
  <2>1. ses' = [ses EXCEPT ![p].st = "ended", ![p].timer = "off", ![p].closing = k, ![p].fails = 0,
                           ![p].remote = "none", ![p].heard = heard]
    BY <1>3 DEF Finish
  <2>2. heard \in {"no", "yes"} /\ (heard = "yes" <=> ses[p].lis # 0) /\ 0 \in 0 .. PumpRetries
    BY SessionsAssumption
  <2> HIDE DEF heard
  <2>3. ses' = [ses EXCEPT ![p] = s]
    BY <1>1, <2>1
  <2>4. s \in SessionType /\ s.st = "ended" /\ s.lis = ses[p].lis
        /\ s.got = ses[p].got /\ s.heard = heard /\ s.out = ses[p].out
    BY <1>1, <2>2 DEF SessionType
  <2> HIDE DEF s
  <2>5. SessionOK(s)
    BY <1>1, <2>2, <2>4 DEF SessionOK
  <2>6. ses' \in [Calls -> SessionType] /\ ses'[p] = s /\ \A q \in Calls \ {p} : ses'[q] = ses[q]
    BY <1>1, <2>3, <2>4
  <2>7. byWorkspace = [kind |-> "pty", id |-> p] /\ byWorkspace' = NoKey /\ closeAudits[p] = 0
    BY <1>3 DEF Finish, SessionsSafe, KeyInv, OneSession, CloseInv
  <2>8. SesTypes'
    BY <2>7, SessionsAssumption DEF SessionsSafe, SesTypes, NoKey
  <2>9. SesOK'
    BY <1>1, <2>5, <2>6 DEF SesOK
  <2>10. \A q \in Calls \ {p} : ses[q].st # "live"
    BY <2>7 DEF SessionsSafe, KeyInv, OneSession
  <2>11. KeyInv'
    <3>1. OneSession'
      BY <2>4, <2>6, <2>10 DEF OneSession
    <3>2. \A l \in Calls : call[l].pc \notin {"audit", "exec"}
      BY <2>7 DEF SessionsSafe, KeyInv
    <3>3. ses[p].st # "none"
      BY <1>3
    <3>4. QED  BY <2>4, <2>6, <3>1, <3>2, <3>3 DEF SessionsSafe, KeyInv
  <2>12. CloseInv'
    <3>1. closeAudits \in [Calls -> {0, 1}] /\ \A q \in Calls : ses[q].st \in {"none", "live"} => closeAudits[q] = 0
      BY DEF SessionsSafe, CloseInv
    <3>2. closeAudits' = closeAudits \/ closeAudits' = [closeAudits EXCEPT ![p] = 1]
      BY <1>3, <2>7, <3>1 DEF Finish
    <3>3. closeAudits' \in [Calls -> {0, 1}] /\ \A q \in Calls \ {p} : closeAudits'[q] = closeAudits[q]
      BY <3>1, <3>2
    <3>4. QED  BY <2>4, <2>6, <3>1, <3>3 DEF CloseInv
  <2>13. WaitInv'
    BY DEF SessionsSafe, WaitInv
  <2>14. ListenInv'
    BY <2>4, <2>6 DEF SessionsSafe, ListenInv, ListenerOK
  <2>15. QED  BY <2>8, <2>9, <2>11, <2>12, <2>13, <2>14 DEF SessionsSafe
<1>4. QED  BY <1>2, <1>3

-----------------------------------------------------------------------------
(* PtySessions: the sockets and their calls. *)

\* A socket connects.
LEMMA HandleConnectionStep ==
  ASSUME SessionsSafe, NEW c \in Sockets, HandleConnection(c)
  PROVE  SessionsSafe'
<1>1. sock' = [sock EXCEPT ![c] = "on"] /\ UNCHANGED <<data, call, byWorkspace, ses, closeAudits, raced>>
  BY DEF HandleConnection
<1>2. sock' \in [Sockets -> {"new", "on", "gone"}] /\ \A d \in Sockets : sock[d] = "on" => sock'[d] = "on"
  BY <1>1 DEF SessionsSafe, SesTypes
<1>3. SesTypes'
  BY <1>1, <1>2 DEF SessionsSafe, SesTypes
<1>4. SesOK' /\ KeyInv' /\ CloseInv'
  BY <1>1 DEF SessionsSafe, SesOK, KeyInv, OneSession, CloseInv
<1>5. WaitInv'
  BY <1>1, <1>2 DEF SessionsSafe, WaitInv, WaitsOK
<1>6. ListenInv'
  BY <1>1, <1>2 DEF SessionsSafe, ListenInv, ListenerOK
<1>7. QED  BY <1>3, <1>4, <1>5, <1>6 DEF SessionsSafe

\* The states of the sessions stay, as do the key and the calls that hold it.
LEMMA StatesSame ==
  ASSUME SessionsSafe, UNCHANGED <<byWorkspace, closeAudits>>,
         \A q \in Calls : ses'[q].st = ses[q].st,
         \A k \in Calls : call'[k].pc \in {"free", "audit", "exec"} => call[k].pc = call'[k].pc
  PROVE  KeyInv' /\ CloseInv'
<1>1. OneSession'
  BY DEF SessionsSafe, KeyInv, OneSession
<1>2. \A l \in Calls : /\ call'[l].pc \in {"audit", "exec"} => byWorkspace' = [kind |-> "res", id |-> l]
                       /\ call'[l].pc \in {"free", "audit", "exec"} => ses'[l].st = "none"
  BY DEF SessionsSafe, KeyInv
<1>3. CloseInv'
  BY DEF SessionsSafe, CloseInv
<1>4. QED  BY <1>1, <1>2, <1>3 DEF KeyInv

\* A listener is a call.
LEMMA ListenerIsCall ==
  ASSUME SesOK, NEW q \in Calls, ses[q].lis # 0
  PROVE  ses[q].lis \in Calls
<1>1. ses[q].lis \in 0 .. MaxOpens
  BY DEF SesOK, SessionType
<1>2. QED  BY <1>1, SessionsAssumption DEF Calls

\* A socket goes: the session it remembers starts its wait alone, and its calls that wait have raced.
LEMMA HandleDisconnectStep ==
  ASSUME SessionsSafe, NEW c \in Sockets, HandleDisconnect(c)
  PROVE  SessionsSafe'
<1>1. /\ sock[c] = "on" /\ sock' = [sock EXCEPT ![c] = "gone"]
      /\ ses' = Detach(ses, data[c].pty, data[c].lis) /\ raced' = raced \cup Open(c)
      /\ UNCHANGED <<data, call, byWorkspace, closeAudits>>
  BY DEF HandleDisconnect
<1>2. PICK p, l \in 0 .. MaxOpens : p = data[c].pty /\ l = data[c].lis
  BY DEF SessionsSafe, SesTypes
<1>3. SesOK /\ data[c] = [pty |-> p, lis |-> l]
  BY <1>2 DEF SessionsSafe, SesTypes
<1>4. /\ ses' \in [Calls -> SessionType]
      /\ \A q \in Calls : /\ SessionOK(ses'[q]) /\ ses'[q].st = ses[q].st /\ ses'[q].closing = ses[q].closing
                          /\ ses'[q].lis \in {0, ses[q].lis}
                          /\ q = p /\ l # 0 /\ ses[q].st = "live" /\ ses[q].lis = l => ses'[q].lis = 0
  BY <1>1, <1>2, <1>3, Detached
<1>5. Open(c) \subseteq Calls
  BY DEF Open
<1>6. SesTypes'
  BY <1>1, <1>5 DEF SessionsSafe, SesTypes
<1>7. SesOK'
  BY <1>4 DEF SesOK
<1>8. KeyInv' /\ CloseInv'
  BY <1>1, <1>4, StatesSame
<1>9. \A d \in Sockets \ {c} : sock'[d] = sock[d]
  BY <1>1 DEF SessionsSafe, SesTypes
<1>10. WaitInv'
  <2>1. WaitsOK(sock, data, call, raced)
    BY DEF SessionsSafe, WaitInv
  <2>2. \A k \in Calls : call[k].pc \in Waiting /\ call[k].by = c => k \in raced'
    BY <1>1 DEF Open
  <2>3. WaitsOK(sock', data, call, raced')
    BY <1>1, <1>9, <2>1, <2>2 DEF WaitsOK
  <2>4. QED  BY <1>1, <2>3 DEF WaitInv
<1>11. ListenInv'
  <2> SUFFICES ASSUME NEW q \in Calls  PROVE ListenerOK(q, ses'[q], sock', data', call', raced')
    BY DEF ListenInv
  <2> SUFFICES ASSUME ses'[q].st = "live", ses'[q].lis # 0
               PROVE  ListenerOK(q, ses'[q], sock', data', call', raced')
    BY DEF ListenerOK
  <2>1. PICK m \in Calls : m = ses[q].lis /\ m = ses'[q].lis /\ m # 0
    BY <1>3, <1>4, ListenerIsCall
  <2>2. ListenerOK(q, ses[q], sock, data, call, raced)
    BY DEF SessionsSafe, ListenInv
  <2>3. call'[m].pc \in {"resize", "done"}
    BY <1>1, <1>4, <2>1, <2>2 DEF ListenerOK
  <2>4. ASSUME ses'[q].closing = 0, m \notin raced'
        PROVE  /\ call[m].by \in Sockets /\ sock[call[m].by] = "on" /\ call[m].by # c
               /\ (call[m].pc = "resize" /\ call[m].pty = q) \/ data[call[m].by] = [pty |-> q, lis |-> m]
    <3>1. m \notin raced /\ m \notin Open(c)
      BY <1>1, <2>4
    <3>2. call[m].pc = "resize" => call[m].by # c
      BY <3>1 DEF Open, Waiting
    <3>3. /\ call[m].by \in Sockets /\ sock[call[m].by] = "on"
          /\ (call[m].pc = "resize" /\ call[m].pty = q) \/ data[call[m].by] = [pty |-> q, lis |-> m]
      BY <1>4, <2>1, <2>2, <2>4, <3>1 DEF ListenerOK
    <3>4. ~(q = p /\ m = l)
      BY <1>4, <2>1
    <3>5. call[m].by = c => data[c] # [pty |-> q, lis |-> m]
      BY <1>3, <3>4
    <3>6. QED  BY <3>2, <3>3, <3>5
  <2>5. QED  BY <1>1, <1>9, <2>1, <2>3, <2>4 DEF ListenerOK
<1>12. QED  BY <1>6, <1>7, <1>8, <1>10, <1>11 DEF SessionsSafe

\* The app closes its session: the socket forgets it, and a live one is being closed.
LEMMA ClosePtyStep ==
  ASSUME SessionsSafe, NEW c \in Sockets, ClosePty(c)
  PROVE  SessionsSafe'
<1>1. /\ data' = [data EXCEPT ![c].pty = 0] /\ data[c].pty # 0
      /\ ses' = (IF ses[data[c].pty].st # "live" THEN ses ELSE [ses EXCEPT ![data[c].pty].closing = 1])
      /\ UNCHANGED <<sock, call, byWorkspace, closeAudits, raced>>
  BY DEF ClosePty
<1>2. data[c] \in [pty : 0 .. MaxOpens, lis : 0 .. MaxOpens] /\ 0 \in 0 .. MaxOpens
  BY SessionsAssumption DEF SessionsSafe, SesTypes
<1>3. PICK p \in Calls : p = data[c].pty
  BY <1>1, <1>2, SessionsAssumption DEF Calls
<1>4. /\ data' \in [Sockets -> [pty : 0 .. MaxOpens, lis : 0 .. MaxOpens]]
      /\ \A d \in Sockets : data'[d].lis = data[d].lis
      /\ \A d \in Sockets \ {c} : data'[d] = data[d]
  BY <1>1, <1>2 DEF SessionsSafe, SesTypes
<1>5. ses \in [Calls -> SessionType] /\ \A q \in Calls : SessionOK(ses[q])
  BY DEF SessionsSafe, SesOK
<1>6. /\ ses' \in [Calls -> SessionType]
      /\ \A q \in Calls \ {p} : ses'[q] = ses[q]
      /\ SessionOK(ses'[p]) /\ ses'[p].st = ses[p].st /\ ses'[p].lis = ses[p].lis
      /\ ses[p].st = "live" => ses'[p].closing # 0
  <2>1. CASE ses[p].st # "live"
    BY <1>1, <1>3, <1>5, <2>1
  <2>2. CASE ses[p].st = "live"
    <3> DEFINE s == [ses[p] EXCEPT !.closing = 1]
    <3>1. ses' = [ses EXCEPT ![p] = s]
      BY <1>1, <1>3, <1>5, <2>2
    <3>2. s \in SessionType /\ s.st = ses[p].st /\ s.lis = ses[p].lis /\ s.closing = 1
          /\ s.got = ses[p].got /\ s.heard = ses[p].heard /\ s.out = ses[p].out
      BY <1>5 DEF SessionType
    <3> HIDE DEF s
    <3>3. SessionOK(s)
      BY <1>5, <3>2 DEF SessionOK
    <3>4. s.closing # 0
      BY <3>2
    <3>5. QED  BY <1>5, <3>1, <3>2, <3>3, <3>4
  <2>3. QED  BY <2>1, <2>2
<1>7. SesTypes'
  BY <1>1, <1>4 DEF SessionsSafe, SesTypes
<1>8. SesOK'
  BY <1>5, <1>6 DEF SesOK
<1>9. KeyInv' /\ CloseInv'
  BY <1>1, <1>6, StatesSame
<1>10. WaitInv'
  BY <1>1, <1>4 DEF SessionsSafe, WaitInv, WaitsOK
<1>11. ListenInv'
  <2> SUFFICES ASSUME NEW q \in Calls  PROVE ListenerOK(q, ses'[q], sock', data', call', raced')
    BY DEF ListenInv
  <2>1. ListenerOK(q, ses[q], sock, data, call, raced)
    BY DEF SessionsSafe, ListenInv
  <2>2. CASE q = p
    BY <1>1, <1>6, <2>1, <2>2 DEF ListenerOK
  <2>3. CASE q # p
    <3>1. ses'[q] = ses[q] /\ data[c] # [pty |-> q, lis |-> ses[q].lis]
      BY <1>3, <1>6, <2>3
    <3>2. \A d \in Sockets : data[d] = [pty |-> q, lis |-> ses[q].lis] => data'[d] = data[d]
      BY <1>4, <3>1
    <3>3. ListenerOK(q, ses[q], sock, data', call, raced)
      BY <2>1, <3>2 DEF ListenerOK
    <3>4. QED  BY <1>1, <3>1, <3>3
  <2>4. QED  BY <2>2, <2>3
<1>12. QED  BY <1>7, <1>8, <1>9, <1>10, <1>11 DEF SessionsSafe

\* What pty:open leaves when it has let go: D are the sessions, w is the state of the call.
HasLetGo(c, l, w, D) ==
  /\ D \in [Calls -> SessionType]
  /\ \A q \in Calls : /\ SessionOK(D[q]) /\ D[q].st = ses[q].st
                      /\ ListenerOK(q, D[q], sock', data', call', raced')
  /\ call' \in [Calls -> CallType] /\ call'[l] = w /\ call[l].pc = "free" /\ sock[c] = "on"
  /\ \A k \in Calls \ {l} : call'[k] = call[k]
  /\ data' \in [Sockets -> [pty : 0 .. MaxOpens, lis : 0 .. MaxOpens]]
  /\ raced' \subseteq Calls /\ WaitInv'

\* pty:open lets go of what its socket had: the session starts its wait alone, and the calls of the
\* socket that still wait have raced, this one too.
LEMMA LetGoEffect ==
  ASSUME SessionsSafe, NEW c \in Sockets, NEW l \in Calls, LetGo(c, l), sock' = sock,
         NEW w \in CallType, call' = [call EXCEPT ![l] = w], w.pc \in Waiting => w.by = c,
         NEW D, D = Detach(ses, data[c].pty, data[c].lis)
  PROVE  HasLetGo(c, l, w, D)
<1>1. /\ sock[c] = "on" /\ call[l].pc = "free" /\ data' = [data EXCEPT ![c] = [pty |-> 0, lis |-> 0]]
      /\ raced' = IF Open(c) = {} THEN raced ELSE raced \cup Open(c) \cup {l}
  BY DEF LetGo
<1>2. PICK p, m \in 0 .. MaxOpens : p = data[c].pty /\ m = data[c].lis
  BY DEF SessionsSafe, SesTypes
<1>3. SesOK /\ data[c] = [pty |-> p, lis |-> m] /\ 0 \in 0 .. MaxOpens
  BY <1>2, SessionsAssumption DEF SessionsSafe, SesTypes
<1>4. /\ D \in [Calls -> SessionType]
      /\ \A q \in Calls : /\ SessionOK(D[q]) /\ D[q].st = ses[q].st /\ D[q].closing = ses[q].closing
                          /\ D[q].lis \in {0, ses[q].lis}
                          /\ q = p /\ m # 0 /\ ses[q].st = "live" /\ ses[q].lis = m => D[q].lis = 0
  BY <1>2, <1>3, Detached
<1>5. call \in [Calls -> CallType] /\ data \in [Sockets -> [pty : 0 .. MaxOpens, lis : 0 .. MaxOpens]]
      /\ raced \subseteq Calls
  BY DEF SessionsSafe, SesTypes
<1>6. call' \in [Calls -> CallType] /\ call'[l] = w /\ \A k \in Calls \ {l} : call'[k] = call[k]
  BY <1>5
<1>7. /\ data' \in [Sockets -> [pty : 0 .. MaxOpens, lis : 0 .. MaxOpens]]
      /\ data'[c].lis = 0 /\ \A d \in Sockets \ {c} : data'[d] = data[d]
  BY <1>1, <1>3, <1>5
<1>8. raced' \subseteq Calls /\ raced \subseteq raced' /\ Open(c) \subseteq raced'
      /\ (Open(c) # {} => l \in raced')
  BY <1>1, <1>5 DEF Open
<1>9. \A k \in Calls : call[k].pc \in Waiting /\ call[k].by = c => k \in Open(c)
  BY DEF Open
<1>10. WaitInv'
  <2>1. WaitsOK(sock, data, call, raced)
    BY DEF SessionsSafe, WaitInv
  <2>2. "free" \notin Waiting
    BY DEF Waiting
  <2>3. ASSUME NEW k \in Calls, call'[k].pc \in Waiting
        PROVE  /\ call'[k].by \in Sockets /\ (sock'[call'[k].by] = "on" \/ k \in raced')
               /\ data'[call'[k].by].lis = 0 \/ data'[call'[k].by].lis \in raced'
    <3>1. CASE k = l
      BY <1>1, <1>6, <1>7, <2>3, <3>1
    <3>2. CASE k # l
      BY <1>6, <1>7, <1>8, <2>1, <2>3, <3>2 DEF WaitsOK
    <3>3. QED  BY <3>1, <3>2
  <2>4. ASSUME NEW k \in Calls, NEW j \in Calls, call'[k].pc \in Waiting, call'[j].pc \in Waiting,
               k # j, call'[k].by = call'[j].by
        PROVE  k \in raced'
    <3>1. CASE k = l
      BY <1>6, <1>8, <1>9, <2>4, <3>1
    <3>2. CASE j = l
      BY <1>6, <1>8, <1>9, <2>4, <3>2
    <3>3. CASE k # l /\ j # l
      BY <1>6, <1>8, <2>1, <2>4, <3>3 DEF WaitsOK
    <3>4. QED  BY <3>1, <3>2, <3>3
  <2>5. QED  BY <2>3, <2>4 DEF WaitInv, WaitsOK
<1>11. ASSUME NEW q \in Calls
       PROVE  ListenerOK(q, D[q], sock', data', call', raced')
  <2> SUFFICES ASSUME D[q].st = "live", D[q].lis # 0
               PROVE  ListenerOK(q, D[q], sock', data', call', raced')
    BY DEF ListenerOK
  <2>1. PICK k \in Calls : k = ses[q].lis /\ k = D[q].lis /\ k # 0
    BY <1>3, <1>4, ListenerIsCall
  <2>2. ListenerOK(q, ses[q], sock, data, call, raced) /\ ses[q].st = "live"
    BY <1>4 DEF SessionsSafe, ListenInv
  <2>3. call[k].pc \in {"resize", "done"} /\ k # l /\ call'[k] = call[k]
    BY <1>1, <1>6, <2>1, <2>2 DEF ListenerOK
  <2>4. ASSUME D[q].closing = 0, k \notin raced'
        PROVE  /\ call[k].by \in Sockets /\ sock[call[k].by] = "on" /\ call[k].by # c
               /\ (call[k].pc = "resize" /\ call[k].pty = q) \/ data[call[k].by] = [pty |-> q, lis |-> k]
    <3>1. k \notin raced /\ k \notin Open(c)
      BY <1>8, <2>4
    <3>2. call[k].pc = "resize" => call[k].by # c
      BY <1>9, <3>1 DEF Waiting
    <3>3. /\ call[k].by \in Sockets /\ sock[call[k].by] = "on"
          /\ (call[k].pc = "resize" /\ call[k].pty = q) \/ data[call[k].by] = [pty |-> q, lis |-> k]
      BY <1>4, <2>1, <2>2, <2>4, <3>1 DEF ListenerOK
    <3>4. ~(q = p /\ k = m)
      BY <1>4, <2>1, <2>2
    <3>5. call[k].by = c => data[c] # [pty |-> q, lis |-> k]
      BY <1>3, <3>4
    <3>6. QED  BY <3>2, <3>3, <3>5
  <2>5. QED  BY <1>7, <2>1, <2>3, <2>4 DEF ListenerOK
<1>12. QED  BY <1>1, <1>4, <1>6, <1>7, <1>8, <1>10, <1>11 DEF HasLetGo

\* A pty:open that is refused.
LEMMA RefuseOpenStep ==
  ASSUME SessionsSafe, NEW c \in Sockets, NEW l \in Calls, RefuseOpen(c, l)
  PROVE  SessionsSafe'
<1>1. /\ LetGo(c, l) /\ ses' = Detach(ses, data[c].pty, data[c].lis) /\ call' = [call EXCEPT ![l] = Failed]
      /\ UNCHANGED <<sock, byWorkspace, closeAudits>>
  BY DEF RefuseOpen
<1>2. Failed \in CallType /\ Failed.pc = "failed" /\ Failed.pc \notin Waiting
  BY SessionsAssumption DEF Failed, NoCall, CallType, Waiting
<1>3. /\ ses' \in [Calls -> SessionType]
      /\ \A q \in Calls : /\ SessionOK(ses'[q]) /\ ses'[q].st = ses[q].st
                          /\ ListenerOK(q, ses'[q], sock', data', call', raced')
      /\ call' \in [Calls -> CallType] /\ call'[l] = Failed /\ call[l].pc = "free"
      /\ \A k \in Calls \ {l} : call'[k] = call[k]
      /\ data' \in [Sockets -> [pty : 0 .. MaxOpens, lis : 0 .. MaxOpens]]
      /\ raced' \subseteq Calls /\ WaitInv'
  <2>1. HasLetGo(c, l, Failed, ses')
    BY <1>1, <1>2, LetGoEffect
  <2>2. QED  BY <2>1 DEF HasLetGo
<1>4. SesTypes'
  BY <1>1, <1>3 DEF SessionsSafe, SesTypes
<1>5. SesOK'
  BY <1>3 DEF SesOK
<1>6. KeyInv' /\ CloseInv'
  BY <1>1, <1>2, <1>3, StatesSame
<1>7. QED  BY <1>3, <1>4, <1>5, <1>6 DEF SessionsSafe, ListenInv

\* A pty:open that resumes the live session: its listener is attached before it waits.
LEMMA ResumePtyStep ==
  ASSUME SessionsSafe, NEW c \in Sockets, NEW l \in Calls, ResumePty(c, l)
  PROVE  SessionsSafe'
<1>1. PICK e : e = Existing
  OBVIOUS
<1>2. PICK D : D = Detach(ses, data[c].pty, data[c].lis)
  OBVIOUS
<1>3. e \in Calls /\ ses[e].st = "live"
  BY <1>1 DEF ResumePty, Existing, SessionsSafe, SesTypes
<1> DEFINE w == [by |-> c, pc |-> "resize", pty |-> e]
<1>4. /\ LetGo(c, l) /\ ses' = Attach(D, e, l) /\ call' = [call EXCEPT ![l] = w]
      /\ UNCHANGED <<sock, byWorkspace, closeAudits>>
  BY <1>1, <1>2 DEF ResumePty, Waits
<1>5. e \in 0 .. MaxOpens /\ l # 0
  BY <1>3, SessionsAssumption DEF Calls
<1>6. w \in CallType /\ w.pc = "resize" /\ w.by = c /\ w.pty = e
  BY <1>5 DEF CallType, Waiting
<1> HIDE DEF w
<1>7. /\ D \in [Calls -> SessionType]
      /\ \A q \in Calls : /\ SessionOK(D[q]) /\ D[q].st = ses[q].st
                          /\ ListenerOK(q, D[q], sock', data', call', raced')
      /\ call' \in [Calls -> CallType] /\ call'[l] = w /\ call[l].pc = "free" /\ sock[c] = "on"
      /\ \A k \in Calls \ {l} : call'[k] = call[k]
      /\ data' \in [Sockets -> [pty : 0 .. MaxOpens, lis : 0 .. MaxOpens]]
      /\ raced' \subseteq Calls /\ WaitInv'
  <2>1. HasLetGo(c, l, w, D)
    BY <1>2, <1>4, <1>6, LetGoEffect
  <2>2. QED  BY <2>1 DEF HasLetGo
<1>8. PICK s : /\ Attach(D, e, l) = [D EXCEPT ![e] = s]
               /\ SessionOK(s) /\ s.st = "live" /\ s.lis = l /\ s.closing = D[e].closing
  BY <1>3, <1>7, Attached
<1>9. s \in SessionType
  BY <1>8 DEF SessionOK
<1>10. ses' \in [Calls -> SessionType] /\ ses'[e] = s /\ \A q \in Calls \ {e} : ses'[q] = D[q]
  BY <1>3, <1>4, <1>7, <1>8, <1>9
<1>11. SesTypes'
  BY <1>4, <1>7 DEF SessionsSafe, SesTypes
<1>12. SesOK'
  BY <1>7, <1>8, <1>10 DEF SesOK
<1>13. \A q \in Calls : ses'[q].st = ses[q].st
  BY <1>3, <1>7, <1>8, <1>10
<1>14. KeyInv' /\ CloseInv'
  BY <1>4, <1>6, <1>7, <1>13, StatesSame
<1>15. ListenerOK(e, s, sock', data', call', raced')
  BY <1>4, <1>5, <1>6, <1>7, <1>8 DEF ListenerOK
<1>16. ListenInv'
  BY <1>7, <1>10, <1>15 DEF ListenInv
<1>17. QED  BY <1>7, <1>11, <1>12, <1>14, <1>16 DEF SessionsSafe

\* A pty:open that finds no session reserves the workspace.
LEMMA ReserveOpenStep ==
  ASSUME SessionsSafe, NEW c \in Sockets, NEW l \in Calls, ReserveOpen(c, l)
  PROVE  SessionsSafe'
<1> DEFINE w == [by |-> c, pc |-> "audit", pty |-> 0]
<1>1. /\ LetGo(c, l) /\ ses' = Detach(ses, data[c].pty, data[c].lis) /\ call' = [call EXCEPT ![l] = w]
      /\ byWorkspace' = [kind |-> "res", id |-> l] /\ Existing = 0 /\ ~BeingOpened
      /\ UNCHANGED <<sock, closeAudits>>
  BY DEF ReserveOpen, Waits
<1>2. w \in CallType /\ w.pc = "audit" /\ w.by = c /\ l \in 0 .. MaxOpens
  BY SessionsAssumption DEF CallType, Waiting, Calls
<1> HIDE DEF w
<1>3. /\ ses' \in [Calls -> SessionType]
      /\ \A q \in Calls : /\ SessionOK(ses'[q]) /\ ses'[q].st = ses[q].st
                          /\ ListenerOK(q, ses'[q], sock', data', call', raced')
      /\ call' \in [Calls -> CallType] /\ call'[l] = w /\ call[l].pc = "free"
      /\ \A k \in Calls \ {l} : call'[k] = call[k]
      /\ data' \in [Sockets -> [pty : 0 .. MaxOpens, lis : 0 .. MaxOpens]]
      /\ raced' \subseteq Calls /\ WaitInv'
  <2>1. HasLetGo(c, l, w, ses')
    BY <1>1, <1>2, LetGoEffect
  <2>2. QED  BY <2>1 DEF HasLetGo
<1>4. SesTypes'
  BY <1>1, <1>2, <1>3 DEF SessionsSafe, SesTypes
<1>5. SesOK'
  BY <1>3 DEF SesOK
<1>6. \A q \in Calls : ses[q].st # "live"
  <2> SUFFICES ASSUME NEW q \in Calls, ses[q].st = "live"  PROVE FALSE
    OBVIOUS
  <2>1. byWorkspace = [kind |-> "pty", id |-> q] /\ q # 0
    BY DEF SessionsSafe, KeyInv, OneSession, Calls
  <2>2. Existing = q
    BY <2>1 DEF Existing
  <2>3. QED  BY <1>1, <2>1, <2>2
<1>7. \A k \in Calls : call[k].pc \notin {"audit", "exec"}
  BY <1>1 DEF BeingOpened, SessionsSafe, KeyInv
<1>8. KeyInv'
  <2>1. OneSession'
    BY <1>3, <1>6 DEF OneSession
  <2>2. \A k \in Calls : call'[k].pc \in {"audit", "exec"} => byWorkspace' = [kind |-> "res", id |-> k]
    BY <1>1, <1>3, <1>7
  <2>3. \A k \in Calls : call'[k].pc \in {"free", "audit", "exec"} => ses'[k].st = "none"
    BY <1>3 DEF SessionsSafe, KeyInv
  <2>4. QED  BY <2>1, <2>2, <2>3 DEF KeyInv
<1>9. CloseInv'
  BY <1>1, <1>3 DEF SessionsSafe, CloseInv
<1>10. QED  BY <1>3, <1>4, <1>5, <1>8, <1>9 DEF SessionsSafe, ListenInv

\* A call that waits is answered: its socket remembers the session, whatever else it had asked for.
LEMMA Answered ==
  ASSUME SessionsSafe, NEW l \in Calls, call[l].pc \in Waiting, NEW p \in 0 .. MaxOpens, Opened(l, p),
         sock' = sock, raced' = raced
  PROVE  /\ call' \in [Calls -> CallType] /\ call'[l].pc = "done" /\ call'[l].by = call[l].by
         /\ \A k \in Calls \ {l} : call'[k] = call[k]
         /\ data' \in [Sockets -> [pty : 0 .. MaxOpens, lis : 0 .. MaxOpens]]
         /\ data'[call[l].by] = [pty |-> p, lis |-> l] /\ call[l].by \in Sockets
         /\ \A d \in Sockets \ {call[l].by} : data'[d] = data[d]
         /\ WaitInv'
<1>1. PICK c : c = call[l].by
  OBVIOUS
<1>2. /\ call' = [call EXCEPT ![l].pc = "done", ![l].pty = p]
      /\ data' = [data EXCEPT ![c] = [pty |-> p, lis |-> l]]
  BY <1>1 DEF Opened
<1>3. WaitsOK(sock, data, call, raced)
  BY DEF SessionsSafe, WaitInv
<1>4. c \in Sockets /\ l \in 0 .. MaxOpens
  BY <1>1, <1>3, SessionsAssumption DEF WaitsOK, Calls
<1>5. call \in [Calls -> CallType] /\ call[l] \in CallType
      /\ data \in [Sockets -> [pty : 0 .. MaxOpens, lis : 0 .. MaxOpens]]
  BY DEF SessionsSafe, SesTypes
<1> DEFINE w == [call[l] EXCEPT !.pc = "done", !.pty = p]
<1>6. call' = [call EXCEPT ![l] = w]
  BY <1>2, <1>5
<1>7. w \in CallType /\ w.pc = "done" /\ w.by = c
  BY <1>1, <1>4, <1>5 DEF CallType
<1> HIDE DEF w
<1>8. call' \in [Calls -> CallType] /\ call'[l] = w /\ \A k \in Calls \ {l} : call'[k] = call[k]
  BY <1>5, <1>6, <1>7
<1>9. /\ data' \in [Sockets -> [pty : 0 .. MaxOpens, lis : 0 .. MaxOpens]]
      /\ data'[c] = [pty |-> p, lis |-> l] /\ data'[c].lis = l /\ \A d \in Sockets \ {c} : data'[d] = data[d]
  BY <1>2, <1>4, <1>5
<1>10. "done" \notin Waiting
  BY DEF Waiting
<1>11. WaitInv'
  <2>1. ASSUME NEW k \in Calls, call'[k].pc \in Waiting
        PROVE  /\ call'[k].by \in Sockets /\ (sock'[call'[k].by] = "on" \/ k \in raced')
               /\ data'[call'[k].by].lis = 0 \/ data'[call'[k].by].lis \in raced'
    <3>1. k # l /\ call'[k] = call[k]
      BY <1>7, <1>8, <1>10, <2>1
    <3>2. call[k].by = c => l \in raced
      BY <1>1, <1>3, <2>1, <3>1 DEF WaitsOK
    <3>3. QED  BY <1>3, <1>9, <2>1, <3>1, <3>2 DEF WaitsOK
  <2>2. ASSUME NEW k \in Calls, NEW j \in Calls, call'[k].pc \in Waiting, call'[j].pc \in Waiting,
               k # j, call'[k].by = call'[j].by
        PROVE  k \in raced'
    <3>1. k # l /\ call'[k] = call[k] /\ j # l /\ call'[j] = call[j]
      BY <1>7, <1>8, <1>10, <2>2
    <3>2. QED  BY <1>3, <2>2, <3>1 DEF WaitsOK
  <2>3. QED  BY <2>1, <2>2 DEF WaitInv, WaitsOK
<1>12. QED  BY <1>1, <1>4, <1>7, <1>8, <1>9, <1>11

\* The answer of a resumption.
LEMMA ResizeDoneStep ==
  ASSUME SessionsSafe, NEW l \in Calls, ResizeDone(l)
  PROVE  SessionsSafe'
<1>1. /\ call[l].pc = "resize" /\ Opened(l, call[l].pty)
      /\ UNCHANGED <<sock, byWorkspace, ses, closeAudits, raced>>
  BY DEF ResizeDone
<1>2. PICK p : p = call[l].pty
  OBVIOUS
<1>3. p \in 0 .. MaxOpens
  BY <1>2 DEF SessionsSafe, SesTypes, CallType
<1>4. PICK c \in Sockets : c = call[l].by
  BY <1>1 DEF SessionsSafe, WaitInv, WaitsOK, Waiting
<1>5. /\ call' \in [Calls -> CallType] /\ call'[l].pc = "done" /\ call'[l].by = c
      /\ \A k \in Calls \ {l} : call'[k] = call[k]
      /\ data' \in [Sockets -> [pty : 0 .. MaxOpens, lis : 0 .. MaxOpens]]
      /\ data'[c] = [pty |-> p, lis |-> l] /\ \A d \in Sockets \ {c} : data'[d] = data[d]
      /\ WaitInv'
  BY <1>1, <1>2, <1>3, <1>4, Answered DEF Waiting
<1>6. SesTypes' /\ SesOK' /\ KeyInv' /\ CloseInv'
  <2>1. SesTypes'
    BY <1>1, <1>5 DEF SessionsSafe, SesTypes
  <2>2. SesOK'
    BY <1>1 DEF SessionsSafe, SesOK
  <2>3. \A k \in Calls : call'[k].pc \in {"free", "audit", "exec"} => call[k].pc = call'[k].pc
    BY <1>5
  <2>4. KeyInv' /\ CloseInv'
    BY <1>1, <2>3, StatesSame
  <2>5. QED  BY <2>1, <2>2, <2>4
<1>7. ListenInv'
  <2> SUFFICES ASSUME NEW q \in Calls, ses[q].st = "live", ses[q].lis # 0
               PROVE  ListenerOK(q, ses[q], sock, data', call', raced)
    BY <1>1 DEF ListenInv, ListenerOK
  <2>1. PICK m \in Calls : m = ses[q].lis /\ m # 0
    BY ListenerIsCall DEF SessionsSafe
  <2>2. ListenerOK(q, ses[q], sock, data, call, raced)
    BY DEF SessionsSafe, ListenInv
  <2>3. WaitsOK(sock, data, call, raced) /\ "resize" \in Waiting
    BY DEF SessionsSafe, WaitInv, Waiting
  <2>4. CASE m = l
    <3>1. data[c].lis = l => l \in raced
      BY <1>1, <1>4, <2>1, <2>3, <2>4 DEF WaitsOK
    <3>2. ses[q].closing = 0 /\ l \notin raced => p = q /\ sock[c] = "on"
      BY <1>1, <1>2, <1>4, <2>1, <2>2, <2>4, <3>1 DEF ListenerOK
    <3>3. QED  BY <1>5, <2>1, <2>4, <3>2 DEF ListenerOK
  <2>5. CASE m # l
    <3>1. call'[m] = call[m]
      BY <1>5, <2>5
    <3>2. ASSUME m \notin raced, call[m].by = c
          PROVE  call[m].pc # "resize" /\ data[c].lis # m
      BY <1>1, <1>4, <2>1, <2>3, <2>5, <3>2 DEF WaitsOK
    <3>3. ASSUME ses[q].closing = 0, m \notin raced
          PROVE  /\ call[m].by \in Sockets /\ sock[call[m].by] = "on" /\ call[m].by # c
                 /\ (call[m].pc = "resize" /\ call[m].pty = q) \/ data[call[m].by] = [pty |-> q, lis |-> m]
      <4>1. /\ call[m].by \in Sockets /\ sock[call[m].by] = "on"
            /\ (call[m].pc = "resize" /\ call[m].pty = q) \/ data[call[m].by] = [pty |-> q, lis |-> m]
        BY <2>1, <2>2, <3>3 DEF ListenerOK
      <4>2. QED  BY <3>2, <3>3, <4>1
    <3>4. QED  BY <1>5, <2>1, <2>2, <3>1, <3>3 DEF ListenerOK
  <2>6. QED  BY <2>4, <2>5
<1>8. QED  BY <1>5, <1>6, <1>7 DEF SessionsSafe

\* A call that waits moves on without an answer: to the executor, or to its failure.
LEMMA WaitMoves ==
  ASSUME SessionsSafe, NEW l \in Calls, call[l].pc \in {"audit", "exec"}, NEW w \in CallType,
         call' = [call EXCEPT ![l] = w], w.pc \in Waiting => w.by = call[l].by,
         w.pc \in {"exec", "failed"}, UNCHANGED <<sock, data, ses, closeAudits, raced>>
  PROVE  /\ call' \in [Calls -> CallType] /\ call'[l] = w /\ \A k \in Calls \ {l} : call'[k] = call[k]
         /\ SesOK' /\ CloseInv' /\ WaitInv' /\ ListenInv'
<1>1. call \in [Calls -> CallType]
  BY DEF SessionsSafe, SesTypes
<1>2. call' \in [Calls -> CallType] /\ call'[l] = w /\ \A k \in Calls \ {l} : call'[k] = call[k]
  BY <1>1
<1>3. SesOK' /\ CloseInv'
  BY DEF SessionsSafe, SesOK, CloseInv
<1>4. \A k \in Calls : call'[k].pc \in Waiting => call[k].pc \in Waiting /\ call'[k].by = call[k].by
  BY <1>2 DEF Waiting
<1>5. WaitInv'
  BY <1>4 DEF SessionsSafe, WaitInv, WaitsOK
<1>6. ListenInv'
  <2> SUFFICES ASSUME NEW q \in Calls, ses[q].st = "live", ses[q].lis # 0
               PROVE  ListenerOK(q, ses[q], sock, data, call', raced)
    BY DEF ListenInv, ListenerOK
  <2>1. PICK m \in Calls : m = ses[q].lis
    BY ListenerIsCall DEF SessionsSafe
  <2>2. ListenerOK(q, ses[q], sock, data, call, raced)
    BY DEF SessionsSafe, ListenInv
  <2>3. m # l
    BY <2>1, <2>2 DEF ListenerOK
  <2>4. QED  BY <1>2, <2>1, <2>2, <2>3 DEF ListenerOK
<1>7. QED  BY <1>2, <1>3, <1>5, <1>6

\* The opening is audited.
LEMMA AuditOpenStep ==
  ASSUME SessionsSafe, NEW l \in Calls, AuditOpen(l)
  PROVE  SessionsSafe'
<1> DEFINE w == [call[l] EXCEPT !.pc = "exec"]
<1>1. call \in [Calls -> CallType] /\ call[l] \in CallType
  BY DEF SessionsSafe, SesTypes
<1>2. call' = [call EXCEPT ![l] = w] /\ call[l].pc = "audit"
      /\ UNCHANGED <<sock, data, byWorkspace, ses, closeAudits, raced>>
  BY <1>1 DEF AuditOpen
<1>3. w \in CallType /\ w.pc = "exec" /\ w.by = call[l].by
  BY <1>1 DEF CallType, Waiting
<1> HIDE DEF w
<1>4. /\ call' \in [Calls -> CallType] /\ call'[l] = w /\ \A k \in Calls \ {l} : call'[k] = call[k]
      /\ SesOK' /\ CloseInv' /\ WaitInv' /\ ListenInv'
  BY <1>2, <1>3, WaitMoves
<1>5. SesTypes'
  BY <1>2, <1>4 DEF SessionsSafe, SesTypes
<1>6. KeyInv'
  BY <1>2, <1>3, <1>4 DEF SessionsSafe, KeyInv, OneSession
<1>7. QED  BY <1>4, <1>5, <1>6 DEF SessionsSafe

\* The opening fails: the reservation goes.
LEMMA OpenFailsStep ==
  ASSUME SessionsSafe, NEW l \in Calls, OpenFails(l)
  PROVE  SessionsSafe'
<1>1. call' = [call EXCEPT ![l] = Failed] /\ call[l].pc \in {"audit", "exec"}
      /\ byWorkspace' = (IF byWorkspace = [kind |-> "res", id |-> l] THEN NoKey ELSE byWorkspace)
      /\ UNCHANGED <<sock, data, ses, closeAudits, raced>>
  BY DEF OpenFails
<1>2. Failed \in CallType /\ Failed.pc = "failed" /\ Failed.pc \notin Waiting
  BY SessionsAssumption DEF Failed, NoCall, CallType, Waiting
<1>3. /\ call' \in [Calls -> CallType] /\ call'[l] = Failed /\ \A k \in Calls \ {l} : call'[k] = call[k]
      /\ SesOK' /\ CloseInv' /\ WaitInv' /\ ListenInv'
  BY <1>1, <1>2, WaitMoves
<1>4. byWorkspace = [kind |-> "res", id |-> l] /\ byWorkspace' = NoKey
  BY <1>1 DEF SessionsSafe, KeyInv
<1>5. SesTypes'
  BY <1>1, <1>3, <1>4, SessionsAssumption DEF SessionsSafe, SesTypes, NoKey
<1>6. \A q \in Calls : ses[q].st # "live"
  BY <1>4 DEF SessionsSafe, KeyInv, OneSession
<1>7. \A k \in Calls \ {l} : call[k].pc \notin {"audit", "exec"}
  BY <1>4 DEF SessionsSafe, KeyInv
<1>8. KeyInv'
  BY <1>1, <1>2, <1>3, <1>6, <1>7 DEF SessionsSafe, KeyInv, OneSession
<1>9. QED  BY <1>3, <1>5, <1>8 DEF SessionsSafe

\* The executor opened a PTY: the session is the only live one, and its socket remembers it.
LEMMA SessionOpenedStep ==
  ASSUME SessionsSafe, NEW l \in Calls, SessionOpened(l)
  PROVE  SessionsSafe'
<1> DEFINE s == [NoSession EXCEPT !.st = "live", !.lis = l, !.remote = "running"]
<1>1. /\ call[l].pc = "exec" /\ ses' = [ses EXCEPT ![l] = s] /\ byWorkspace' = [kind |-> "pty", id |-> l]
      /\ Opened(l, l) /\ UNCHANGED <<sock, closeAudits, raced>>
  BY DEF SessionOpened
<1>2. SessionOK(s) /\ s.st = "live" /\ s.lis = l /\ s.closing = 0 /\ s \in SessionType
  BY NewSessionOK DEF SessionOK
<1> HIDE DEF s
<1>3. l \in 0 .. MaxOpens /\ l # 0
  BY SessionsAssumption DEF Calls
<1>4. PICK c \in Sockets : c = call[l].by /\ (sock[c] = "on" \/ l \in raced)
  BY <1>1 DEF SessionsSafe, WaitInv, WaitsOK, Waiting
<1>5. /\ call' \in [Calls -> CallType] /\ call'[l].pc = "done" /\ call'[l].by = c
      /\ \A k \in Calls \ {l} : call'[k] = call[k]
      /\ data' \in [Sockets -> [pty : 0 .. MaxOpens, lis : 0 .. MaxOpens]]
      /\ data'[c] = [pty |-> l, lis |-> l] /\ \A d \in Sockets \ {c} : data'[d] = data[d]
      /\ WaitInv'
  BY <1>1, <1>3, <1>4, Answered DEF Waiting
<1>6. ses \in [Calls -> SessionType] /\ \A q \in Calls : SessionOK(ses[q])
  BY DEF SessionsSafe, SesOK
<1>7. ses' \in [Calls -> SessionType] /\ ses'[l] = s /\ \A q \in Calls \ {l} : ses'[q] = ses[q]
  BY <1>1, <1>2, <1>6
<1>8. byWorkspace = [kind |-> "res", id |-> l] /\ ses[l].st = "none"
  BY <1>1 DEF SessionsSafe, KeyInv
<1>9. (\A q \in Calls : ses[q].st # "live") /\ \A k \in Calls \ {l} : call[k].pc \notin {"audit", "exec"}
  BY <1>8 DEF SessionsSafe, KeyInv, OneSession
<1>10. SesTypes'
  BY <1>1, <1>3, <1>5 DEF SessionsSafe, SesTypes
<1>11. SesOK'
  BY <1>2, <1>6, <1>7 DEF SesOK
<1>12. KeyInv'
  BY <1>1, <1>5, <1>7, <1>9 DEF SessionsSafe, KeyInv, OneSession
<1>13. CloseInv'
  BY <1>1, <1>7, <1>8 DEF SessionsSafe, CloseInv
<1>14. ListenInv'
  <2>1. ListenerOK(l, ses'[l], sock', data', call', raced')
    BY <1>1, <1>2, <1>4, <1>5, <1>7 DEF ListenerOK
  <2>2. \A q \in Calls \ {l} : ListenerOK(q, ses'[q], sock', data', call', raced')
    BY <1>7, <1>9 DEF ListenerOK
  <2>3. QED  BY <2>1, <2>2 DEF ListenInv
<1>15. QED  BY <1>5, <1>10, <1>11, <1>12, <1>13, <1>14 DEF SessionsSafe

\* The process restarts: no session, no call and no key is left.
LEMMA SessionsRestartStep ==
  ASSUME SessionsSafe, SessionsRestart
  PROVE  SessionsSafe'
<1>1. call \in [Calls -> CallType] /\ ses \in [Calls -> SessionType] /\ \A q \in Calls : SessionOK(ses[q])
  BY DEF SessionsSafe, SesTypes, SesOK
<1>2. /\ Failed \in CallType /\ Failed.pc = "failed" /\ Failed.pc \notin Waiting
      /\ NoCall \in CallType /\ NoCall.pc = "free" /\ NoCall.pc \notin Waiting
  BY SessionsAssumption DEF Failed, NoCall, CallType, Waiting
<1>3. /\ call' \in [Calls -> CallType] /\ \A l \in Calls : call'[l].pc \in {"free", "failed"}
      /\ \A l \in Calls : call'[l].pc = "free" => call[l].pc = "free"
  BY <1>2 DEF SessionsRestart
<1> DEFINE s == [NoSession EXCEPT !.st = "deleted"]
<1>4. SessionOK(s) /\ s.st = "deleted" /\ s \in SessionType
  BY NoSessionOK DEF SessionOK
<1>5. ses' = [p \in Calls |-> IF ses[p].st = "none" THEN ses[p] ELSE s]
  BY DEF SessionsRestart
<1> HIDE DEF s
<1>6. /\ ses' \in [Calls -> SessionType]
      /\ \A p \in Calls : SessionOK(ses'[p]) /\ ses'[p].st # "live" /\ (ses[p].st = "none" => ses'[p].st = "none")
  BY <1>1, <1>4, <1>5
<1>7. /\ sock' \in [Sockets -> {"new", "on", "gone"}]
      /\ data' \in [Sockets -> [pty : 0 .. MaxOpens, lis : 0 .. MaxOpens]]
  BY SessionsAssumption DEF SessionsRestart, SessionsSafe, SesTypes
<1>8. SesTypes'
  BY <1>3, <1>7, SessionsAssumption DEF SessionsRestart, SesTypes, NoKey
<1>9. SesOK'
  BY <1>6 DEF SesOK
<1>10. KeyInv'
  BY <1>3, <1>6 DEF SessionsSafe, KeyInv, OneSession
<1>11. CloseInv'
  BY DEF SessionsRestart, CloseInv
<1>12. WaitInv'
  BY <1>3 DEF WaitInv, WaitsOK, Waiting
<1>13. ListenInv'
  BY <1>6 DEF ListenInv, ListenerOK
<1>14. QED  BY <1>8, <1>9, <1>10, <1>11, <1>12, <1>13 DEF SessionsSafe

\* No socket, no call, no session.
LEMMA SessionsStart == SessionsInit => SessionsSafe
<1> SUFFICES ASSUME SessionsInit  PROVE SessionsSafe
  OBVIOUS
<1>1. NoCall \in CallType /\ NoCall.pc = "free" /\ NoCall.pc \notin Waiting
  BY SessionsAssumption DEF NoCall, CallType, Waiting
<1>2. call \in [Calls -> CallType] /\ \A l \in Calls : call[l].pc = "free" /\ call[l].pc \notin Waiting
  BY <1>1 DEF SessionsInit
<1>3. NoSession \in SessionType /\ SessionOK(NoSession) /\ NoSession.st = "none"
  BY NoSessionOK DEF SessionOK
<1>4. ses \in [Calls -> SessionType] /\ \A p \in Calls : SessionOK(ses[p]) /\ ses[p].st = "none"
  BY <1>3 DEF SessionsInit
<1>5. SesTypes
  BY <1>2, SessionsAssumption DEF SessionsInit, SesTypes, NoKey
<1>6. SesOK /\ KeyInv /\ CloseInv
  BY <1>2, <1>4 DEF SessionsInit, SesOK, KeyInv, OneSession, CloseInv
<1>7. WaitInv /\ ListenInv
  BY <1>2, <1>4 DEF WaitInv, WaitsOK, ListenInv, ListenerOK
<1>8. QED  BY <1>5, <1>6, <1>7 DEF SessionsSafe

\* Every step of the gateway, the service, its timers and the executor.
LEMMA SessionsStep == SessionsSafe /\ [SessionsNext]_sessionVars => SessionsSafe'
<1> SUFFICES ASSUME SessionsSafe, [SessionsNext]_sessionVars  PROVE SessionsSafe'
  OBVIOUS
<1>1. ASSUME NEW c \in Sockets, HandleConnection(c) \/ HandleDisconnect(c) \/ SetKeepAlive(c) \/ ClosePty(c)
      PROVE  SessionsSafe'
  BY <1>1, HandleConnectionStep, HandleDisconnectStep, SetKeepAliveStep, ClosePtyStep
<1>2. ASSUME NEW c \in Sockets, NEW l \in Calls, ResumePty(c, l) \/ RefuseOpen(c, l) \/ ReserveOpen(c, l)
      PROVE  SessionsSafe'
  BY <1>2, ResumePtyStep, RefuseOpenStep, ReserveOpenStep
<1>3. ASSUME NEW l \in Calls, ResizeDone(l) \/ AuditOpen(l) \/ SessionOpened(l) \/ OpenFails(l)
      PROVE  SessionsSafe'
  BY <1>3, ResizeDoneStep, AuditOpenStep, SessionOpenedStep, OpenFailsStep
<1>4. ASSUME NEW p \in Calls, CloseAnswered(p) \/ ShellEnds(p) \/ PumpGivesUp(p)
      PROVE  SessionsSafe'
  <2>1. ses[p].closing \in {0, 1}
    BY DEF SessionsSafe, SesOK, SessionType
  <2>2. CASE CloseAnswered(p)  BY <2>2, FinishStep DEF CloseAnswered
  <2>3. CASE ShellEnds(p)      BY <2>1, <2>3, FinishStep DEF ShellEnds
  <2>4. CASE PumpGivesUp(p)    BY <2>1, <2>4, FinishStep DEF PumpGivesUp
  <2>5. QED  BY <1>4, <2>2, <2>3, <2>4
<1>5. ASSUME NEW p \in Calls, DetachTimer(p) \/ Output(p) \/ RemoteLost(p) \/ PumpRetry(p) \/ Linger(p)
      PROVE  SessionsSafe'
  BY <1>5, DetachTimerStep, OutputStep, RemoteLostStep, PumpRetryStep, LingerStep
<1>6. CASE SessionsRestart
  BY <1>6, SessionsRestartStep
<1>7. CASE UNCHANGED sessionVars
  BY <1>7 DEF sessionVars, SessionsSafe, SesTypes, SesOK, KeyInv, OneSession, CloseInv, WaitInv, ListenInv
<1>8. QED  BY <1>1, <1>2, <1>3, <1>4, <1>5, <1>6, <1>7 DEF SessionsNext

\* The inductive invariant of the sessions: beside what each of them guarantees, who holds the key
\* of the workspace, and for every listener the call or the socket that accounts for it.
THEOREM SessionsSafety == SessionsSpec => []SessionsSafe
<1>1. QED  BY SessionsStart, SessionsStep, PTL DEF SessionsSpec

\* TerminalPtyService and TerminalGateway: one session at a time, never unattended without a deadline,
\* no listener of a dead socket but one that raced, closed once, and an attached app has all of the
\* output that the ring can give it.
THEOREM SessionsAreSound == SessionsSpec => []SessionsInv
<1>1. SessionsSafe => SessionsInv
  <2> SUFFICES ASSUME SessionsSafe  PROVE SessionsInv
    OBVIOUS
  <2>1. ses \in [Calls -> SessionType] /\ \A p \in Calls : SessionOK(ses[p])
    BY DEF SessionsSafe, SesOK
  <2>2. SessionsTypeOK
    BY <2>1 DEF SessionsSafe, SesTypes, CallType, SessionType, GotType, SessionsTypeOK
  <2>3. OneSession /\ UnattendedIsTimed
    BY <2>1 DEF SessionsSafe, KeyInv, SessionOK, UnattendedIsTimed
  <2>4. DeadListenerRaced
    BY DEF SessionsSafe, ListenInv, ListenerOK, DeadListenerRaced
  <2>5. ClosedOnce
    BY DEF SessionsSafe, CloseInv, ClosedOnce
  <2>6. AppUpToDate
    <3> SUFFICES ASSUME NEW p \in Calls, ses[p].st \in {"live", "ended"}, ses[p].lis # 0
                 PROVE  LET got == ses[p].got IN
                          /\ \A i \in 1 .. Len(got) : got[i] = ses[p].out - Len(got) + i
                          /\ Len(got) >= (IF ses[p].out < RingCap THEN ses[p].out ELSE RingCap)
                          /\ ses[p].heard = IF ses[p].st = "ended" THEN "yes" ELSE "no"
      BY DEF AppUpToDate
    <3>1. PICK n \in 0 .. ses[p].out : ses[p].got = LastPieces(n, ses[p].out) /\ (n >= ses[p].out \/ n >= RingCap)
      BY <2>1 DEF SessionOK
    <3>2. ses[p].out \in Nat /\ RingCap \in Nat /\ n \in Nat
      BY <2>1, <3>1, SessionsAssumption DEF SessionType
    <3>3. Len(ses[p].got) = n /\ \A i \in 1 .. n : ses[p].got[i] = ses[p].out - n + i
      BY <3>1, <3>2 DEF LastPieces
    <3>4. ses[p].heard = IF ses[p].st = "ended" THEN "yes" ELSE "no"
      BY <2>1 DEF SessionOK
    <3>5. QED  BY <3>1, <3>2, <3>3, <3>4
  <2>7. QED  BY <2>2, <2>3, <2>4, <2>5, <2>6 DEF SessionsInv
<1>2. QED  BY <1>1, SessionsSafety, PTL

-----------------------------------------------------------------------------
(* PtyInput: the inductive invariant. *)

Escapes == {"none", "esc", "csi"}
Lines == {Normalised(line) : line \in Seq(Chars)} \cup {<<>>}
Chunks == {chunk \in Seq(Bytes) : chunk # <<>>}
Gates == {g \in [line : Seq(Chars), escape : Escapes] : Len(g.line) <= MaxLine}
Shells == [line : Seq(Chars), escape : Escapes]
InputSteps == [bytes : Seq(Bytes), line : Lines]

\* What one byte makes of the gate, and whether it is an Enter.
KeyGate(g, b) ==
  IF g.escape # "none" THEN [line |-> g.line, escape |-> ConsumeEscape(g.escape, b)]
  ELSE IF b = "ESC" THEN [line |-> g.line, escape |-> "esc"]
  ELSE IF b = "CR" THEN Fresh
  ELSE [line |-> ApplyKey(g.line, b), escape |-> "none"]
IsEnter(g, b) == g.escape = "none" /\ b = "CR"

\* The gate goes through these states over these bytes.
GateRun(run, bytes) ==
  /\ run \in [0 .. Len(bytes) -> Gates]
  /\ \A i \in 1 .. Len(bytes) : run[i] = KeyGate(run[i - 1], bytes[i])

\* A run without Enter.
Quiet(run, bytes) == GateRun(run, bytes) /\ \A i \in 1 .. Len(bytes) : ~IsEnter(run[i - 1], bytes[i])

\* A step takes the gate from g to h; only its last byte may be an Enter, and then its line
\* is what the gate had before.
StepRun(run, s) ==
  /\ GateRun(run, s.bytes) /\ s.bytes # <<>>
  /\ \A i \in 1 .. Len(s.bytes) - 1 : ~IsEnter(run[i - 1], s.bytes[i])
  /\ IsEnter(run[Len(s.bytes) - 1], s.bytes[Len(s.bytes)]) => s.line = Normalised(run[Len(s.bytes) - 1].line)
StepOK(g, s, h) == \E run : StepRun(run, s) /\ run[0] = g /\ run[Len(s.bytes)] = h

\* Steps that take the gate from one state to the next.
ChainOK(G, ss) ==
  /\ G \in [1 .. Len(ss) + 1 -> Gates]
  /\ \A k \in 1 .. Len(ss) : StepOK(G[k], ss[k], G[k + 1])
Leads(g, ss, h) == \E G : ChainOK(G, ss) /\ G[1] = g /\ G[Len(ss) + 1] = h

\* The log has the only line a shell that follows the gate has run.
RanOK(r, sp) == sp = "no" /\ r.line # <<>> => r.log = r.line

InputShape ==
  /\ gate \in Gates /\ shell \in Shells /\ spoilt \in {"yes", "no"}
  /\ queue \in Seq(Chunks) /\ steps \in Seq(InputSteps)
  /\ phase \in {"next", "audit", "send", "cancel"} /\ (phase \in {"audit", "send"} => steps # <<>>)
  /\ rate \in 0 .. MaxRate + 1 /\ typed \in 0 .. MaxKeys /\ inFaults \in 0 .. MaxInFaults

\* Between chunks the gate has the shell's line; during one it is as far ahead as the steps
\* still to be sent; and a step is sent with its line in the log.
InStep ==
  /\ phase = "next" => steps = <<>> /\ (spoilt = "no" => shell = gate)
  /\ phase \in {"audit", "send"} =>
       \E g : Leads(g, steps, gate) /\ (spoilt = "no" => shell = g)
  /\ phase = "send" => steps[1].line \in {<<>>, audited}

InputSafe == InputShape /\ InStep /\ RanOK(ran, spoilt)

-----------------------------------------------------------------------------
(* PtyInput: keys. *)

\* An escape sequence goes on or ends.
LEMMA EscapeType ==
  ASSUME NEW e \in {"esc", "csi"}, NEW b
  PROVE  ConsumeEscape(e, b) \in Escapes
BY DEF ConsumeEscape, Escapes

\* A key leaves a line of characters, no longer than MaxLine; Ctrl+W is not among them.
LEMMA KeyType ==
  ASSUME "C-w" \notin Bytes, NEW b \in Bytes, b \notin {"CR", "ESC"},
         NEW line \in Seq(Chars), Len(line) <= MaxLine
  PROVE  ApplyKey(line, b) \in Seq(Chars) /\ Len(ApplyKey(line, b)) <= MaxLine
<1>1. Len(line) \in Nat /\ MaxLine \in Nat /\ <<>> \in Seq(Chars) /\ Len(<<>>) = 0
  BY InputBoundsAssumption
<1>2. b \in Chars \cup {"BS", "C-c"}
  BY BytesAssumption DEF Chars
<1>3. CASE b = "BS"
  <2>1. CASE line = <<>>
    BY <1>1, <1>3, <2>1 DEF ApplyKey
  <2>2. CASE line # <<>>
    <3>0. 1 \in Int /\ Len(line) - 1 \in Int /\ Len(line) >= 1 /\ \A i \in 1 .. Len(line) - 1 : line[i] \in Chars
      BY <2>2
    <3>1. Front(line) \in Seq(Chars) /\ Len(Front(line)) = IF 1 <= Len(line) - 1 THEN Len(line) - 1 - 1 + 1 ELSE 0
      BY <3>0, SubSeqProperties DEF Front
    <3>2. Len(Front(line)) <= Len(line)
      BY <1>1, <3>0, <3>1
    <3> QED
      BY <1>1, <1>3, <2>2, <3>1, <3>2 DEF ApplyKey
  <2> QED
    BY <2>1, <2>2
<1>4. CASE b = "C-c"
  BY <1>1, <1>4 DEF ApplyKey
<1>5. CASE b \in Chars
  <2>1. b \notin {"BS", "C-c", "C-w"}
    BY <1>5 DEF Chars
  <2>2. ApplyKey(line, b) = IF Len(line) < MaxLine THEN Append(line, b) ELSE line
    BY <2>1 DEF ApplyKey
  <2>3. Append(line, b) \in Seq(Chars) /\ Len(Append(line, b)) = Len(line) + 1
    BY <1>5
  <2> QED
    BY <1>1, <2>2, <2>3
<1> QED
  BY <1>2, <1>3, <1>4, <1>5

\* A byte leaves a gate.
LEMMA GateType ==
  ASSUME "C-w" \notin Bytes, NEW b \in Bytes, NEW g \in Gates
  PROVE  KeyGate(g, b) \in Gates
<1>1. g.line \in Seq(Chars) /\ Len(g.line) <= MaxLine /\ g.escape \in Escapes
  BY DEF Gates
<1>2. Fresh \in Gates
  BY InputBoundsAssumption DEF Fresh, Gates, Escapes
<1>3. CASE g.escape # "none"
  BY <1>1, <1>3, EscapeType DEF KeyGate, Gates, Escapes
<1>4. CASE g.escape = "none" /\ b \in {"ESC", "CR"}
  BY <1>1, <1>2, <1>4 DEF KeyGate, Gates, Escapes
<1>5. CASE g.escape = "none" /\ b \notin {"ESC", "CR"}
  <2>1. ApplyKey(g.line, b) \in Seq(Chars) /\ Len(ApplyKey(g.line, b)) <= MaxLine
    BY <1>1, <1>5, KeyType
  <2> QED
    BY <1>5, <2>1 DEF KeyGate, Gates, Escapes
<1> QED
  BY <1>3, <1>4, <1>5

-----------------------------------------------------------------------------
(* PtyInput: runs of the gate. *)

\* A set of natural numbers that is not empty has a smallest one.
LEMMA LeastOf ==
  ASSUME NEW S, S \subseteq Nat, S # {}
  PROVE  \E x \in S : \A y \in S : x <= y
<1>1. \E x \in S : \A y \in S : ~ (<<y, x>> \in OpToRel(<, Nat))
  BY NatLessThanWellFounded, WFMin, Zenon
<1>2. PICK x \in S : \A y \in S : ~ (<<y, x>> \in OpToRel(<, Nat))
  BY <1>1
<1>3. ASSUME NEW y \in S PROVE x <= y
  <2>1. x \in Nat /\ y \in Nat
    OBVIOUS
  <2>2. ASSUME y < x PROVE <<y, x>> \in OpToRel(<, Nat)
    <3>1. <<y, x>> \in Nat \X Nat /\ <<y, x>>[1] < <<y, x>>[2]
      BY <2>1, <2>2
    <3> QED
      BY <3>1, Zenon DEF OpToRel
  <2>3. ~ y < x
    BY <1>2, <2>2, Zenon
  <2> QED
    BY <2>1, <2>3
<1> QED
  BY <1>3

\* A sequence with one more element at its end.
LEMMA Longer ==
  ASSUME NEW S, NEW s \in Seq(S), NEW e \in S
  PROVE  /\ Append(s, e) \in Seq(S) /\ Len(s) \in Nat /\ Len(Append(s, e)) = Len(s) + 1 /\ Append(s, e) # <<>>
         /\ Append(s, e)[Len(s) + 1] = e /\ \A i \in 1 .. Len(s) : Append(s, e)[i] = s[i]
OBVIOUS

\* A run goes on with the next byte.
LEMMA RunOn ==
  ASSUME "C-w" \notin Bytes, NEW bytes \in Seq(Bytes), NEW b \in Bytes, NEW run, GateRun(run, bytes)
  PROVE  \E more : /\ GateRun(more, Append(bytes, b)) /\ \A i \in 0 .. Len(bytes) : more[i] = run[i]
                   /\ more[Len(bytes) + 1] = KeyGate(run[Len(bytes)], b)
<1> PICK n \in Nat : n = Len(bytes)
  OBVIOUS
<1> PICK longer : longer = Append(bytes, b)
  OBVIOUS
<1>1. Len(longer) = n + 1 /\ longer[n + 1] = b /\ \A i \in 1 .. n : longer[i] = bytes[i]
  BY Longer
<1>2. run \in [0 .. n -> Gates] /\ \A i \in 1 .. n : run[i] = KeyGate(run[i - 1], bytes[i])
  BY DEF GateRun
<1> PICK h : h = KeyGate(run[n], b)
  OBVIOUS
<1>3. h \in Gates
  BY <1>2, GateType
<1> PICK more : more = [i \in 0 .. n + 1 |-> IF i = n + 1 THEN h ELSE run[i]]
  OBVIOUS
<1>4. \A i \in 0 .. n + 1 : i = n + 1 \/ i \in 0 .. n
  OBVIOUS
<1>5. more \in [0 .. n + 1 -> Gates]
  BY <1>2, <1>3, <1>4
<1>6. more[n + 1] = h /\ \A i \in 0 .. n : more[i] = run[i]
  OBVIOUS
<1>7. ASSUME NEW i \in 1 .. n + 1 PROVE more[i] = KeyGate(more[i - 1], longer[i])
  <2>1. CASE i = n + 1
    <3>1. i - 1 = n /\ n \in 0 .. n
      BY <2>1
    <3> QED
      BY <1>1, <1>6, <2>1, <3>1
  <2>2. CASE i \in 1 .. n
    <3>1. i - 1 \in 0 .. n /\ i \in 0 .. n
      BY <2>2
    <3> QED
      BY <1>1, <1>2, <1>6, <2>2, <3>1
  <2> QED
    BY <2>1, <2>2
<1>8. GateRun(more, longer)
  BY <1>1, <1>5, <1>7 DEF GateRun
<1> QED
  BY <1>6, <1>8

\* A chain goes on with the next step.
LEMMA ChainOn ==
  ASSUME NEW ss \in Seq(InputSteps), NEW s \in InputSteps, NEW g, NEW m, Leads(g, ss, m), NEW h \in Gates, StepOK(m, s, h)
  PROVE  Leads(g, Append(ss, s), h)
<1> PICK G : ChainOK(G, ss) /\ G[1] = g /\ G[Len(ss) + 1] = m
  BY DEF Leads
<1> PICK n \in Nat : n = Len(ss)
  OBVIOUS
<1> PICK longer : longer = Append(ss, s)
  OBVIOUS
<1>1. Len(longer) = n + 1 /\ longer[n + 1] = s /\ \A i \in 1 .. n : longer[i] = ss[i]
  BY Longer
<1>2. G \in [1 .. n + 1 -> Gates] /\ \A k \in 1 .. n : StepOK(G[k], ss[k], G[k + 1])
  BY DEF ChainOK
<1> PICK H : H = [i \in 1 .. n + 2 |-> IF i = n + 2 THEN h ELSE G[i]]
  OBVIOUS
<1>3. \A i \in 1 .. n + 2 : i = n + 2 \/ i \in 1 .. n + 1
  OBVIOUS
<1>4. H \in [1 .. n + 2 -> Gates]
  BY <1>2, <1>3
<1>5. H[n + 2] = h /\ (\A i \in 1 .. n + 1 : H[i] = G[i]) /\ H[1] = G[1]
  OBVIOUS
<1>6. ASSUME NEW k \in 1 .. n + 1 PROVE StepOK(H[k], longer[k], H[k + 1])
  <2>1. CASE k = n + 1
    <3>1. k + 1 = n + 2 /\ k \in 1 .. n + 1
      BY <2>1
    <3>2. H[k] = m /\ longer[k] = s /\ H[k + 1] = h
      BY <1>1, <1>5, <2>1, <3>1
    <3> QED
      BY <3>2
  <2>2. CASE k \in 1 .. n
    <3>1. k + 1 \in 1 .. n + 1 /\ k \in 1 .. n + 1
      BY <2>2
    <3>2. H[k] = G[k] /\ longer[k] = ss[k] /\ H[k + 1] = G[k + 1]
      BY <1>1, <1>5, <2>2, <3>1
    <3> QED
      BY <1>2, <2>2, <3>2
  <2> QED
    BY <2>1, <2>2
<1>7. n + 1 + 1 = n + 2
  OBVIOUS
<1>8. ChainOK(H, longer)
  BY <1>1, <1>4, <1>6, <1>7 DEF ChainOK
<1>9. H[1] = g /\ H[Len(longer) + 1] = h
  BY <1>1, <1>5, <1>7
<1> QED
  BY <1>8, <1>9, Zenon DEF Leads

\* The first step of a chain leaves the chain of the others.
LEMMA ChainRest ==
  ASSUME NEW ss \in Seq(InputSteps), ss # <<>>, NEW g, NEW h, Leads(g, ss, h)
  PROVE  g \in Gates /\ \E m \in Gates : StepOK(g, ss[1], m) /\ Leads(m, Tail(ss), h)
<1> PICK G : ChainOK(G, ss) /\ G[1] = g /\ G[Len(ss) + 1] = h
  BY DEF Leads
<1> PICK n \in Nat : n + 1 = Len(ss)
  <2>1. Len(ss) \in Nat \ {0}
    OBVIOUS
  <2>2. Len(ss) - 1 \in Nat /\ Len(ss) - 1 + 1 = Len(ss)
    BY <2>1
  <2> QED
    BY <2>2
<1> PICK rest : rest = Tail(ss)
  OBVIOUS
<1>1. Len(rest) = n /\ \A i \in 1 .. n : rest[i] = ss[i + 1]
  OBVIOUS
<1>2. G \in [1 .. n + 2 -> Gates] /\ \A k \in 1 .. n + 1 : StepOK(G[k], ss[k], G[k + 1])
  <2>1. n + 1 + 1 = n + 2
    OBVIOUS
  <2> QED
    BY <2>1 DEF ChainOK
<1>3. StepOK(G[1], ss[1], G[2]) /\ G[1] \in Gates /\ G[2] \in Gates
  BY <1>2
<1> PICK H : H = [i \in 1 .. n + 1 |-> G[i + 1]]
  OBVIOUS
<1>4. \A i \in 1 .. n + 1 : i + 1 \in 1 .. n + 2 /\ H[i] = G[i + 1]
  OBVIOUS
<1>5. H \in [1 .. n + 1 -> Gates]
  BY <1>2, <1>4
<1>6. ASSUME NEW k \in 1 .. n PROVE StepOK(H[k], rest[k], H[k + 1])
  <2>1. k + 1 \in 1 .. n + 1 /\ k \in 1 .. n + 1
    OBVIOUS
  <2>2. H[k] = G[k + 1] /\ H[k + 1] = G[k + 1 + 1] /\ rest[k] = ss[k + 1]
    BY <1>1, <1>4, <2>1
  <2> QED
    BY <1>2, <2>1, <2>2
<1>7. ChainOK(H, rest)
  BY <1>1, <1>5, <1>6 DEF ChainOK
<1>8. H[1] = G[2] /\ H[Len(rest) + 1] = h
  BY <1>1, <1>4
<1>9. Leads(G[2], rest, h)
  BY <1>7, <1>8, Zenon DEF Leads
<1> QED
  BY <1>3, <1>9

\* A chain of no steps, and one that a step leaves behind.
LEMMA ChainOfNone ==
  ASSUME NEW g \in Gates
  PROVE  Leads(g, <<>>, g) /\ \A h : Leads(g, <<>>, h) => h = g
<1> PICK G : G = [i \in 1 .. 1 |-> g]
  OBVIOUS
<1>1. G \in [1 .. 1 -> Gates] /\ Len(<<>>) = 0 /\ 0 + 1 = 1 /\ 1 .. 0 = {} /\ G[1] = g
  OBVIOUS
<1>2. ChainOK(G, <<>>)
  BY <1>1 DEF ChainOK
<1>3. Leads(g, <<>>, g)
  BY <1>1, <1>2 DEF Leads
<1>4. \A h : Leads(g, <<>>, h) => h = g
  BY <1>1 DEF Leads
<1> QED
  BY <1>3, <1>4

-----------------------------------------------------------------------------
(* PtyInput: feed. *)

\* feed is defined byte by byte: there is a function that its equation describes.
LEMMA FedDefined ==
  ASSUME NEW chunk, Len(chunk) \in Nat
  PROVE  /\ DOMAIN Fed(chunk) = 0 .. Len(chunk)
         /\ Fed(chunk)[0] = [line |-> gate.line, escape |-> gate.escape, bytes |-> <<>>, out |-> <<>>]
         /\ \A i \in 1 .. Len(chunk) : Fed(chunk)[i] = FeedByte(Fed(chunk)[i - 1], chunk[i])
<1> DEFINE start == [line |-> gate.line, escape |-> gate.escape, bytes |-> <<>>, out |-> <<>>]
           Upto(n) == \E f : f = [i \in 0 .. n |-> IF i = 0 THEN start ELSE FeedByte(f[i - 1], chunk[i])]
           S == {n \in 0 .. Len(chunk) : ~ Upto(n)}
<1>1. ASSUME NEW n \in 0 .. Len(chunk), \A m \in 0 .. Len(chunk) : m < n => Upto(m)
      PROVE  Upto(n)
  <2> HIDE DEF start
  <2>1. CASE n = 0
    <3> PICK f : f = [i \in 0 .. n |-> start]
      OBVIOUS
    <3>1. f = [i \in 0 .. n |-> IF i = 0 THEN start ELSE FeedByte(f[i - 1], chunk[i])]
      BY <2>1
    <3> QED
      BY <3>1
  <2>2. CASE n # 0
    <3>1. n - 1 \in 0 .. Len(chunk) /\ n - 1 < n /\ n \in Nat
      BY <2>2
    <3> HIDE DEF Upto
    <3>2. Upto(n - 1)
      BY <1>1, <3>1
    <3> USE DEF Upto
    <3>3. PICK f : f = [i \in 0 .. n - 1 |-> IF i = 0 THEN start ELSE FeedByte(f[i - 1], chunk[i])]
      BY <3>2
    <3> PICK g : g = [i \in 0 .. n |-> IF i = n THEN FeedByte(f[n - 1], chunk[n]) ELSE f[i]]
      OBVIOUS
    <3>4. ASSUME NEW i \in 0 .. n PROVE g[i] = IF i = 0 THEN start ELSE FeedByte(g[i - 1], chunk[i])
      <4>1. CASE i = n
        <5>1. n - 1 \in 0 .. n /\ n - 1 # n /\ i # 0
          BY <3>1, <4>1, <2>2
        <5>2. g[n - 1] = f[n - 1] /\ g[n] = FeedByte(f[n - 1], chunk[n])
          BY <5>1
        <5> QED
          BY <4>1, <5>1, <5>2
      <4>2. CASE i # n
        <5>1. i \in 0 .. n - 1 /\ g[i] = f[i]
          BY <3>1, <4>2
        <5>2. f[i] = IF i = 0 THEN start ELSE FeedByte(f[i - 1], chunk[i])
          BY <3>3, <5>1
        <5>3. i # 0 => i - 1 \in 0 .. n /\ i - 1 # n
          BY <3>1, <5>1
        <5>4. i # 0 => g[i - 1] = f[i - 1]
          BY <5>3
        <5> QED
          BY <5>1, <5>2, <5>4
      <4> QED
        BY <4>1, <4>2
    <3>5. g = [i \in 0 .. n |-> g[i]]
      OBVIOUS
    <3>6. g = [i \in 0 .. n |-> IF i = 0 THEN start ELSE FeedByte(g[i - 1], chunk[i])]
      BY <3>4, <3>5
    <3> QED
      BY <3>6
  <2> QED
    BY <2>1, <2>2
<1>2. Upto(Len(chunk))
  <2> HIDE DEF Upto
  <2>1. SUFFICES ASSUME ~ Upto(Len(chunk)) PROVE FALSE
    OBVIOUS
  <2>2. S \subseteq Nat /\ S # {}
    BY <2>1
  <2>3. PICK n \in S : \A m \in S : n <= m
    BY <2>2, LeastOf
  <2>4. \A m \in 0 .. Len(chunk) : m < n => Upto(m)
    BY <2>2, <2>3
  <2> QED
    BY <1>1, <2>4
<1>3. Fed(chunk) = CHOOSE f : f = [i \in 0 .. Len(chunk) |-> IF i = 0 THEN start ELSE FeedByte(f[i - 1], chunk[i])]
  BY DEF Fed
<1> HIDE DEF start
<1>4. PICK f : f = [i \in 0 .. Len(chunk) |-> IF i = 0 THEN start ELSE FeedByte(f[i - 1], chunk[i])]
  BY <1>2
<1>5. Fed(chunk) = [i \in 0 .. Len(chunk) |-> IF i = 0 THEN start ELSE FeedByte(Fed(chunk)[i - 1], chunk[i])]
  BY <1>3, <1>4
<1> PICK fed : fed = Fed(chunk)
  OBVIOUS
<1>6. fed = [i \in 0 .. Len(chunk) |-> IF i = 0 THEN start ELSE FeedByte(fed[i - 1], chunk[i])]
  BY <1>5
<1>7. DOMAIN fed = 0 .. Len(chunk) /\ fed[0] = start /\ \A i \in 1 .. Len(chunk) : fed[i] = FeedByte(fed[i - 1], chunk[i])
  BY <1>6
<1> QED
  BY <1>7 DEF start

\* What feed has made of some bytes: a chain of steps, then a run without Enter.
FedOK(s, m, run) ==
  /\ s \in [line : Seq(Chars), escape : Escapes, bytes : Seq(Bytes), out : Seq(InputSteps)]
  /\ m \in Gates /\ Leads(gate, s.out, m)
  /\ Quiet(run, s.bytes) /\ run[0] = m
  /\ run[Len(s.bytes)] = [line |-> s.line, escape |-> s.escape]
Feeding(s) == \E m, run : FedOK(s, m, run)

\* One byte of feed moves the gate, and an Enter ends a step.
LEMMA FeedByteIs ==
  ASSUME NEW s \in [line : Seq(Chars), escape : Escapes, bytes : Seq(Bytes), out : Seq(InputSteps)],
         NEW b \in Bytes, NEW g, g = [line |-> s.line, escape |-> s.escape]
  PROVE  /\ ~IsEnter(g, b) => FeedByte(s, b) = [line |-> KeyGate(g, b).line, escape |-> KeyGate(g, b).escape,
                                               bytes |-> Append(s.bytes, b), out |-> s.out]
         /\ IsEnter(g, b) => /\ KeyGate(g, b) = Fresh
                             /\ FeedByte(s, b) = [line |-> <<>>, escape |-> "none", bytes |-> <<>>,
                                  out |-> Append(s.out, [bytes |-> Append(s.bytes, b), line |-> Normalised(s.line)])]
<1>1. g.line = s.line /\ g.escape = s.escape
  OBVIOUS
<1>2. CASE s.escape # "none"
  BY <1>1, <1>2 DEF FeedByte, KeyGate, IsEnter
<1>3. CASE s.escape = "none" /\ b = "ESC"
  BY <1>1, <1>3 DEF FeedByte, KeyGate, IsEnter
<1>4. CASE s.escape = "none" /\ b = "CR"
  BY <1>1, <1>4 DEF FeedByte, KeyGate, IsEnter
<1>5. CASE s.escape = "none" /\ b # "ESC" /\ b # "CR"
  BY <1>1, <1>5 DEF FeedByte, KeyGate, IsEnter
<1> QED
  BY <1>2, <1>3, <1>4, <1>5

\* feed goes on byte by byte.
LEMMA FeedGoesOn ==
  ASSUME "C-w" \notin Bytes, NEW s, Feeding(s), NEW b \in Bytes
  PROVE  /\ Feeding(FeedByte(s, b))
         /\ FeedByte(s, b).bytes # <<>> \/ FeedByte(s, b).out # <<>>
<1> PICK m, run : FedOK(s, m, run)
  BY DEF Feeding
<1> PICK g : g = [line |-> s.line, escape |-> s.escape]
  OBVIOUS
<1> PICK n : n = Len(s.bytes)
  OBVIOUS
<1>1. /\ s \in [line : Seq(Chars), escape : Escapes, bytes : Seq(Bytes), out : Seq(InputSteps)]
      /\ s.bytes \in Seq(Bytes) /\ s.out \in Seq(InputSteps) /\ s.line \in Seq(Chars) /\ n \in Nat
      /\ m \in Gates /\ Leads(gate, s.out, m) /\ run[0] = m /\ run[n] = g
      /\ GateRun(run, s.bytes) /\ \A i \in 1 .. n : ~IsEnter(run[i - 1], s.bytes[i])
  BY DEF FedOK, Quiet
<1>2. PICK more : /\ GateRun(more, Append(s.bytes, b)) /\ \A i \in 0 .. n : more[i] = run[i]
                  /\ more[n + 1] = KeyGate(g, b)
  BY <1>1, RunOn
<1> PICK longer : longer = Append(s.bytes, b)
  OBVIOUS
<1>3. longer \in Seq(Bytes) /\ Len(longer) = n + 1 /\ longer # <<>> /\ longer[n + 1] = b /\ \A i \in 1 .. n : longer[i] = s.bytes[i]
  BY <1>1, Longer
<1>4. more[0] = run[0] /\ more[n] = g
  <2>1. 0 \in 0 .. n /\ n \in 0 .. n
    BY <1>1
  <2>2. run[n] = g
    BY <1>1, Zenon
  <2> QED
    BY <1>2, <2>1, <2>2, Zenon
<1>5. \A i \in 1 .. n : ~IsEnter(more[i - 1], longer[i])
  <2>1. \A i \in 1 .. n : i - 1 \in 0 .. n
    BY <1>1
  <2> QED
    BY <1>1, <1>2, <1>3, <2>1
<1>9. GateRun(more, longer)
  BY <1>2, Zenon
<1>6. more \in [0 .. n + 1 -> Gates] /\ more[n + 1] \in Gates
  <2>1. more \in [0 .. n + 1 -> Gates]
    BY <1>3, <1>9, Zenon DEF GateRun
  <2>2. n + 1 \in 0 .. n + 1
    BY <1>1
  <2> QED
    BY <2>1, <2>2
<1>7. CASE ~IsEnter(g, b)
  <2> PICK h : h = KeyGate(g, b)
    OBVIOUS
  <2>1. h \in Gates /\ h \in [line : Seq(Chars), escape : Escapes] /\ h = [line |-> h.line, escape |-> h.escape]
    BY <1>2, <1>6 DEF Gates
  <2> PICK r : r = [line |-> h.line, escape |-> h.escape, bytes |-> longer, out |-> s.out]
    OBVIOUS
  <2>2. FeedByte(s, b) = r
    BY <1>1, <1>7, FeedByteIs
  <2>3. r \in [line : Seq(Chars), escape : Escapes, bytes : Seq(Bytes), out : Seq(InputSteps)]
    BY <1>1, <1>3, <2>1
  <2>4. \A i \in 1 .. n + 1 : ~IsEnter(more[i - 1], longer[i])
    <3>1. n + 1 - 1 = n /\ \A i \in 1 .. n + 1 : i = n + 1 \/ i \in 1 .. n
      BY <1>1
    <3>2. ~IsEnter(more[n + 1 - 1], longer[n + 1])
      BY <1>3, <1>4, <1>7, <3>1
    <3> QED
      BY <1>5, <3>1, <3>2
  <2>5. Quiet(more, longer)
    BY <1>2, <1>3, <2>4 DEF Quiet
  <2>6. FedOK(r, m, more)
    BY <1>1, <1>2, <1>3, <1>4, <2>1, <2>3, <2>5 DEF FedOK
  <2> QED
    BY <1>3, <2>2, <2>6 DEF Feeding
<1>8. CASE IsEnter(g, b)
  <2> PICK st : st = [bytes |-> longer, line |-> Normalised(s.line)]
    OBVIOUS
  <2>1. st \in InputSteps
    BY <1>1, <1>3 DEF InputSteps, Lines
  <2>2. Fresh = more[n + 1] /\ Fresh \in Gates
    BY <1>1, <1>2, <1>6, <1>8, FeedByteIs
  <2>3. StepRun(more, st)
    <3>1. n + 1 - 1 = n
      BY <1>1
    <3>2. more[n].line = s.line
      BY <1>4
    <3>3. st.bytes = longer /\ st.line = Normalised(s.line) /\ Len(longer) - 1 = n /\ Len(longer) = n + 1
      BY <1>1, <1>3
    <3>4. st.line = Normalised(more[n].line)
      BY <3>2, <3>3, Zenon
    <3> QED
      BY ONLY <1>3, <1>5, <1>9, <3>3, <3>4, Zenon DEF StepRun
  <2>4. StepOK(m, st, Fresh)
    BY <1>1, <1>3, <1>4, <2>2, <2>3 DEF StepOK
  <2> PICK old : old = s.out
    OBVIOUS
  <2>5. Leads(gate, Append(old, st), Fresh)
    BY <1>1, <2>1, <2>2, <2>4, ChainOn
  <2> PICK outs : outs = Append(old, st)
    OBVIOUS
  <2>12. old \in Seq(InputSteps)
    BY <1>1
  <2>13. outs \in Seq(InputSteps) /\ Len(outs) = Len(old) + 1 /\ outs # <<>> /\ Len(old) \in Nat
    BY <2>1, <2>12, Longer
  <2>6. outs \in Seq(InputSteps) /\ Len(outs) = Len(s.out) + 1 /\ outs # <<>> /\ Len(s.out) \in Nat
    BY <2>13
  <2> PICK r : r = [line |-> <<>>, escape |-> "none", bytes |-> <<>>, out |-> outs]
    OBVIOUS
  <2>7. FeedByte(s, b) = r
    BY <1>1, <1>8, FeedByteIs
  <2>8. r \in [line : Seq(Chars), escape : Escapes, bytes : Seq(Bytes), out : Seq(InputSteps)]
    BY <2>6 DEF Escapes
  <2> PICK still : still = [i \in 0 .. 0 |-> Fresh]
    OBVIOUS
  <2>9. Quiet(still, <<>>) /\ still[0] = Fresh
    <3>1. Len(<<>>) = 0 /\ still \in [0 .. 0 -> Gates] /\ 1 .. 0 = {}
      BY <2>2
    <3> QED
      BY <3>1 DEF Quiet, GateRun
  <2>11. FedOK(r, Fresh, still)
    <3>1. r.out = outs /\ r.bytes = <<>> /\ r.line = <<>> /\ r.escape = "none" /\ Len(<<>>) = 0
      OBVIOUS
    <3>3. still[0] = [line |-> r.line, escape |-> r.escape]
      BY <2>9, <3>1 DEF Fresh
    <3> QED
      BY <2>2, <2>5, <2>8, <2>9, <3>1, <3>3 DEF FedOK
  <2> QED
    BY <2>6, <2>7, <2>11 DEF Feeding
<1> QED
  BY <1>7, <1>8

\* The steps of a chunk take the gate from where it was to where feed leaves it.
LEMMA FeedSteps ==
  ASSUME "C-w" \notin Bytes, gate \in Gates, NEW chunk \in Chunks
  PROVE  /\ Feed(chunk).steps \in Seq(InputSteps) /\ Feed(chunk).steps # <<>> /\ Feed(chunk).gate \in Gates
         /\ Leads(gate, Feed(chunk).steps, Feed(chunk).gate)
<1>1. chunk \in Seq(Bytes) /\ chunk # <<>>
  BY DEF Chunks
<1> PICK n \in Nat : n = Len(chunk) /\ n > 0
  BY <1>1
<1>2. \A i \in 1 .. n : chunk[i] \in Bytes
  BY <1>1
<1> PICK fed : fed = Fed(chunk)
  OBVIOUS
<1> PICK start : start = [line |-> gate.line, escape |-> gate.escape, bytes |-> <<>>, out |-> <<>>]
  OBVIOUS
<1>3. fed[0] = start /\ \A i \in 1 .. n : fed[i] = FeedByte(fed[i - 1], chunk[i])
  BY FedDefined
<1>4. Feeding(start)
  <2>1. start \in [line : Seq(Chars), escape : Escapes, bytes : Seq(Bytes), out : Seq(InputSteps)]
        /\ gate = [line |-> start.line, escape |-> start.escape]
    BY DEF Gates
  <2> PICK still : still = [i \in 0 .. 0 |-> gate]
    OBVIOUS
  <2>2. Len(<<>>) = 0 /\ still \in [0 .. 0 -> Gates] /\ 1 .. 0 = {}
    OBVIOUS
  <2>3. Quiet(still, <<>>)
    BY <2>2 DEF Quiet, GateRun
  <2>4. Leads(gate, <<>>, gate)
    BY ChainOfNone
  <2>5. start.bytes = <<>> /\ start.out = <<>> /\ still[0] = gate
    OBVIOUS
  <2>6. FedOK(start, gate, still)
    BY <2>1, <2>2, <2>3, <2>4, <2>5 DEF FedOK
  <2> QED
    BY <2>6 DEF Feeding
<1>5. \A i \in 0 .. n : Feeding(fed[i])
  <2> DEFINE S == {i \in 0 .. n : ~Feeding(fed[i])}
  <2>1. SUFFICES ASSUME S # {} PROVE FALSE
    OBVIOUS
  <2>8. S \subseteq Nat /\ S # {}
    BY <2>1
  <2>2. PICK i \in S : \A j \in S : i <= j
    BY <2>8, LeastOf
  <2>3. i # 0
    BY <1>3, <1>4
  <2>4. i \in 1 .. n /\ i - 1 \in 0 .. n /\ ~ i <= i - 1
    BY <2>3
  <2>5. Feeding(fed[i - 1])
    BY <2>2, <2>4
  <2>6. fed[i] = FeedByte(fed[i - 1], chunk[i]) /\ chunk[i] \in Bytes
    BY <1>2, <1>3, <2>4
  <2>7. Feeding(fed[i])
    BY <2>5, <2>6, FeedGoesOn
  <2> QED
    BY <2>7
<1> PICK end : end = fed[n]
  OBVIOUS
<1>6. Feeding(end) /\ (end.bytes # <<>> \/ end.out # <<>>)
  <2>1. n \in 1 .. n /\ n - 1 \in 0 .. n
    OBVIOUS
  <2>2. Feeding(fed[n - 1]) /\ fed[n] = FeedByte(fed[n - 1], chunk[n]) /\ chunk[n] \in Bytes
    BY <1>2, <1>3, <1>5, <2>1
  <2> QED
    BY <2>2, FeedGoesOn
<1> PICK m, run : FedOK(end, m, run)
  BY <1>6 DEF Feeding
<1>7. /\ end.bytes \in Seq(Bytes) /\ end.out \in Seq(InputSteps) /\ Len(end.bytes) \in Nat
      /\ m \in Gates /\ Leads(gate, end.out, m) /\ run[0] = m
      /\ GateRun(run, end.bytes) /\ \A i \in 1 .. Len(end.bytes) : ~IsEnter(run[i - 1], end.bytes[i])
  BY DEF FedOK, Quiet
<1> PICK g : g = [line |-> end.line, escape |-> end.escape]
  OBVIOUS
<1>8. run[Len(end.bytes)] = g /\ g \in Gates
  BY <1>7 DEF FedOK, GateRun
<1> PICK st : st = [bytes |-> end.bytes, line |-> <<>>]
  OBVIOUS
<1> PICK ss : ss = IF end.bytes = <<>> THEN end.out ELSE Append(end.out, st)
  OBVIOUS
<1>9. Feed(chunk).steps = ss /\ Feed(chunk).gate = g
  BY DEF Feed
<1>10. CASE end.bytes = <<>>
  <2>1. Len(end.bytes) = 0 /\ m = g /\ ss = end.out
    BY <1>7, <1>8, <1>10
  <2> QED
    BY <1>6, <1>7, <1>8, <1>9, <1>10, <2>1
<1>11. CASE end.bytes # <<>>
  <2>1. st \in InputSteps
    BY <1>7 DEF InputSteps, Lines
  <2>2. StepRun(run, st)
    <3>1. st.bytes = end.bytes /\ Len(end.bytes) \in 1 .. Len(end.bytes)
          /\ \A i \in 1 .. Len(end.bytes) - 1 : i \in 1 .. Len(end.bytes)
      BY <1>7, <1>11
    <3> QED
      BY <1>7, <1>11, <3>1 DEF StepRun
  <2>3. StepOK(m, st, g)
    BY <1>7, <1>8, <2>2 DEF StepOK
  <2> PICK old : old = end.out
    OBVIOUS
  <2>4. old \in Seq(InputSteps) /\ Leads(gate, old, m) /\ g \in Gates
    BY <1>7, <1>8
  <2>5. Leads(gate, Append(old, st), g)
    BY <2>1, <2>3, <2>4, ChainOn
  <2>6. Append(old, st) \in Seq(InputSteps) /\ Append(old, st) # <<>>
    BY <2>1, <2>4, Longer
  <2>7. ss = Append(old, st)
    BY <1>11
  <2> QED
    BY <1>8, <1>9, <2>5, <2>6, <2>7
<1> QED
  BY <1>10, <1>11

-----------------------------------------------------------------------------
(* PtyInput: the shell. *)

\* The shell, too, takes its bytes one after the other.
LEMMA DeliveredDefined ==
  ASSUME NEW bytes, Len(bytes) \in Nat
  PROVE  /\ DOMAIN Delivered(bytes) = 0 .. Len(bytes)
         /\ Delivered(bytes)[0] = [line |-> shell.line, escape |-> shell.escape, ran |-> ran, spoilt |-> spoilt]
         /\ \A i \in 1 .. Len(bytes) : Delivered(bytes)[i] = ShellByte(Delivered(bytes)[i - 1], bytes[i])
<1> DEFINE start == [line |-> shell.line, escape |-> shell.escape, ran |-> ran, spoilt |-> spoilt]
           Upto(n) == \E f : f = [i \in 0 .. n |-> IF i = 0 THEN start ELSE ShellByte(f[i - 1], bytes[i])]
           S == {n \in 0 .. Len(bytes) : ~ Upto(n)}
<1>1. ASSUME NEW n \in 0 .. Len(bytes), \A m \in 0 .. Len(bytes) : m < n => Upto(m)
      PROVE  Upto(n)
  <2> HIDE DEF start
  <2>1. CASE n = 0
    <3> PICK f : f = [i \in 0 .. n |-> start]
      OBVIOUS
    <3>1. f = [i \in 0 .. n |-> IF i = 0 THEN start ELSE ShellByte(f[i - 1], bytes[i])]
      BY <2>1
    <3> QED
      BY <3>1
  <2>2. CASE n # 0
    <3>1. n - 1 \in 0 .. Len(bytes) /\ n - 1 < n /\ n \in Nat
      BY <2>2
    <3> HIDE DEF Upto
    <3>2. Upto(n - 1)
      BY <1>1, <3>1
    <3> USE DEF Upto
    <3>3. PICK f : f = [i \in 0 .. n - 1 |-> IF i = 0 THEN start ELSE ShellByte(f[i - 1], bytes[i])]
      BY <3>2
    <3> PICK g : g = [i \in 0 .. n |-> IF i = n THEN ShellByte(f[n - 1], bytes[n]) ELSE f[i]]
      OBVIOUS
    <3>4. ASSUME NEW i \in 0 .. n PROVE g[i] = IF i = 0 THEN start ELSE ShellByte(g[i - 1], bytes[i])
      <4>1. CASE i = n
        <5>1. n - 1 \in 0 .. n /\ n - 1 # n /\ i # 0
          BY <3>1, <4>1, <2>2
        <5>2. g[n - 1] = f[n - 1] /\ g[n] = ShellByte(f[n - 1], bytes[n])
          BY <5>1
        <5> QED
          BY <4>1, <5>1, <5>2
      <4>2. CASE i # n
        <5>1. i \in 0 .. n - 1 /\ g[i] = f[i]
          BY <3>1, <4>2
        <5>2. f[i] = IF i = 0 THEN start ELSE ShellByte(f[i - 1], bytes[i])
          BY <3>3, <5>1
        <5>3. i # 0 => i - 1 \in 0 .. n /\ i - 1 # n
          BY <3>1, <5>1
        <5>4. i # 0 => g[i - 1] = f[i - 1]
          BY <5>3
        <5> QED
          BY <5>1, <5>2, <5>4
      <4> QED
        BY <4>1, <4>2
    <3>5. g = [i \in 0 .. n |-> g[i]]
      OBVIOUS
    <3>6. g = [i \in 0 .. n |-> IF i = 0 THEN start ELSE ShellByte(g[i - 1], bytes[i])]
      BY <3>4, <3>5
    <3> QED
      BY <3>6
  <2> QED
    BY <2>1, <2>2
<1>2. Upto(Len(bytes))
  <2> HIDE DEF Upto
  <2>1. SUFFICES ASSUME ~ Upto(Len(bytes)) PROVE FALSE
    OBVIOUS
  <2>2. S \subseteq Nat /\ S # {}
    BY <2>1
  <2>3. PICK n \in S : \A m \in S : n <= m
    BY <2>2, LeastOf
  <2>4. \A m \in 0 .. Len(bytes) : m < n => Upto(m)
    BY <2>2, <2>3
  <2> QED
    BY <1>1, <2>4
<1>3. Delivered(bytes) = CHOOSE f : f = [i \in 0 .. Len(bytes) |-> IF i = 0 THEN start ELSE ShellByte(f[i - 1], bytes[i])]
  BY DEF Delivered
<1> HIDE DEF start
<1>4. PICK f : f = [i \in 0 .. Len(bytes) |-> IF i = 0 THEN start ELSE ShellByte(f[i - 1], bytes[i])]
  BY <1>2
<1>5. Delivered(bytes) = [i \in 0 .. Len(bytes) |-> IF i = 0 THEN start ELSE ShellByte(Delivered(bytes)[i - 1], bytes[i])]
  BY <1>3, <1>4
<1> PICK after : after = Delivered(bytes)
  OBVIOUS
<1>6. after = [i \in 0 .. Len(bytes) |-> IF i = 0 THEN start ELSE ShellByte(after[i - 1], bytes[i])]
  BY <1>5
<1>7. DOMAIN after = 0 .. Len(bytes) /\ after[0] = start /\ \A i \in 1 .. Len(bytes) : after[i] = ShellByte(after[i - 1], bytes[i])
  BY <1>6
<1> QED
  BY <1>7 DEF start

\* A shell that has followed the gate so far, unless it is spoilt, and the log what it ran.
FollowsOK(s, g) ==
  /\ s.line \in Seq(Chars) /\ s.escape \in Escapes /\ s.spoilt \in {"yes", "no"}
  /\ s = [line |-> s.line, escape |-> s.escape, ran |-> s.ran, spoilt |-> s.spoilt]
  /\ s.spoilt = "no" => s.line = g.line /\ s.escape = g.escape
  /\ RanOK(s.ran, s.spoilt)

\* One byte: the shell does what the gate did, runs a line only at an Enter, and if that line is
\* the one in the log it is what the log has.
LEMMA ShellFollows ==
  ASSUME "C-w" \notin Bytes, NEW b \in Bytes, NEW g \in Gates, NEW s, FollowsOK(s, g),
         IsEnter(g, b) => Normalised(g.line) \in {<<>>, audited}
  PROVE  FollowsOK(ShellByte(s, b), KeyGate(g, b))
<1>1. /\ s.line \in Seq(Chars) /\ s.escape \in Escapes /\ s.spoilt \in {"yes", "no"}
      /\ s = [line |-> s.line, escape |-> s.escape, ran |-> s.ran, spoilt |-> s.spoilt]
      /\ s.spoilt = "no" => s.line = g.line /\ s.escape = g.escape
      /\ s.spoilt = "no" /\ s.ran.line # <<>> => s.ran.log = s.ran.line
  BY DEF FollowsOK, RanOK
<1>2. g.line \in Seq(Chars) /\ Len(g.line) <= MaxLine /\ Len(g.line) \in Nat /\ MaxLine \in Nat
  BY InputBoundsAssumption DEF Gates
<1>3. CASE b = "C-c"
  <2> PICK r : r = [line |-> <<>>, escape |-> "none", ran |-> s.ran, spoilt |-> IF s.escape # "none" THEN "yes" ELSE s.spoilt]
    OBVIOUS
  <2>1. ShellByte(s, b) = r
    BY <1>1, <1>3 DEF ShellByte
  <2>2. r.spoilt = "no" => s.spoilt = "no" /\ s.escape = "none"
    BY <1>1
  <2>3. g.escape = "none" => KeyGate(g, b) = [line |-> <<>>, escape |-> "none"]
    BY <1>3 DEF KeyGate, ApplyKey
  <2>4. <<>> \in Seq(Chars) /\ "none" \in Escapes
    BY DEF Escapes
  <2> QED
    BY <1>1, <2>1, <2>2, <2>3, <2>4 DEF FollowsOK, RanOK
<1>4. CASE b # "C-c" /\ s.escape # "none"
  <2> PICK e : e = ConsumeEscape(s.escape, b)
    OBVIOUS
  <2> PICK r : r = [line |-> s.line, escape |-> e, ran |-> s.ran, spoilt |-> s.spoilt]
    OBVIOUS
  <2>1. ShellByte(s, b) = r
    BY <1>1, <1>4 DEF ShellByte
  <2>2. e \in Escapes
    BY <1>1, <1>4, EscapeType DEF Escapes
  <2>3. s.spoilt = "no" => KeyGate(g, b) = [line |-> g.line, escape |-> e]
    BY <1>1, <1>4 DEF KeyGate
  <2> QED
    BY <1>1, <2>1, <2>2, <2>3 DEF FollowsOK, RanOK
<1>5. CASE s.escape = "none" /\ b = "ESC"
  <2> PICK r : r = [line |-> s.line, escape |-> "esc", ran |-> s.ran, spoilt |-> s.spoilt]
    OBVIOUS
  <2>1. ShellByte(s, b) = r
    BY <1>1, <1>5 DEF ShellByte
  <2>2. "esc" \in Escapes
    BY DEF Escapes
  <2>3. s.spoilt = "no" => KeyGate(g, b) = [line |-> g.line, escape |-> "esc"]
    BY <1>1, <1>5 DEF KeyGate
  <2> QED
    BY <1>1, <2>1, <2>2, <2>3 DEF FollowsOK, RanOK
<1>6. CASE s.escape = "none" /\ b = "CR"
  <2> PICK l : l = Normalised(s.line)
    OBVIOUS
  <2> PICK run : run = IF l = <<>> THEN s.ran ELSE [line |-> l, log |-> audited]
    OBVIOUS
  <2> PICK r : r = [line |-> <<>>, escape |-> s.escape, ran |-> run, spoilt |-> s.spoilt]
    OBVIOUS
  <2>1. ShellByte(s, b) = r
    BY <1>1, <1>6 DEF ShellByte
  <2>2. <<>> \in Seq(Chars)
    OBVIOUS
  <2>3. s.spoilt = "no" => KeyGate(g, b) = [line |-> <<>>, escape |-> "none"] /\ IsEnter(g, b)
    BY <1>1, <1>6 DEF KeyGate, IsEnter, Fresh
  <2>4. s.spoilt = "no" => l \in {<<>>, audited}
    BY <1>1, <2>3
  <2>5. s.spoilt = "no" /\ run.line # <<>> => run.log = run.line
    BY <1>1, <2>4
  <2>6. r.line = <<>> /\ r.escape = "none" /\ r.ran = run /\ r.spoilt = s.spoilt /\ "none" \in Escapes
    BY <1>6 DEF Escapes
  <2>7. r = [line |-> r.line, escape |-> r.escape, ran |-> r.ran, spoilt |-> r.spoilt]
    OBVIOUS
  <2>8. RanOK(r.ran, r.spoilt)
    BY <2>5, <2>6, Zenon DEF RanOK
  <2> PICK h : h = KeyGate(g, b)
    OBVIOUS
  <2>9. s.spoilt = "no" => h.line = <<>> /\ h.escape = "none"
    BY <2>3
  <2>10. FollowsOK(r, h)
    BY ONLY <1>1, <2>2, <2>6, <2>7, <2>8, <2>9 DEF FollowsOK
  <2> QED
    BY <2>1, <2>10
<1>7. CASE s.escape = "none" /\ b = "BS"
  <2> PICK l : l = IF s.line = <<>> THEN s.line ELSE Front(s.line)
    OBVIOUS
  <2> PICK r : r = [line |-> l, escape |-> s.escape, ran |-> s.ran, spoilt |-> s.spoilt]
    OBVIOUS
  <2>1. ShellByte(s, b) = r
    BY <1>1, <1>7 DEF ShellByte
  <2>2. l \in Seq(Chars)
    <3>1. CASE s.line = <<>>
      BY <3>1
    <3>2. CASE s.line # <<>>
      <4>1. 1 \in Int /\ Len(s.line) - 1 \in Int /\ \A i \in 1 .. Len(s.line) - 1 : s.line[i] \in Chars
        BY <1>1, <3>2
      <4>2. Front(s.line) \in Seq(Chars)
        BY <4>1, SubSeqProperties DEF Front
      <4> QED
        BY <3>2, <4>2
    <3> QED
      BY <3>1, <3>2
  <2>3. s.spoilt = "no" => KeyGate(g, b) = [line |-> l, escape |-> "none"]
    BY <1>1, <1>7 DEF KeyGate, ApplyKey
  <2> QED
    BY <1>1, <1>7, <2>1, <2>2, <2>3 DEF FollowsOK, RanOK
<1>8. CASE s.escape = "none" /\ b \notin {"C-c", "ESC", "CR", "BS"}
  <2>1. b \in Chars /\ b # "C-w"
    BY <1>8, BytesAssumption DEF Chars
  <2> PICK l : l = Append(s.line, b)
    OBVIOUS
  <2> PICK r : r = [line |-> l, escape |-> s.escape, ran |-> s.ran, spoilt |-> IF Len(s.line) + 1 > MaxLine THEN "yes" ELSE s.spoilt]
    OBVIOUS
  <2>2. ShellByte(s, b) = r
    BY <1>1, <1>8, <2>1 DEF ShellByte
  <2>3. l \in Seq(Chars)
    BY <1>1, <2>1
  <2>4. r.spoilt = "no" => s.spoilt = "no" /\ Len(g.line) + 1 <= MaxLine
    BY <1>1, <1>2
  <2>5. Len(g.line) + 1 <= MaxLine => Len(g.line) < MaxLine
    BY <1>2
  <2>6. r.spoilt = "no" => KeyGate(g, b) = [line |-> l, escape |-> "none"]
    BY <1>1, <1>8, <2>1, <2>4, <2>5 DEF KeyGate, ApplyKey
  <2> QED
    BY <1>1, <1>8, <2>2, <2>3, <2>4, <2>6 DEF FollowsOK, RanOK
<1> QED
  BY <1>3, <1>4, <1>5, <1>6, <1>7, <1>8

\* A step reaches the shell: it is then where the step took the gate, unless it is spoilt.
LEMMA StepDelivered ==
  ASSUME "C-w" \notin Bytes, shell \in Shells, spoilt \in {"yes", "no"}, RanOK(ran, spoilt),
         NEW s \in InputSteps, NEW g \in Gates, NEW h, StepOK(g, s, h),
         spoilt = "no" => shell = g, s.line \in {<<>>, audited}, Deliver(s.bytes)
  PROVE  shell' \in Shells /\ spoilt' \in {"yes", "no"} /\ RanOK(ran', spoilt') /\ (spoilt' = "no" => shell' = h) /\ h \in Gates
<1> PICK run : StepRun(run, s) /\ run[0] = g /\ run[Len(s.bytes)] = h
  BY DEF StepOK
<1> PICK n \in Nat : n = Len(s.bytes)
  BY DEF InputSteps
<1>1. /\ n > 0 /\ (\A i \in 1 .. n : s.bytes[i] \in Bytes) /\ run \in [0 .. n -> Gates]
      /\ \A i \in 1 .. n : run[i] = KeyGate(run[i - 1], s.bytes[i])
      /\ \A i \in 1 .. n - 1 : ~IsEnter(run[i - 1], s.bytes[i])
      /\ IsEnter(run[n - 1], s.bytes[n]) => s.line = Normalised(run[n - 1].line)
  BY DEF StepRun, GateRun, InputSteps
<1> PICK d : d = Delivered(s.bytes)
  OBVIOUS
<1> PICK start : start = [line |-> shell.line, escape |-> shell.escape, ran |-> ran, spoilt |-> spoilt]
  OBVIOUS
<1>2. d[0] = start /\ \A i \in 1 .. n : d[i] = ShellByte(d[i - 1], s.bytes[i])
  BY DeliveredDefined
<1>3. FollowsOK(start, g)
  BY DEF FollowsOK, Shells
<1>4. \A i \in 0 .. n : FollowsOK(d[i], run[i])
  <2> DEFINE S == {i \in 0 .. n : ~FollowsOK(d[i], run[i])}
  <2>1. SUFFICES ASSUME S # {} PROVE FALSE
    OBVIOUS
  <2>2. S \subseteq Nat /\ S # {}
    BY <2>1
  <2>3. PICK i \in S : \A j \in S : i <= j
    BY <2>2, LeastOf
  <2>4. i # 0
    BY <1>2, <1>3
  <2>5. i \in 1 .. n /\ i - 1 \in 0 .. n /\ ~ i <= i - 1
    BY <2>4
  <2>6. FollowsOK(d[i - 1], run[i - 1])
    BY <2>3, <2>5
  <2>7. d[i] = ShellByte(d[i - 1], s.bytes[i]) /\ s.bytes[i] \in Bytes /\ run[i] = KeyGate(run[i - 1], s.bytes[i]) /\ run[i - 1] \in Gates
    BY <1>1, <1>2, <2>5
  <2>8. IsEnter(run[i - 1], s.bytes[i]) => Normalised(run[i - 1].line) \in {<<>>, audited}
    <3>1. CASE i = n
      BY <1>1, <3>1
    <3>2. CASE i # n
      <4>1. i \in 1 .. n - 1
        BY <2>5, <3>2
      <4> QED
        BY <1>1, <4>1
    <3> QED
      BY <3>1, <3>2
  <2>9. FollowsOK(d[i], run[i])
    BY <2>6, <2>7, <2>8, ShellFollows
  <2> QED
    BY <2>9
<1> PICK end : end = d[n]
  OBVIOUS
<1>5. FollowsOK(end, h) /\ h \in Gates
  <2>1. n \in 0 .. n
    OBVIOUS
  <2> QED
    BY <1>1, <1>4, <2>1
<1>6. shell' = [line |-> end.line, escape |-> end.escape] /\ ran' = end.ran /\ spoilt' = end.spoilt
  BY DEF Deliver
<1>7. h = [line |-> h.line, escape |-> h.escape]
  BY <1>5 DEF Gates
<1> QED
  BY <1>5, <1>6, <1>7 DEF FollowsOK, Shells

-----------------------------------------------------------------------------
(* PtyInput: the steps. *)

\* Nothing is typed, audited or sent at first.
LEMMA InputStarts == InputInit => InputSafe
<1> SUFFICES ASSUME InputInit PROVE InputSafe
  OBVIOUS
<1>1. Fresh \in Gates /\ Fresh \in Shells
  BY InputBoundsAssumption DEF Fresh, Gates, Shells, Escapes
<1>2. 0 \in 0 .. MaxRate + 1 /\ 0 \in 0 .. MaxKeys /\ 0 \in 0 .. MaxInFaults
  BY InputBoundsAssumption
<1>3. InputShape
  BY <1>1, <1>2 DEF InputInit, InputShape
<1>4. InStep
  BY DEF InputInit, InStep
<1>5. RanOK(ran, spoilt)
  BY DEF InputInit, RanOK
<1> QED
  BY <1>3, <1>4, <1>5 DEF InputSafe

\* A fault is one of MaxInFaults.
LEMMA FaultType ==
  ASSUME inFaults \in 0 .. MaxInFaults, InFault
  PROVE  inFaults' \in 0 .. MaxInFaults
BY InputBoundsAssumption DEF InFault

\* The keyboard only adds to the queue, within the rate.
LEMMA InputStep ==
  ASSUME InputSafe, NEW n \in 1 .. MaxChunk, NEW chunk \in [1 .. n -> Bytes], Input(chunk)
  PROVE  InputSafe'
<1>1. InputShape /\ InStep /\ RanOK(ran, spoilt)
  BY DEF InputSafe
<1>2. chunk \in Chunks /\ Len(chunk) = n
  BY InputBoundsAssumption DEF Chunks
<1>3. rate' \in 0 .. MaxRate + 1
  BY <1>1, <1>2, InputBoundsAssumption DEF Input, InputShape
<1>4. typed' \in 0 .. MaxKeys
  BY <1>1, <1>2, InputBoundsAssumption DEF Input, InputShape
<1>5. queue' \in Seq(Chunks)
  BY <1>1, <1>2 DEF Input, InputShape
<1>6. UNCHANGED <<gate, steps, phase, shell, inFaults, audited, ran, spoilt>>
  BY DEF Input
<1>7. InputShape'
  BY <1>1, <1>3, <1>4, <1>5, <1>6 DEF InputShape
<1>8. InStep' /\ RanOK(ran', spoilt')
  BY <1>1, <1>6 DEF InStep
<1> QED
  BY <1>7, <1>8 DEF InputSafe

\* A second passes.
LEMMA RateWindowStep ==
  ASSUME InputSafe, RateWindow
  PROVE  InputSafe'
<1>1. rate' \in 0 .. MaxRate + 1
  BY InputBoundsAssumption DEF RateWindow
<1>2. UNCHANGED <<gate, queue, steps, phase, shell, typed, inFaults, audited, ran, spoilt>>
  BY DEF RateWindow
<1> QED
  BY <1>1, <1>2 DEF InputSafe, InputShape, InStep

\* The gate runs ahead of the shell by the steps of a chunk.
LEMMA ProcessChunkStep ==
  ASSUME "C-w" \notin Bytes, InputSafe, ProcessChunk
  PROVE  InputSafe'
<1>1. InputShape /\ InStep /\ RanOK(ran, spoilt)
  BY DEF InputSafe
<1> PICK chunk : chunk = Head(queue)
  OBVIOUS
<1>2. /\ queue \in Seq(Chunks) /\ queue # <<>> /\ gate \in Gates /\ phase = "next" /\ phase' = "audit"
      /\ UNCHANGED <<shell, rate, typed, inFaults, audited, ran, spoilt>>
      /\ gate' = Feed(chunk).gate /\ steps' = Feed(chunk).steps /\ queue' = Tail(queue)
  BY <1>1 DEF ProcessChunk, InputShape
<1>3. chunk \in Chunks /\ queue' \in Seq(Chunks)
  BY <1>2
<1>4. steps' \in Seq(InputSteps) /\ steps' # <<>> /\ gate' \in Gates /\ Leads(gate, steps', gate')
  BY <1>2, <1>3, FeedSteps
<1>5. InputShape'
  BY <1>1, <1>2, <1>3, <1>4 DEF InputShape
<1>6. spoilt' = "no" => shell' = gate
  BY <1>1, <1>2 DEF InStep
<1>7. InStep'
  BY <1>2, <1>4, <1>6 DEF InStep
<1> QED
  BY <1>1, <1>2, <1>5, <1>7 DEF InputSafe

\* The line of the next step is in the log when the step is sent.
LEMMA AuditStep ==
  ASSUME InputSafe, Audit
  PROVE  InputSafe'
<1>1. InputShape /\ InStep /\ RanOK(ran, spoilt)
  BY DEF InputSafe
<1>2. /\ steps # <<>> /\ phase = "audit" /\ phase' = "send"
      /\ audited' = IF Head(steps).line = <<>> THEN audited ELSE Head(steps).line
      /\ UNCHANGED <<gate, queue, steps, shell, rate, typed, inFaults, ran, spoilt>>
  BY DEF Audit
<1>3. InputShape'
  BY <1>1, <1>2 DEF InputShape
<1>4. Head(steps) = steps[1]
  OBVIOUS
<1>5. steps'[1].line \in {<<>>, audited'}
  BY <1>2, <1>4
<1>6. PICK g : Leads(g, steps, gate) /\ (spoilt = "no" => shell = g)
  BY <1>1, <1>2 DEF InStep
<1>7. Leads(g, steps', gate') /\ (spoilt' = "no" => shell' = g)
  BY <1>2, <1>6
<1>8. InStep'
  BY <1>2, <1>5, <1>7 DEF InStep
<1> QED
  BY <1>1, <1>2, <1>3, <1>8 DEF InputSafe

\* A line that could not be audited is to be cancelled.
LEMMA AuditFailsStep ==
  ASSUME InputSafe, AuditFails
  PROVE  InputSafe'
<1>1. phase' = "cancel" /\ UNCHANGED <<gate, queue, steps, shell, rate, typed, audited, ran, spoilt>>
  BY DEF AuditFails
<1>2. inFaults' \in 0 .. MaxInFaults
  BY FaultType DEF AuditFails, InputSafe, InputShape
<1> QED
  BY <1>1, <1>2 DEF InputSafe, InputShape, InStep

\* The step to be sent, with its line in the log.
LEMMA ReadyToSend ==
  ASSUME InputSafe, phase = "send"
  PROVE  /\ steps \in Seq(InputSteps) /\ steps # <<>> /\ Head(steps) \in InputSteps
         /\ Head(steps).line \in {<<>>, audited}
         /\ \E g, m \in Gates : /\ StepOK(g, Head(steps), m) /\ Leads(m, Tail(steps), gate)
                                /\ spoilt = "no" => shell = g
<1>1. steps \in Seq(InputSteps) /\ steps # <<>> /\ Head(steps) \in InputSteps /\ Head(steps) = steps[1]
  BY DEF InputSafe, InputShape
<1>2. steps[1].line \in {<<>>, audited}
  BY DEF InputSafe, InStep
<1>3. PICK g : Leads(g, steps, gate) /\ (spoilt = "no" => shell = g)
  BY DEF InputSafe, InStep
<1>4. g \in Gates /\ \E m \in Gates : StepOK(g, steps[1], m) /\ Leads(m, Tail(steps), gate)
  BY <1>1, <1>3, ChainRest
<1> QED
  BY <1>1, <1>2, <1>3, <1>4

\* A step is sent: the shell is as far as the step took the gate.
LEMMA SendStepStep ==
  ASSUME "C-w" \notin Bytes, InputSafe, SendStep
  PROVE  InputSafe'
<1>1. InputShape /\ RanOK(ran, spoilt)
  BY DEF InputSafe
<1>2. /\ phase = "send" /\ Deliver(Head(steps).bytes) /\ steps' = Tail(steps)
      /\ phase' = IF Tail(steps) = <<>> THEN "next" ELSE "audit"
      /\ UNCHANGED <<gate, queue, rate, typed, inFaults, audited>>
  BY DEF SendStep
<1>3. PICK g \in Gates, m \in Gates : /\ StepOK(g, Head(steps), m) /\ Leads(m, Tail(steps), gate)
                                      /\ spoilt = "no" => shell = g
  BY <1>2, ReadyToSend
<1>4. steps \in Seq(InputSteps) /\ steps # <<>> /\ Head(steps) \in InputSteps /\ Head(steps).line \in {<<>>, audited}
  BY <1>2, ReadyToSend
<1>5. shell' \in Shells /\ spoilt' \in {"yes", "no"} /\ RanOK(ran', spoilt') /\ (spoilt' = "no" => shell' = m)
  <2>1. shell \in Shells /\ spoilt \in {"yes", "no"}
    BY <1>1 DEF InputShape
  <2> QED
    BY <1>1, <1>2, <1>3, <1>4, <2>1, StepDelivered
<1>6. steps' \in Seq(InputSteps) /\ (phase' = "audit" => steps' # <<>>) /\ phase' \in {"next", "audit"}
  BY <1>2, <1>4
<1>7. InputShape'
  BY <1>1, <1>2, <1>5, <1>6 DEF InputShape
<1>8. Leads(m, steps', gate')
  BY <1>2, <1>3
<1>9. phase' = "next" => steps' = <<>> /\ m = gate'
  BY <1>2, <1>8, ChainOfNone
<1>10. InStep'
  BY <1>5, <1>6, <1>8, <1>9 DEF InStep
<1> QED
  BY <1>5, <1>7, <1>10 DEF InputSafe

\* A send fails, after the shell got the keys or before: what it ran was in the log.
LEMMA SendFailsStep ==
  ASSUME "C-w" \notin Bytes, InputSafe, SendFails
  PROVE  InputSafe'
<1>1. InputShape /\ RanOK(ran, spoilt)
  BY DEF InputSafe
<1>2. phase = "send" /\ phase' = "cancel" /\ UNCHANGED <<gate, queue, steps, rate, typed, audited>>
  BY DEF SendFails
<1>3. inFaults' \in 0 .. MaxInFaults
  BY <1>1, FaultType DEF SendFails, InputShape
<1>4. shell' \in Shells /\ spoilt' \in {"yes", "no"} /\ RanOK(ran', spoilt')
  <2>1. shell \in Shells /\ spoilt \in {"yes", "no"}
    BY <1>1 DEF InputShape
  <2>2. CASE UNCHANGED <<shell, ran, spoilt>>
    BY <1>1, <2>1, <2>2
  <2>3. CASE Deliver(Head(steps).bytes)
    <3>1. PICK g \in Gates, m \in Gates : StepOK(g, Head(steps), m) /\ (spoilt = "no" => shell = g)
      BY <1>2, ReadyToSend
    <3>2. Head(steps) \in InputSteps /\ Head(steps).line \in {<<>>, audited}
      BY <1>2, ReadyToSend
    <3> QED
      BY <1>1, <2>1, <2>3, <3>1, <3>2, StepDelivered
  <2> QED
    BY <2>2, <2>3 DEF SendFails
<1>5. InputShape'
  BY <1>1, <1>2, <1>3, <1>4 DEF InputShape
<1>6. InStep'
  BY <1>2 DEF InStep
<1> QED
  BY <1>4, <1>5, <1>6 DEF InputSafe

\* The cancel makes gate and shell alike again, or is lost.
LEMMA CancelLineStep ==
  ASSUME InputSafe, CancelLine
  PROVE  InputSafe'
<1>1. Fresh \in Gates /\ Fresh \in Shells
  BY InputBoundsAssumption DEF Fresh, Gates, Shells, Escapes
<1>2. gate' = Fresh /\ steps' = <<>> /\ phase' = "next" /\ UNCHANGED <<queue, rate, typed, audited>>
  BY DEF CancelLine
<1>3. \/ shell' = Fresh /\ UNCHANGED <<ran, spoilt, inFaults>>
      \/ InFault /\ spoilt' = "yes" /\ UNCHANGED <<shell, ran>>
  BY DEF CancelLine
<1>4. inFaults' \in 0 .. MaxInFaults
  BY <1>3, FaultType DEF InputSafe, InputShape
<1>5. shell' \in Shells /\ spoilt' \in {"yes", "no"} /\ (spoilt' = "no" => shell' = gate')
  BY <1>1, <1>2, <1>3 DEF InputSafe, InputShape
<1>6. RanOK(ran', spoilt')
  BY <1>3 DEF InputSafe, RanOK
<1>7. <<>> \in Seq(InputSteps)
  OBVIOUS
<1>8. InputShape'
  BY <1>1, <1>2, <1>4, <1>5, <1>7 DEF InputSafe, InputShape
<1>9. InStep'
  BY <1>2, <1>5 DEF InStep
<1> QED
  BY <1>6, <1>8, <1>9 DEF InputSafe

\* Nothing happens.
LEMMA InputStutters ==
  ASSUME InputSafe, UNCHANGED inputVars
  PROVE  InputSafe'
BY DEF InputSafe, InputShape, InStep, inputVars

\* The inductive invariant of the keyboard, for a keyboard without Ctrl+W.
THEOREM InputSafety ==
  ASSUME "C-w" \notin Bytes
  PROVE  InputSpec => []InputSafe
<1>1. InputSafe /\ [InputNext]_inputVars => InputSafe'
  <2> SUFFICES ASSUME InputSafe, [InputNext]_inputVars PROVE InputSafe'
    OBVIOUS
  <2>1. ASSUME NEW n \in 1 .. MaxChunk, NEW chunk \in [1 .. n -> Bytes], Input(chunk) PROVE InputSafe'
    BY <2>1, InputStep
  <2>2. CASE RateWindow
    BY <2>2, RateWindowStep
  <2>3. CASE ProcessChunk
    BY <2>3, ProcessChunkStep
  <2>4. CASE Audit
    BY <2>4, AuditStep
  <2>5. CASE AuditFails
    BY <2>5, AuditFailsStep
  <2>6. CASE SendStep
    BY <2>6, SendStepStep
  <2>7. CASE SendFails
    BY <2>7, SendFailsStep
  <2>8. CASE CancelLine
    BY <2>8, CancelLineStep
  <2>9. CASE UNCHANGED inputVars
    BY <2>9, InputStutters
  <2> QED
    BY <2>1, <2>2, <2>3, <2>4, <2>5, <2>6, <2>7, <2>8, <2>9 DEF InputNext
<1> QED
  BY <1>1, InputStarts, PTL DEF InputSpec

\* TerminalPtyService and PtyInputGate: whatever the chunks and their order, and whatever fails between gate,
\* log and shell, a line the shell runs is word for word in the audit log before, while no cancel
\* was lost, no line outgrew the gate and no Ctrl+C fell inside an escape sequence.
THEOREM LinesAreAudited ==
  ASSUME "C-w" \notin Bytes
  PROVE  InputSpec => []InputInv
<1>1. InputSafe => InputInv
  BY DEF InputSafe, InputShape, InputInv, InputTypeOK, LineAuditedFirst, RanOK, Gates, Shells, Escapes
<1> QED
  BY <1>1, InputSafety, PTL
=============================================================================
