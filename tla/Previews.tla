------------------------------ MODULE Previews -------------------------------
(***************************************************************************)
(* The preview apps the owner publishes from the phone                     *)
(* (OwnerPreviewPublishService, EnvVaultService, ExecutorClientModule):    *)
(* the values of an app's environment wait in a vault in memory, by the    *)
(* request, until the approval runs, and the executor gets them once.      *)
(* The approval itself is that of Approvals; here it is granted, rejected  *)
(* or left alone.  The executor's pods are external.                       *)
(***************************************************************************)
EXTENDS Naturals, FiniteSets

CONSTANTS
  Publishes,          \* calls of publish
  MaxEntries,         \* MAX_ENTRIES of the vault
  MaxPreviewFaults    \* bound: failed calls and writes, restarts

ASSUME PreviewAssumption == IsFiniteSet(Publishes) /\ MaxEntries \in Nat /\ MaxPreviewFaults \in Nat

VARIABLES
  publish,    \* call -> where it is and whether it brought values
  vault,      \* call -> its values: none, kept or expired
  approval,   \* call -> its pending approval
  pod,        \* services of the executor: [of, env]
  previewFaults,
  \* history
  given,      \* call -> times its values left the vault for the executor
  logged      \* calls with a row in the audit log

previewVars == <<publish, vault, approval, pod, previewFaults, given, logged>>

PreviewFault == previewFaults < MaxPreviewFaults /\ previewFaults' = previewFaults + 1
Kept(v) == {p \in Publishes : v[p] = "kept"}
Purge == [p \in Publishes |-> IF vault[p] = "expired" THEN "none" ELSE vault[p]]

-----------------------------------------------------------------------------
\* put refuses a new entry.
Full(v) == Cardinality(Kept(v)) >= MaxEntries

\* publish: the form was checked; the level decides whether an approval waits (create) or
\* the executor is called at once, with values that go through the vault.
Publish(p) ==
  /\ publish[p].pc = "free"
  /\ \E env \in {"no", "yes"}, level \in {"confirm", "notify"} :
       IF env = "yes" /\ Full(Purge)
       THEN /\ publish' = [publish EXCEPT ![p] = [pc |-> "failed", env |-> env]]
            /\ vault' = Purge /\ UNCHANGED given
       ELSE /\ publish' = [publish EXCEPT ![p] = [pc |-> IF level = "confirm" THEN "create" ELSE "run", env |-> env]]
            /\ vault' = IF env = "no" THEN vault
                        ELSE [Purge EXCEPT ![p] = IF level = "confirm" THEN "kept" ELSE "none"]
            /\ given' = IF env = "yes" /\ level = "notify" THEN [given EXCEPT ![p] = @ + 1] ELSE given
  /\ UNCHANGED <<approval, pod, previewFaults, logged>>

CreatePending(p) ==
  /\ publish[p].pc = "create" /\ publish' = [publish EXCEPT ![p].pc = "done"]
  /\ approval' = [approval EXCEPT ![p] = "pending"]
  /\ UNCHANGED <<vault, pod, previewFaults, given, logged>>

\* The values of a publish that fails are discarded.
Discard(p) == [vault EXCEPT ![p] = "none"]

\* The approval was not created, or was and its audit row failed.
CreatePendingFails(p) ==
  /\ publish[p].pc = "create" /\ PreviewFault
  /\ publish' = [publish EXCEPT ![p].pc = "failed"] /\ vault' = Discard(p)
  /\ approval' \in {approval, [approval EXCEPT ![p] = "pending"]}
  /\ UNCHANGED <<pod, given, logged>>

\* A pod for the call, with the values it was started with.
Started(p, env) == pod \cup {[of |-> p, env |-> env]}

\* The executor answers, then the row is written.
RunAtOnce(p) ==
  /\ publish[p].pc = "run" /\ publish' = [publish EXCEPT ![p].pc = "record"]
  /\ pod' = Started(p, publish[p].env)
  /\ UNCHANGED <<vault, approval, previewFaults, given, logged>>

RecordToolCall(p) ==
  /\ publish[p].pc = "record" /\ publish' = [publish EXCEPT ![p].pc = "done"] /\ logged' = logged \cup {p}
  /\ UNCHANGED <<vault, approval, pod, previewFaults, given>>

\* The executor refuses, or starts the pod and its answer is lost, or the row fails.
RunAtOnceFails(p) ==
  /\ publish[p].pc \in {"run", "record"} /\ PreviewFault
  /\ publish' = [publish EXCEPT ![p].pc = "failed"] /\ vault' = Discard(p)
  /\ pod' \in {pod} \cup (IF publish[p].pc = "run" THEN {Started(p, publish[p].env)} ELSE {})
  /\ UNCHANGED <<approval, given, logged>>

-----------------------------------------------------------------------------
(* startPreviewService, when the approval runs *)

\* take: reads and deletes.
Take(p) == [vault EXCEPT ![p] = "none"]

\* Mutant: an app is started without the values that are gone.
TakeEnvLenient(p) == TRUE

\* takeEnv fails without values.
TakeEnv(p) == publish[p].env = "no" \/ vault[p] = "kept"

\* Approved, claimed and audited (Approvals): the values are taken, or the claim is released.
Approve(p) ==
  /\ approval[p] = "pending"
  /\ approval' = [approval EXCEPT ![p] = IF TakeEnv(p) THEN "running" ELSE "pending"]
  /\ vault' = IF publish[p].env = "yes" THEN Take(p) ELSE vault
  /\ given' = IF publish[p].env = "yes" /\ vault[p] = "kept" THEN [given EXCEPT ![p] = @ + 1] ELSE given
  /\ logged' = logged \cup {p}
  /\ UNCHANGED <<publish, pod, previewFaults>>

\* What the executor was given of them.
Values(p) == IF given[p] > 0 THEN "yes" ELSE "no"

ApprovedStarts(p) ==
  /\ approval[p] = "running" /\ approval' = [approval EXCEPT ![p] = "resolved"]
  /\ pod' = Started(p, Values(p))
  /\ UNCHANGED <<publish, vault, previewFaults, given, logged>>

\* The claim is released for another approval: the values were taken for good.
ApprovedFails(p) ==
  /\ approval[p] = "running" /\ PreviewFault /\ approval' = [approval EXCEPT ![p] = "pending"]
  /\ pod' \in {pod, Started(p, Values(p))}
  /\ UNCHANGED <<publish, vault, given, logged>>

\* Rejected or abandoned: the vault hears nothing of it.
RejectPreview(p) ==
  /\ approval[p] = "pending" /\ approval' = [approval EXCEPT ![p] = "rejected"]
  /\ UNCHANGED <<publish, vault, pod, previewFaults, given, logged>>

-----------------------------------------------------------------------------
\* A day passes for an entry; the next put purges it.
EntryExpires(p) ==
  /\ vault[p] = "kept" /\ vault' = [vault EXCEPT ![p] = "expired"]
  /\ UNCHANGED <<publish, approval, pod, previewFaults, given, logged>>

\* stopPreviewService, by the owner or a tool, and the pods' own end.
StopPreview ==
  /\ \E s \in pod : pod' = pod \ {s}
  /\ UNCHANGED <<publish, vault, approval, previewFaults, given, logged>>

\* The process restarts: the vault is empty, and what was under way is over.
PreviewRestart ==
  /\ PreviewFault /\ vault' = [p \in Publishes |-> "none"]
  /\ publish' = [p \in Publishes |-> IF publish[p].pc \in {"create", "run", "record"} THEN [publish[p] EXCEPT !.pc = "failed"] ELSE publish[p]]
  /\ approval' = [p \in Publishes |-> IF approval[p] = "running" THEN "stuck" ELSE approval[p]]
  /\ UNCHANGED <<pod, given, logged>>

-----------------------------------------------------------------------------
PreviewInit ==
  /\ publish = [p \in Publishes |-> [pc |-> "free", env |-> "no"]] /\ vault = [p \in Publishes |-> "none"]
  /\ approval = [p \in Publishes |-> "none"] /\ pod = {} /\ previewFaults = 0
  /\ given = [p \in Publishes |-> 0] /\ logged = {}

PreviewNext ==
  \/ \E p \in Publishes : \/ Publish(p) \/ CreatePending(p) \/ CreatePendingFails(p) \/ RunAtOnce(p) \/ RecordToolCall(p)
                          \/ RunAtOnceFails(p) \/ Approve(p) \/ ApprovedStarts(p) \/ ApprovedFails(p) \/ RejectPreview(p) \/ EntryExpires(p)
  \/ StopPreview \/ PreviewRestart

PreviewSpec == PreviewInit /\ [][PreviewNext]_previewVars

-----------------------------------------------------------------------------
\* Types; and the vault's limit, whatever expires, fails or restarts.
PreviewTypeOK ==
  /\ \A p \in Publishes : publish[p].pc \in {"free", "create", "run", "record", "done", "failed"} /\ publish[p].env \in {"no", "yes"}
  /\ vault \in [Publishes -> {"none", "kept", "expired"}]
  /\ approval \in [Publishes -> {"none", "pending", "running", "resolved", "rejected", "stuck"}]
  /\ pod \subseteq [of : Publishes, env : {"no", "yes"}] /\ logged \subseteq Publishes
  /\ Cardinality(Kept(vault)) <= MaxEntries

\* The executor gets the values of a request at most once, over failed attempts and new
\* approvals.
ValuesGivenOnce == \A p \in Publishes : given[p] <= 1

\* A pod has values exactly when its request brought them: an approval that comes after the
\* values expired, were used or went with a restart starts nothing.
PodHasItsValues == \A s \in pod : s.env = publish[s.of].env

\* A publish the owner was told had failed leaves no values behind, also when its approval
\* exists all the same; and an app that was published for good has its row in the log.
FailureLeavesNothing ==
  \A p \in Publishes : /\ publish[p].pc = "failed" => vault[p] = "none"
                       /\ publish[p].pc = "done" /\ (\E s \in pod : s.of = p) => p \in logged

\* The values of a preview: at most so many wait, they leave once, for the pod of their own
\* request, and none stay behind a failure.
PreviewInv == PreviewTypeOK /\ ValuesGivenOnce /\ PodHasItsValues /\ FailureLeavesNothing
=============================================================================
