---------------------------- MODULE MCGovernance ----------------------------
(***************************************************************************)
(* The audit log and the autonomy modes, each on its own: they share no    *)
(* variables, so one of them steps in each behaviour and the other keeps   *)
(* its initial state.                                                      *)
(***************************************************************************)
EXTENDS AuditLog, Autonomy

VARIABLE part

\* A hash without collisions: the list of all contents that went into it.
FreeHash(prev, content) == Append(prev, content)
FreeGenesis == <<>>

\* Less than an hour, and more than any limit.
OutOfRange == {0, 9}

Init == part \in {"log", "modes"} /\ AuditInit /\ AutonomyInit

Next ==
  \/ part = "log" /\ AuditNext /\ UNCHANGED <<part, autonomyVars>>
  \/ part = "modes" /\ AutonomyNext /\ UNCHANGED <<part, auditVars>>

allVars == <<part, auditVars, autonomyVars>>

\* AuditFairness and AutonomyFairness, of the component that steps.
Spec ==
  /\ Init /\ [][Next]_allVars
  /\ WF_allVars(part = "log" /\ VerifyRead /\ UNCHANGED <<part, autonomyVars>>)
  /\ WF_allVars(part = "log" /\ VerifyLock /\ UNCHANGED <<part, autonomyVars>>)
  /\ WF_allVars(part = "modes" /\ ExpiryStep /\ UNCHANGED <<part, auditVars>>)
=============================================================================
