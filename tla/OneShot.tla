------------------------------- MODULE OneShot -------------------------------
(***************************************************************************)
(* What the approval cycle promises, whatever the owner's calls, the sweep *)
(* and the crashes do: a request is opened once, is in at most one pair of *)
(* hands at a time, and its action succeeds at most once; after a success  *)
(* it is never open again.                                                 *)
(***************************************************************************)
EXTENDS Naturals

CONSTANT Requests

VARIABLES
  phase,   \* "none", "open" (anybody may claim it), "claimed", "closed"
  wins     \* successful executions

Init ==
  /\ phase = [r \in Requests |-> "none"]
  /\ wins = [r \in Requests |-> 0]

Open(r) ==
  /\ phase[r] = "none"
  /\ phase' = [phase EXCEPT ![r] = "open"]
  /\ UNCHANGED wins

Claim(r) ==
  /\ phase[r] = "open"
  /\ wins[r] = 0
  /\ phase' = [phase EXCEPT ![r] = "claimed"]
  /\ UNCHANGED wins

Release(r) ==
  /\ phase[r] = "claimed"
  /\ wins[r] = 0
  /\ phase' = [phase EXCEPT ![r] = "open"]
  /\ UNCHANGED wins

\* A claim that is taken for stuck may be closed while its holder still runs.
Close(r) ==
  /\ phase[r] \in {"open", "claimed"}
  /\ phase' = [phase EXCEPT ![r] = "closed"]
  /\ UNCHANGED wins

Succeed(r) ==
  /\ phase[r] \in {"claimed", "closed"}
  /\ wins[r] = 0
  /\ wins' = [wins EXCEPT ![r] = 1]
  /\ UNCHANGED phase

Next == \E r \in Requests : Open(r) \/ Claim(r) \/ Release(r) \/ Close(r) \/ Succeed(r)

Spec == Init /\ [][Next]_<<phase, wins>>
=============================================================================
