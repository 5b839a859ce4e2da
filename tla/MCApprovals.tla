---------------------------- MODULE MCApprovals ----------------------------
(* Small instances of Approvals for TLC. *)
EXTENDS Approvals, TLC

\* One request of the demanding kind: two approvals, escalated before abandoned.
DualEscalate == [r \in Requests |-> "dual-confirm"]
Escalates == [r \in Requests |-> "escalate"]

\* Single approvals that the sweep discards.
SingleConfirm == [r \in Requests |-> "confirm"]
Discards == [r \in Requests |-> "discard"]

\* Calls are interchangeable: no property tells them apart.
CallSymmetry == Permutations(Calls)
=============================================================================
