---------------------------- MODULE MCChannels -----------------------------
(***************************************************************************)
(* The bridge and the notices share no variables: one of them steps in     *)
(* each behaviour and the other keeps its initial state.                   *)
(***************************************************************************)
EXTENDS Relay, Push, TLC

VARIABLE part

MCNotices == {[kind |-> "approval_new", ref |-> 1], [kind |-> "approval_expiring", ref |-> 1]}

ChannelSymmetry == Permutations(Devices)

Init == part \in {"relay", "push"} /\ RelayInit /\ PushInit

Next ==
  \/ part = "relay" /\ RelayNext /\ UNCHANGED <<part, pushVars>>
  \/ part = "push" /\ PushNext /\ UNCHANGED <<part, relayVars>>

Spec == Init /\ [][Next]_<<part, relayVars, pushVars>>
=============================================================================
