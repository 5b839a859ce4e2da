------------------------------ MODULE MCAgent -------------------------------
(***************************************************************************)
(* The agent loop, the level policy it asks and the memory it consolidates *)
(* to share no variables: one of them steps in each behaviour, the others  *)
(* keep their initial state.                                               *)
(***************************************************************************)
EXTENDS AgentLoop, HitlPolicy, Memory

VARIABLE part

\* Neither the reloads nor the consolidations are told apart.
AgentSymmetry == Permutations(Reloads) \cup Permutations(Consolidations)

MCStaticLevel == [ping |-> "notify", send |-> "confirm"]

Init == part \in {"loop", "policy", "memory"} /\ LoopInit /\ PolicyInit /\ MemoryInit

Next ==
  \/ part = "loop" /\ LoopNext /\ UNCHANGED <<part, policyVars, memoryVars>>
  \/ part = "policy" /\ PolicyNext /\ UNCHANGED <<part, loopVars, memoryVars>>
  \/ part = "memory" /\ MemoryNext /\ UNCHANGED <<part, loopVars, policyVars>>

Spec == Init /\ [][Next]_<<part, loopVars, policyVars, memoryVars>>
=============================================================================
