---------------------------- MODULE MCTerminal -----------------------------
(***************************************************************************)
(* The keyboard, the sessions and the project operations of the terminal   *)
(* share no variables: one of them steps in each behaviour.  The sessions  *)
(* have two parts: all openings without a restart of the process, or one   *)
(* opening less with it.                                                   *)
(***************************************************************************)
EXTENDS PtyInput, PtySessions, OwnerTerminal, TLC

VARIABLE part

SocketSymmetry == Permutations(Sockets)

Init == part \in {"input", "sessions", "restart", "ops"} /\ InputInit /\ SessionsInit /\ OpsInit

Next ==
  \/ part = "input" /\ InputNext /\ UNCHANGED <<part, sessionVars, opVars>>
  \/ /\ part \in {"sessions", "restart"} /\ SessionsNext
     /\ part = "sessions" => restarts' = 0
     /\ part = "restart" => call'[MaxOpens].pc = "free"
     /\ UNCHANGED <<part, inputVars, opVars>>
  \/ part = "ops" /\ OpsNext /\ UNCHANGED <<part, inputVars, sessionVars>>

Spec == Init /\ [][Next]_<<part, inputVars, sessionVars, opVars>>
=============================================================================
