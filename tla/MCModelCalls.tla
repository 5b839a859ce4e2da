---------------------------- MODULE MCModelCalls ----------------------------
(***************************************************************************)
(* A small instance of ModelCalls for TLC.  A behaviour has either two     *)
(* calls in flight over one change of the hour, which is midnight, or one  *)
(* at a time over the two hours in which first the local and then the UTC  *)
(* day ends.                                                               *)
(***************************************************************************)
EXTENDS ModelCalls
CONSTANTS big, small
VARIABLE focus

MCPrice == (big :> 1) @@ (small :> 0)
CallSymmetry == Permutations(Calls)

MCInit == Init /\ focus \in {"overlap", "midnights"}

MCNext ==
  /\ Next /\ UNCHANGED focus
  /\ focus = "overlap" => now' <= FirstHour + 1
  /\ focus = "midnights" => Cardinality({c \in Calls : call'[c].pc # "idle"}) <= 1

MCSpec == MCInit /\ [][MCNext]_<<vars, focus>>
=============================================================================
