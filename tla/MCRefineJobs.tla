----------------------------- MODULE MCRefineJobs -----------------------------
(***************************************************************************)
(* Values of the constants of RefineJobs for TLC: one edge whose feedback  *)
(* is bad and one whose feedback is good; behaviours with the scheduler    *)
(* alone, with jobs from the API alone, and with both.                     *)
(***************************************************************************)
EXTENDS RefineJobs, TLC

CONSTANTS e1, e2

MCSignal == (e1 :> -1) @@ (e2 :> 1)

MCPlans ==
    { [ticks |-> 4, beat |-> 0, api |-> 0],
      [ticks |-> 0, beat |-> 0, api |-> 3],
      [ticks |-> 2, beat |-> 2, api |-> 0] }

Anonymous == Permutations(Dispatchers) \cup Permutations(Workers) \cup Permutations(Pair)
==============================================================================
