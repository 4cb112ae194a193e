------------------------------ MODULE MCMemories ------------------------------
(***************************************************************************)
(* An instance of Memories for TLC.  Nothing tells tenants or sessions     *)
(* apart, so that memory 1 may be taken to be of tenant o1 and the first   *)
(* call to be made by session s1.  This is what SYMMETRY would do, which   *)
(* TLC does not allow beside a liveness property.  As a bound, only        *)
(* tenants that have a memory, or store one, make calls.                   *)
(***************************************************************************)
EXTENDS Memories

CONSTANTS o1, s1

MCInit == Init /\ org[1] = o1

Callers == {org[m] : m \in Mems}

MCNext == \E s \in Sessions :
    \/ (requests = 0 => s = s1) /\ BeginCall(s) /\ call'[s].org \in Callers
    \/ CallStep(s)
    \/ ConnectionLost(s)

MCSpec == MCInit /\ [][MCNext]_vars /\ Fairness
===============================================================================
