------------------------------- MODULE MCAccess -------------------------------
(* Two people and two handlers on a dedicated zone, one authorization.  The  *)
(* zone has its provider from the start; an administrator may turn it off.   *)
EXTENDS Access, TLC

MCInit == Init /\ provider = "jit"

MCSpec == MCInit /\ [][Next]_vars

Symmetry == Permutations(Requests) \cup Permutations(People)
=============================================================================
