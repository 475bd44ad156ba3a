------------------------------ MODULE MCSessions ------------------------------
(* Two handlers of one account over two session rows.                      *)
EXTENDS Sessions, TLC

Symmetry == Permutations(Requests)
=============================================================================
