----------------------------- MODULE MCControl ------------------------------
(* ThreadControl on small instances. *)
EXTENDS ThreadControl, TLC

Symmetry == Permutations(Workers)
=============================================================================
