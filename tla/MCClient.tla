------------------------------ MODULE MCClient ------------------------------
(* ThreadClient on small instances. *)
EXTENDS ThreadClient, TLC

Symmetry == Permutations(Roots \ {First})
=============================================================================
