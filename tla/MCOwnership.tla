---------------------------- MODULE MCOwnership ----------------------------
(* ThreadOwnership on small instances. *)
EXTENDS ThreadOwnership, TLC

Symmetry == Permutations(Workers)
=============================================================================
