----------------------------- MODULE MCSockets -----------------------------
(* SocketBudget on small instances. *)
EXTENDS SocketBudget, TLC

Symmetry == Permutations(Actors)
=============================================================================
