------------------------------ MODULE MCSpawn ------------------------------
(* SpawnBarrier on small instances. *)
EXTENDS SpawnBarrier, TLC

Symmetry == Permutations(Children)
=============================================================================
