---------------------------- MODULE MCDelivery ----------------------------
(* CommandDelivery on small instances. *)
EXTENDS CommandDelivery, TLC
=============================================================================
