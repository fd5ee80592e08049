----------------------------- MODULE MCDocQuery -----------------------------
(* DocumentQuery on small instances. *)
EXTENDS DocumentQuery
=============================================================================
