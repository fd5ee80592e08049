----------------------------- MODULE MCToolTurn -----------------------------
(* ToolTurn on small instances. *)
EXTENDS ToolTurn
=============================================================================
