---------------------------- MODULE MCCitations -----------------------------
(* CitationRound on small instances. *)
EXTENDS CitationRound
=============================================================================
