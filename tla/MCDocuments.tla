---------------------------- MODULE MCDocuments ----------------------------
(* DocumentPipeline on small instances. *)
EXTENDS DocumentPipeline, TLC
=============================================================================
