---------------------------- MODULE MCDocuments ----------------------------
(* Two documents; d2 has been ingested in big-context mode before.          *)
EXTENDS Documents
CONSTANTS d1, d2, l1
=============================================================================
