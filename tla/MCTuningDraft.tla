--------------------------- MODULE MCTuningDraft ---------------------------
(* Instances of TuningDraft for TLC.                                      *)
EXTENDS TuningDraft

\* An accepted proposal, a document that yields only funnel stages, and one that
\* yields all parts.
MCBodies == {{}, {"funnel"}, Parts}
=============================================================================
