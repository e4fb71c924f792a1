--------------------------- MODULE MCReengagement ---------------------------
(* Instances of Reengagement for TLC.                                      *)
EXTENDS Reengagement
CONSTANTS r1, s1, s2, w1, w2

Two == [r \in Rules |-> 2]
=============================================================================
