-------------------------- MODULE MCChannelInbound --------------------------
(* A text and a message of any class, two handlers.                        *)
EXTENDS ChannelInbound, TLC
CONSTANTS m1, m2, s1, s2
=============================================================================
