------------------------- MODULE MCChannelOutbound -------------------------
(* Two processes of one kind.                                              *)
EXTENDS ChannelOutbound, TLC
CONSTANTS c1, c2
Symmetry == Permutations(Channels)
=============================================================================
