--------------------------- MODULE MCToolGateway ---------------------------
(* Instances of ToolGateway for TLC.                                       *)
EXTENDS ToolGateway, TLC
CONSTANTS
  c1, c2, c3, k1, k2,
  book,    \* a permitted write
  lookup,  \* a permitted read
  wipe,    \* a write the persona may call but not write with
  pay,     \* a write behind a confirmation
  ghost,   \* allowed, without a handler
  shell    \* not allowed

Symmetry == Permutations(Calls) \cup Permutations(Keys)
=============================================================================
