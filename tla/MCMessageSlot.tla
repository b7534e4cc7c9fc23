--------------------------- MODULE MCMessageSlot ---------------------------
(***************************************************************************)
(* MessageSlot with buffers of at most two bytes: an empty message, two    *)
(* legal ones of different length, and one that is a byte too long.        *)
(***************************************************************************)
EXTENDS MessageSlot

CONSTANTS m1, m2, c1, c2, f1, f2, b1, b2

SmallMessages == {<<>>, <<b1>>, <<b2, b1>>, <<b2, b2, b2>>}
Sym == Permutations(Minors) \cup Permutations(Channels) \cup Permutations(Files)
=============================================================================
