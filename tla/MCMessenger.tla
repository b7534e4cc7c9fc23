---------------------------- MODULE MCMessenger ----------------------------
(***************************************************************************)
(* Messenger with the messages of MCMessageSlot.  One of the files is the  *)
(* programs', so the files are not interchangeable.                        *)
(***************************************************************************)
EXTENDS Messenger, MCMessageSlot

PlaceSym == Permutations(Minors) \cup Permutations(Channels)
=============================================================================
