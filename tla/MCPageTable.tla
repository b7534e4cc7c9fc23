---------------------------- MODULE MCPageTable ----------------------------
(***************************************************************************)
(* PageTable with binary nodes: page numbers of two bits that share one,   *)
(* so that or-ing them is not the same as overwriting; virtual pages that  *)
(* part at the last and at the second of three levels.                     *)
(***************************************************************************)
EXTENDS PageTable

ThreeVpns == {<<0, 0, 0>>, <<0, 0, 1>>, <<0, 1, 0>>}
TwoPpns == {{0, 1}, {1, 2}}
=============================================================================
