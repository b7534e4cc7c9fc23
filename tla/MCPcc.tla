------------------------------- MODULE MCPcc -------------------------------
(***************************************************************************)
(* Bytes 0 to 3 of which 1 and 2 are printable, numbers of two bytes, and  *)
(* buffers of two bytes.                                                   *)
(***************************************************************************)
EXTENDS PccSystem

Whole(bytes) == [length |-> Len(bytes), data |-> bytes]
\* An empty file, and one that takes two buffers.
SmallFiles == {Whole(<<>>), Whole(<<2, 3, 1>>)}
=============================================================================
