------------------------------ MODULE MCPfind ------------------------------
(***************************************************************************)
(* Pfind on a small tree.  The root lists a, b and the unsearchable x and  *)
(* a file; a lists c and a file; c lists the last file.                    *)
(***************************************************************************)
EXTENDS Pfind

CONSTANTS root, a, b, c, x, f1, f2, f3

SmallDirs == {root, a, b, c, x}
SmallFiles == {f1, f2, f3}
SmallParent == [e \in (SmallDirs \cup SmallFiles) \ {root} |->
                  CASE e \in {a, b, x, f1} -> root
                    [] e \in {c, f2} -> a
                    [] e = f3 -> c]
SmallMatches == {f1, f3}
SmallDenied == {x}
=============================================================================
