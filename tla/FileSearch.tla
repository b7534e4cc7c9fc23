----------------------------- MODULE FileSearch -----------------------------
(***************************************************************************)
(* What a search of a directory tree promises, without threads or queues.  *)
(* A directory is found, then closed when it was read to its end, or lost  *)
(* when reading it failed.  Matching files are reported while their        *)
(* directory is open.  The search ends with status 0 exactly when nothing  *)
(* was lost, and then nothing is left to do.                               *)
(***************************************************************************)
EXTENDS Naturals

CONSTANTS Dirs, Files, Root, Parent, Matches, Denied, NULL

VARIABLES found, closed, lost, reported, status

vars == <<found, closed, lost, reported, status>>

Open == found \ (closed \cup lost)
Children(d) == {e \in (Dirs \cup Files) \ {Root} : Parent[e] = d}

Init ==
    /\ found = {} /\ closed = {} /\ lost = {} /\ reported = {}
    /\ status = NULL

Begin ==
    /\ found = {}
    /\ found' = {Root}
    /\ UNCHANGED <<closed, lost, reported, status>>

Discover(d) ==
    /\ d \notin found \cup Denied \cup {Root}
    /\ Parent[d] \in Open
    /\ found' = found \cup {d}
    /\ UNCHANGED <<closed, lost, reported, status>>

Report(f) ==
    /\ f \notin reported
    /\ Parent[f] \in Open
    /\ reported' = reported \cup {f}
    /\ UNCHANGED <<found, closed, lost, status>>

Close(d) ==
    /\ d \in Open
    /\ Children(d) \cap (Dirs \ Denied) \subseteq found
    /\ Children(d) \cap Matches \subseteq reported
    /\ closed' = closed \cup {d}
    /\ UNCHANGED <<found, lost, reported, status>>

Lose(d) ==
    /\ d \in Open
    /\ lost' = lost \cup {d}
    /\ UNCHANGED <<found, closed, reported, status>>

\* Everything found was searched; or something was lost; or the search was given
\* up before it began.
End ==
    /\ \/ status' = 0 /\ found # {} /\ found = closed
       \/ status' = 1 /\ (lost # {} \/ found = {})
    /\ UNCHANGED <<found, closed, lost, reported>>

Next ==
    /\ status = NULL
    /\ \/ Begin \/ End
       \/ \E d \in Dirs : Discover(d) \/ Close(d) \/ Lose(d)
       \/ \E f \in Matches : Report(f)

Spec == Init /\ [][Next]_vars
=============================================================================
