----------------------------- MODULE AddressMap -----------------------------
(***************************************************************************)
(* What page tables promise: each of them is a partial map from virtual to *)
(* physical page numbers, changed at one page by an update and read back   *)
(* by a query, whatever happens in the other tables.                       *)
(***************************************************************************)
CONSTANTS Roots, Vpns, Ppns, NO_MAPPING, NULL

VARIABLES
    map,    \* the mapping of each page table
    call,   \* the call in progress, NULL between two calls
    ret     \* the result of the last completed query

vars == <<map, call, ret>>

Init ==
    /\ map = [r \in Roots |-> [v \in Vpns |-> NO_MAPPING]]
    /\ call = NULL
    /\ ret = NO_MAPPING

Request ==
    /\ call = NULL
    /\ call' # NULL
    /\ call'.pt \in Roots /\ call'.vpn \in Vpns
    /\ \/ call'.op = "query"
       \/ call'.op = "update" /\ call'.ppn \in Ppns \cup {NO_MAPPING}
    /\ UNCHANGED <<map, ret>>

\* The page is mapped, remapped or unmapped as requested; no other page changes.
Update ==
    /\ call # NULL /\ call.op = "update"
    /\ map' = [map EXCEPT ![call.pt][call.vpn] = call.ppn]
    /\ call' = NULL
    /\ UNCHANGED ret

Query ==
    /\ call # NULL /\ call.op = "query"
    /\ ret' = map[call.pt][call.vpn]
    /\ call' = NULL
    /\ UNCHANGED map

Next == Request \/ Update \/ Query

Spec == Init /\ [][Next]_vars
=============================================================================
