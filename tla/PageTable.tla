----------------------------- MODULE PageTable -----------------------------
(***************************************************************************)
(* hw1_os/pt.c over hw1_os/os.c: page tables as tries of page frames.      *)
(*                                                                         *)
(* A virtual page number is its TRIE_DEPTH groups of index bits, the top   *)
(* group first.  A physical page number is the set of its one bits, so     *)
(* that |= is a union; NO_MAPPING has all of them.  The walk takes one     *)
(* action per level: the process may end, out of memory, between two.      *)
(***************************************************************************)
EXTENDS Naturals, FiniteSets

CONSTANTS
    TRIE_DEPTH,     \* levels of the trie: 5
    Index,          \* indices of a page table node: 0 .. 511
    NPAGES,         \* page frames of the simulated machine: 2^20
    PpnBits,        \* bits of a uint64_t: 0 .. 63
    FrameBits,      \* bits that survive << 12: 0 .. 51
    Vpns, Ppns,     \* virtual and physical page numbers that callers use
    MaxTables,      \* bound: page tables in use
    NULL

Frames == 0 .. NPAGES - 1
NO_MAPPING == PpnBits

\* The page frame number n as a set of bits, and back.
ToBits == [n \in Frames |-> {b \in FrameBits : (n \div 2^b) % 2 = 1}]
ToFrame == [bits \in {ToBits[n] : n \in Frames} |-> CHOOSE n \in Frames : ToBits[n] = bits]

\* pt_entry; bits 1 to 11 are unused.
pt_entry == [valid : BOOLEAN, frame : SUBSET FrameBits]
ZeroEntry == [valid |-> FALSE, frame |-> {}]

\* The calls that callers make: page_table_update and page_table_query.
Calls == [op : {"update", "query"}, pt : Frames, vpn : Vpns,
          ppn : Ppns \cup {NO_MAPPING}, allocate : BOOLEAN]

ASSUME PageTableAssumption ==
    /\ TRIE_DEPTH \in Nat \ {0}
    /\ NPAGES \in Nat /\ MaxTables \in Nat
    /\ FrameBits \subseteq PpnBits /\ FrameBits # PpnBits
    /\ Vpns \subseteq [1 .. TRIE_DEPTH -> Index]
    /\ Ppns \subseteq SUBSET FrameBits
    /\ \A m, n \in Frames : ToBits[m] = ToBits[n] => m = n
    /\ NULL \notin Frames /\ NULL \notin [Index -> pt_entry] /\ NULL \notin Calls

VARIABLES
    pages,      \* content of each allocated page frame, else NULL
    nalloc,     \* page frames handed out so far
    roots,      \* page frames that callers use as page table roots
    pc,         \* "idle", "walk", "leaf" or "exit"
    call,       \* the call in progress
    i, curr_pt, \* the state of page_walk
    ret,        \* the result of the last page_table_query
    level       \* history: the level a frame was allocated for

vars == <<pages, nalloc, roots, pc, call, i, curr_pt, ret, level>>

Init ==
    /\ pages = [n \in Frames |-> NULL]
    /\ nalloc = 0
    /\ roots = {}
    /\ pc = "idle"
    /\ call = NULL
    /\ i = 1
    /\ curr_pt = 0
    /\ ret = NO_MAPPING
    /\ level = [n \in Frames |-> 0]

-----------------------------------------------------------------------------
\* Mutation: the frames are handed out round robin.
alloc_page_frame_Wraps(l, p) ==
    /\ pages' = [p EXCEPT ![nalloc] = [x \in Index |-> ZeroEntry]]
    /\ level' = [level EXCEPT ![nalloc] = l]
    /\ nalloc' = (nalloc + 1) % NPAGES

\* Hand out frame nalloc, all zeroes, for level l; p is the memory it is added to.
alloc_page_frame(l, p) ==
    /\ nalloc < NPAGES
    /\ pages' = [p EXCEPT ![nalloc] = [x \in Index |-> ZeroEntry]]
    /\ level' = [level EXCEPT ![nalloc] = l]
    /\ nalloc' = nalloc + 1

\* No frame is left, or mmap fails (after nalloc++): the process exits.
OutOfMemory ==
    /\ pc' = "exit"
    /\ \/ nalloc = NPAGES /\ UNCHANGED nalloc
       \/ nalloc < NPAGES /\ nalloc' = nalloc + 1
    /\ UNCHANGED <<pages, roots, call, i, curr_pt, ret, level>>

\* SET_FRAME_N and SET_VALID on an entry: both only set bits.
SetEntry(e, bits) == [valid |-> TRUE, frame |-> e.frame \cup (bits \cap FrameBits)]

\* The caller allocates the root of a page table.
NewTable ==
    /\ pc = "idle"
    /\ Cardinality(roots) < MaxTables
    /\ \/ /\ alloc_page_frame(1, pages)
          /\ roots' = roots \cup {nalloc}
          /\ UNCHANGED <<pc, call, i, curr_pt, ret>>
       \/ OutOfMemory

-----------------------------------------------------------------------------
\* Begin page_walk on behalf of the call c.
BeginWalk(c) ==
    /\ pc = "idle"
    /\ call' = c
    /\ i' = 1
    /\ curr_pt' = c.pt
    /\ pc' = IF 1 < TRIE_DEPTH THEN "walk" ELSE "leaf"
    /\ UNCHANGED <<pages, nalloc, roots, ret, level>>

page_table_update(pt, vpn, ppn) ==
    BeginWalk([op |-> "update", pt |-> pt, vpn |-> vpn, ppn |-> ppn,
               allocate |-> ppn # NO_MAPPING])

page_table_query(pt, vpn) ==
    BeginWalk([op |-> "query", pt |-> pt, vpn |-> vpn, ppn |-> NO_MAPPING,
               allocate |-> FALSE])

\* Mutation: page_walk goes one level too far.
Descend_TooFar(f) ==
    /\ curr_pt' = f
    /\ i' = i + 1
    /\ pc' = IF i + 1 <= TRIE_DEPTH THEN "walk" ELSE "leaf"
    /\ UNCHANGED <<roots, call, ret>>

\* The next iteration of page_walk, or its end, at page frame f.
Descend(f) ==
    /\ curr_pt' = f
    /\ i' = i + 1
    /\ pc' = IF i + 1 < TRIE_DEPTH THEN "walk" ELSE "leaf"
    /\ UNCHANGED <<roots, call, ret>>

\* The walk, or the call, is over.
Return == pc' = "idle" /\ call' = NULL /\ i' = 1 /\ curr_pt' = 0

curr_entry == pages[curr_pt][call.vpn[i]]

\* A valid entry leads to the next level.
WalkDown ==
    /\ pc = "walk" /\ curr_entry.valid
    /\ Descend(ToFrame[curr_entry.frame])
    /\ UNCHANGED <<pages, nalloc, level>>

\* page_walk returns NO_MAPPING: a query reports it, an unmap has nothing to do.
WalkMissing ==
    /\ pc = "walk" /\ ~curr_entry.valid /\ ~call.allocate
    /\ ret' = IF call.op = "query" THEN NO_MAPPING ELSE ret
    /\ Return
    /\ UNCHANGED <<pages, nalloc, roots, level>>

\* A missing node is allocated and linked.
WalkAllocate ==
    /\ pc = "walk" /\ ~curr_entry.valid /\ call.allocate
    /\ \/ /\ alloc_page_frame(i + 1, [pages EXCEPT ![curr_pt][call.vpn[i]] =
                                        SetEntry(@, ToBits[nalloc])])
          /\ Descend(nalloc)
       \/ OutOfMemory

\* Mutations: the old entry is not cleared; unmapping only clears the valid bit.
LeafUpdate_NoClear ==
    /\ pc = "leaf" /\ call.op = "update"
    /\ pages' = [pages EXCEPT ![curr_pt][call.vpn[TRIE_DEPTH]] =
                    IF call.allocate THEN SetEntry(@, call.ppn) ELSE ZeroEntry]
    /\ Return
    /\ UNCHANGED <<nalloc, roots, ret, level>>

LeafUpdate_ValidOnly ==
    /\ pc = "leaf" /\ call.op = "update"
    /\ pages' = [pages EXCEPT ![curr_pt][call.vpn[TRIE_DEPTH]] =
                    IF call.allocate THEN SetEntry(ZeroEntry, call.ppn)
                                     ELSE [@ EXCEPT !.valid = FALSE]]
    /\ Return
    /\ UNCHANGED <<nalloc, roots, ret, level>>

\* The entry of the last level is cleared, then set unless it was an unmap.
LeafUpdate ==
    /\ pc = "leaf" /\ call.op = "update"
    /\ pages' = [pages EXCEPT ![curr_pt][call.vpn[TRIE_DEPTH]] =
                    IF call.allocate THEN SetEntry(ZeroEntry, call.ppn) ELSE ZeroEntry]
    /\ Return
    /\ UNCHANGED <<nalloc, roots, ret, level>>

\* What the entry e of the last level says about its page.
LeafValue(e) == IF e.valid THEN e.frame ELSE NO_MAPPING

LeafQuery ==
    /\ pc = "leaf" /\ call.op = "query"
    /\ ret' = LeafValue(pages[curr_pt][call.vpn[TRIE_DEPTH]])
    /\ Return
    /\ UNCHANGED <<pages, nalloc, roots, level>>

Next == \/ NewTable
        \/ \E pt \in roots, vpn \in Vpns :
              \/ \E ppn \in Ppns \cup {NO_MAPPING} : page_table_update(pt, vpn, ppn)
              \/ page_table_query(pt, vpn)
        \/ WalkDown \/ WalkMissing \/ WalkAllocate
        \/ LeafUpdate \/ LeafQuery

Spec == Init /\ [][Next]_vars

-----------------------------------------------------------------------------
\* The types of the page frames and of the walk; no frame beyond NPAGES is handed
\* out.
TypeOK ==
    /\ pages \in [Frames -> [Index -> pt_entry] \cup {NULL}]
    /\ nalloc \in 0 .. NPAGES
    /\ roots \subseteq Frames
    /\ pc \in {"idle", "walk", "leaf", "exit"}
    /\ call \in Calls \cup {NULL}
    /\ i \in 1 .. TRIE_DEPTH
    /\ curr_pt \in Frames \cup {0}
    /\ ret \in (SUBSET FrameBits) \cup {NO_MAPPING}
    /\ level \in [Frames -> 0 .. TRIE_DEPTH]

\* Frames that hold a node above the last level, and the links in them.
Inner == {n \in Frames : pages[n] # NULL /\ level[n] \in 1 .. TRIE_DEPTH - 1}
Links == {l \in Inner \X Index : pages[l[1]][l[2]].valid}
Target(l) == pages[l[1]][l[2]].frame

\* Page tables are trees and share nothing: no two entries, of one page table
\* or of two, lead to the same frame, none leads to a root, and each leads one
\* level down to a frame that exists (phys_to_virt never sees another).
NoSharing ==
    /\ \A l, k \in Links : Target(l) = Target(k) => l = k
    /\ \A l \in Links :
          \E n \in Frames \ roots : /\ ToBits[n] = Target(l)
                                    /\ pages[n] # NULL
                                    /\ level[n] = level[l[1]] + 1

\* SET_FRAME_N can only add bits to an entry: every entry that is not valid is
\* zero, also after its page was unmapped (line 66).
InvalidIsZero ==
    \A n \in Frames : pages[n] # NULL =>
        \A x \in Index : ~pages[n][x].valid => pages[n][x] = ZeroEntry

-----------------------------------------------------------------------------
\* The node an entry x of node n leads to, and the page it says, if any.
Child(n, x) ==
    IF n = NULL THEN NULL
    ELSE IF pages[n][x].valid THEN ToFrame[pages[n][x].frame] ELSE NULL
PageAt(n, x) == IF n = NULL THEN NO_MAPPING ELSE LeafValue(pages[n][x])

\* The last node on the path of vpn from root r.
LastNode(r, vpn) ==
    LET node[d \in 1 .. TRIE_DEPTH] ==
          IF d = 1 THEN r ELSE Child(node[d - 1], vpn[d - 1])
    IN  node[TRIE_DEPTH]

Mapping(r, vpn) ==
    IF r \in roots THEN PageAt(LastNode(r, vpn), vpn[TRIE_DEPTH]) ELSE NO_MAPPING

Abstract == INSTANCE AddressMap WITH
    Roots <- Frames,
    map <- [r \in Frames |-> [v \in Vpns |-> Mapping(r, v)]]

\* The tries implement independent maps: an update gives its page in its table
\* the requested page number when it returns, and changes no other; a walk that
\* allocates nodes or ends for want of memory changes none; and a query returns
\* the page number last mapped.
ImplementsMap == Abstract!Spec

=============================================================================
