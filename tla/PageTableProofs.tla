-------------------------- MODULE PageTableProofs --------------------------
(***************************************************************************)
(* Proofs about PageTable, for every depth, node width and memory size:    *)
(* page tables are disjoint trees, entries that are not valid are zero,    *)
(* and page_walk meets only frames of its own level.                       *)
(***************************************************************************)
EXTENDS PageTable, TLAPS

-----------------------------------------------------------------------------
(***************************************************************************)
(* The inductive invariant.                                                *)
(***************************************************************************)
Allocated(n) == n \in Frames /\ pages[n] # NULL

\* Frames are handed out in order; those of callers' roots are at level 1.
FramesInv ==
    /\ \A n \in Frames : pages[n] # NULL => n < nalloc
    /\ \A r \in roots : Allocated(r) /\ level[r] = 1

\* page_walk is at a node of level i, the last one when it is over.
WalkInv ==
    /\ pc \in {"walk", "leaf"} => call \in Calls /\ Allocated(curr_pt) /\ level[curr_pt] = i
    /\ pc = "walk" => i < TRIE_DEPTH
    /\ pc = "leaf" => i = TRIE_DEPTH

TrieInv == TypeOK /\ FramesInv /\ WalkInv /\ NoSharing /\ InvalidIsZero

-----------------------------------------------------------------------------
(***************************************************************************)
(* Frame numbers and entries.                                              *)
(***************************************************************************)
\* SET_FRAME_N and GET_FRAME_N of a page frame number: nothing is lost.
LEMMA FrameBitsBack ==
    ASSUME NEW n \in Frames
    PROVE  ToBits[n] \in SUBSET FrameBits /\ ToFrame[ToBits[n]] = n
<1>1. ToBits[n] \in SUBSET FrameBits
  BY DEF ToBits
<1>2. ToFrame[ToBits[n]] = CHOOSE m \in Frames : ToBits[m] = ToBits[n]
  BY DEF ToFrame
<1>3. \A m \in Frames : ToBits[m] = ToBits[n] => m = n
  BY PageTableAssumption
<1> QED
  BY <1>1, <1>2, <1>3

\* An entry that was set is an entry.
LEMMA SetEntryType ==
    ASSUME NEW e \in pt_entry, NEW bits
    PROVE  SetEntry(e, bits) \in pt_entry
BY DEF SetEntry, pt_entry

\* Setting a zero entry stores the bits, and nothing else.
LEMMA SetEntryZero ==
    ASSUME NEW bits \in SUBSET FrameBits
    PROVE  SetEntry(ZeroEntry, bits) = [valid |-> TRUE, frame |-> bits]
BY DEF SetEntry, ZeroEntry

\* A fresh frame has entries, all zero.
LEMMA ZeroPage ==
    LET z == [x \in Index |-> ZeroEntry]
    IN  z \in [Index -> pt_entry] /\ z # NULL
<1>1. ZeroEntry \in pt_entry
  BY DEF ZeroEntry, pt_entry
<1> QED
  BY <1>1, PageTableAssumption

\* page_walk reads an entry of an allocated frame.
LEMMA CurrEntry ==
    ASSUME TypeOK, WalkInv, pc \in {"walk", "leaf"}
    PROVE  /\ call \in Calls /\ curr_pt \in Frames /\ i \in 1 .. TRIE_DEPTH
           /\ pages[curr_pt] \in [Index -> pt_entry]
           /\ call.vpn[i] \in Index /\ curr_entry \in pt_entry
<1>1. call \in Calls /\ curr_pt \in Frames /\ pages[curr_pt] # NULL
  BY DEF WalkInv, Allocated
<1>2. pages[curr_pt] \in [Index -> pt_entry]
  BY <1>1 DEF TypeOK
<1>3. i \in 1 .. TRIE_DEPTH
  BY DEF TypeOK
<1>4. call.vpn \in Vpns
  BY <1>1 DEF Calls
<1>5. call.vpn[i] \in Index
  BY <1>3, <1>4, PageTableAssumption
<1> QED
  BY <1>1, <1>2, <1>3, <1>5 DEF curr_entry

\* A valid entry that page_walk meets leads to an allocated frame, one level down.
LEMMA ValidEntry ==
    ASSUME TypeOK, WalkInv, NoSharing, pc = "walk", curr_entry.valid
    PROVE  LET n == ToFrame[curr_entry.frame]
           IN  Allocated(n) /\ level[n] = i + 1
<1>1. /\ call \in Calls /\ curr_pt \in Frames /\ call.vpn[i] \in Index
      /\ i \in 1 .. TRIE_DEPTH - 1 /\ level[curr_pt] = i /\ pages[curr_pt] # NULL
  BY CurrEntry, PageTableAssumption DEF WalkInv, TypeOK, Allocated
<1> DEFINE l == <<curr_pt, call.vpn[i]>>
<1>2. l \in Links /\ Target(l) = curr_entry.frame
  BY <1>1 DEF Links, Inner, Target, curr_entry
<1>3. PICK n \in Frames : ToBits[n] = curr_entry.frame /\ pages[n] # NULL /\ level[n] = i + 1
  BY <1>1, <1>2 DEF NoSharing
<1> QED
  BY <1>3, FrameBitsBack DEF Allocated

-----------------------------------------------------------------------------
(***************************************************************************)
(* The types.                                                              *)
(***************************************************************************)
\* A process that exits for want of memory leaves the frames alone.
LEMMA OutOfMemoryType ==
    ASSUME TypeOK, OutOfMemory
    PROVE  TypeOK'
<1>1. nalloc' \in 0 .. NPAGES
  BY PageTableAssumption DEF TypeOK, OutOfMemory
<1> QED
  BY <1>1 DEF TypeOK, OutOfMemory

\* A frame that is handed out is one of the machine's, and was free.
LEMMA AllocType ==
    ASSUME TypeOK, NEW l \in 1 .. TRIE_DEPTH,
           NEW p \in [Frames -> [Index -> pt_entry] \cup {NULL}], alloc_page_frame(l, p)
    PROVE  /\ nalloc \in Frames /\ nalloc' \in 0 .. NPAGES
           /\ pages' \in [Frames -> [Index -> pt_entry] \cup {NULL}]
           /\ level' \in [Frames -> 0 .. TRIE_DEPTH]
<1>1. nalloc \in Frames /\ nalloc' \in 0 .. NPAGES
  BY PageTableAssumption DEF alloc_page_frame, TypeOK, Frames
<1>2. pages' \in [Frames -> [Index -> pt_entry] \cup {NULL}]
  BY <1>1, ZeroPage DEF alloc_page_frame
<1>3. l \in 0 .. TRIE_DEPTH
  BY PageTableAssumption
<1> QED
  BY <1>1, <1>2, <1>3 DEF alloc_page_frame, TypeOK

\* The memory after a missing node was linked.
LEMMA LinkType ==
    ASSUME TypeOK, WalkInv, pc \in {"walk", "leaf"}, NEW x \in Index, NEW e \in pt_entry
    PROVE  [pages EXCEPT ![curr_pt][x] = e] \in [Frames -> [Index -> pt_entry] \cup {NULL}]
<1>1. curr_pt \in Frames /\ pages[curr_pt] \in [Index -> pt_entry]
  BY CurrEntry
<1>2. [pages[curr_pt] EXCEPT ![x] = e] \in [Index -> pt_entry]
  BY <1>1
<1> QED
  BY <1>1, <1>2 DEF TypeOK

-----------------------------------------------------------------------------
(***************************************************************************)
(* One lemma per action: it preserves the invariant.                       *)
(***************************************************************************)
\* Steps that leave the memory and the tables alone keep the trees.
LEMMA TreesUnchanged ==
    ASSUME NoSharing, InvalidIsZero, UNCHANGED <<pages, level, roots>>
    PROVE  NoSharing' /\ InvalidIsZero'
BY DEF NoSharing, InvalidIsZero, Links, Inner, Target

\* The process exits: its memory stays as it is.
LEMMA OutOfMemoryStep ==
    ASSUME TrieInv, OutOfMemory
    PROVE  TrieInv'
<1>1. TypeOK'
  BY OutOfMemoryType DEF TrieInv
<1>2. nalloc <= nalloc'
  BY PageTableAssumption DEF TrieInv, TypeOK, OutOfMemory
<1>3. FramesInv'
  <2>1. \A n \in Frames : pages'[n] # NULL => n < nalloc'
    BY <1>1, <1>2 DEF TrieInv, TypeOK, OutOfMemory, FramesInv, Frames
  <2> QED
    BY <2>1 DEF TrieInv, OutOfMemory, FramesInv, Allocated
<1>4. WalkInv'
  BY DEF OutOfMemory, WalkInv
<1> QED
  BY <1>1, <1>3, <1>4, TreesUnchanged DEF TrieInv, OutOfMemory

\* A new root has no links, and no entry leads to it.
LEMMA NewTableStep ==
    ASSUME TrieInv, NewTable
    PROVE  TrieInv'
<1>1. CASE OutOfMemory
  BY <1>1, OutOfMemoryStep
<1>2. CASE /\ alloc_page_frame(1, pages)
           /\ roots' = roots \cup {nalloc}
           /\ UNCHANGED <<pc, call, i, curr_pt, ret>>
  <2>1. /\ nalloc \in Frames /\ nalloc' \in 0 .. NPAGES
        /\ pages' \in [Frames -> [Index -> pt_entry] \cup {NULL}]
        /\ level' \in [Frames -> 0 .. TRIE_DEPTH]
    BY <1>2, AllocType, PageTableAssumption DEF TrieInv, TypeOK
  <2>2. TypeOK'
    BY <1>2, <2>1 DEF TrieInv, TypeOK
  <2>3. /\ nalloc' = nalloc + 1 /\ pages[nalloc] = NULL
        /\ pages'[nalloc] = [x \in Index |-> ZeroEntry] /\ level'[nalloc] = 1
        /\ \A n \in Frames : n # nalloc => pages'[n] = pages[n] /\ level'[n] = level[n]
    BY <1>2, <2>1 DEF alloc_page_frame, TrieInv, TypeOK, FramesInv, Frames
  <2>4. FramesInv'
    <3>1. \A n \in Frames : pages'[n] # NULL => n < nalloc'
      BY <2>1, <2>3 DEF TrieInv, FramesInv, Frames
    <3>2. pages'[nalloc] # NULL
      BY <2>3, ZeroPage
    <3>3. \A r \in roots : Allocated(r)' /\ level'[r] = 1
      BY <2>3 DEF TrieInv, FramesInv, Allocated
    <3> QED
      BY <1>2, <2>1, <2>3, <3>1, <3>2, <3>3 DEF FramesInv, Allocated
  <2>5. WalkInv'
    BY <1>2 DEF NewTable, WalkInv
  <2>6. /\ Links' = Links
        /\ \A l \in Links : l[1] \in Frames /\ l[1] # nalloc /\ Target(l)' = Target(l)
    <3>1. \A x \in Index : ~pages'[nalloc][x].valid
      BY <2>3 DEF ZeroEntry
    <3> QED
      BY <2>3, <3>1 DEF Links, Inner, Target
  <2>7. NoSharing'
    BY <1>2, <2>3, <2>6 DEF TrieInv, NoSharing
  <2>8. InvalidIsZero'
    BY <2>3 DEF TrieInv, InvalidIsZero
  <2> QED
    BY <2>2, <2>4, <2>5, <2>7, <2>8 DEF TrieInv
<1> QED
  BY <1>1, <1>2 DEF NewTable

\* A call begins at the root of its table, at level 1.
LEMMA BeginWalkStep ==
    ASSUME TrieInv, NEW c \in Calls, c.pt \in roots, BeginWalk(c)
    PROVE  TrieInv'
<1>1. c.pt \in Frames /\ pages[c.pt] # NULL /\ level[c.pt] = 1
  BY DEF TrieInv, FramesInv, Allocated
<1>2. TypeOK'
  BY <1>1, PageTableAssumption DEF TrieInv, TypeOK, BeginWalk
<1>3. WalkInv'
  BY <1>1, PageTableAssumption DEF BeginWalk, WalkInv, Allocated
<1>4. FramesInv'
  BY DEF TrieInv, FramesInv, Allocated, BeginWalk
<1> QED
  BY <1>2, <1>3, <1>4, TreesUnchanged DEF TrieInv, BeginWalk

\* Following a valid entry.
LEMMA WalkDownStep ==
    ASSUME TrieInv, WalkDown
    PROVE  TrieInv'
<1> DEFINE n == ToFrame[curr_entry.frame]
<1>1. n \in Frames /\ pages[n] # NULL /\ level[n] = i + 1
  BY ValidEntry DEF TrieInv, WalkDown, Allocated
<1>2. i \in 1 .. TRIE_DEPTH - 1 /\ call \in Calls
  BY PageTableAssumption DEF TrieInv, TypeOK, WalkInv, WalkDown
<1> HIDE DEF n
<1>3. /\ curr_pt' = n /\ i' = i + 1 /\ pc' = (IF i + 1 < TRIE_DEPTH THEN "walk" ELSE "leaf")
      /\ UNCHANGED <<roots, call, ret, pages, nalloc, level>>
  BY DEF WalkDown, Descend, n
<1>4. TypeOK'
  BY <1>1, <1>2, <1>3, PageTableAssumption DEF TrieInv, TypeOK
<1>5. WalkInv'
  BY <1>1, <1>2, <1>3, PageTableAssumption DEF WalkInv, Allocated
<1>6. FramesInv'
  BY <1>3 DEF TrieInv, FramesInv, Allocated
<1> QED
  BY <1>3, <1>4, <1>5, <1>6, TreesUnchanged DEF TrieInv

\* A call that ends without a change of the memory.
LEMMA ReturnStep ==
    ASSUME TrieInv, Return, UNCHANGED <<pages, nalloc, roots, level>>,
           ret' \in (SUBSET FrameBits) \cup {NO_MAPPING}
    PROVE  TrieInv'
<1>1. TypeOK'
  BY PageTableAssumption DEF TrieInv, TypeOK, Return
<1>2. WalkInv'
  BY DEF Return, WalkInv
<1>3. FramesInv'
  BY DEF TrieInv, FramesInv, Allocated
<1> QED
  BY <1>1, <1>2, <1>3, TreesUnchanged DEF TrieInv

\* What linking a missing node does to the memory: the entry that was or-ed had no
\* bits, and the frame is fresh.
LEMMA WalkAllocateEffect ==
    ASSUME TrieInv, WalkAllocate, ~OutOfMemory
    PROVE  /\ call \in Calls /\ curr_pt \in Frames /\ pages[curr_pt] \in [Index -> pt_entry]
           /\ call.vpn[i] \in Index /\ ~pages[curr_pt][call.vpn[i]].valid
           /\ i \in 1 .. TRIE_DEPTH - 1 /\ level[curr_pt] = i /\ pages[curr_pt] # NULL
           /\ nalloc \in Frames /\ nalloc' \in 0 .. NPAGES /\ nalloc' = nalloc + 1
           /\ pages[nalloc] = NULL /\ nalloc # curr_pt
           /\ pages' \in [Frames -> [Index -> pt_entry] \cup {NULL}]
           /\ level' \in [Frames -> 0 .. TRIE_DEPTH]
           /\ pages'[nalloc] = [y \in Index |-> ZeroEntry] /\ level'[nalloc] = i + 1
           /\ pages'[curr_pt] = [pages[curr_pt] EXCEPT ![call.vpn[i]] =
                                    [valid |-> TRUE, frame |-> ToBits[nalloc]]]
           /\ level'[curr_pt] = i
           /\ \A n \in Frames \ {nalloc, curr_pt} : pages'[n] = pages[n] /\ level'[n] = level[n]
           /\ curr_pt' = nalloc /\ i' = i + 1
           /\ pc' = (IF i + 1 < TRIE_DEPTH THEN "walk" ELSE "leaf")
           /\ UNCHANGED <<roots, call, ret>>
           /\ pages'[nalloc] # NULL /\ pages'[curr_pt] # NULL
<1> DEFINE x == call.vpn[i]
           e == SetEntry(curr_entry, ToBits[nalloc])
           p == [pages EXCEPT ![curr_pt][x] = e]
<1>0. alloc_page_frame(i + 1, p) /\ Descend(nalloc)
  BY DEF WalkAllocate, curr_entry
<1>1. /\ call \in Calls /\ curr_pt \in Frames /\ pages[curr_pt] \in [Index -> pt_entry]
      /\ x \in Index /\ curr_entry \in pt_entry /\ ~curr_entry.valid
      /\ i \in 1 .. TRIE_DEPTH - 1 /\ level[curr_pt] = i /\ pages[curr_pt] # NULL
  BY CurrEntry, PageTableAssumption DEF TrieInv, WalkAllocate, TypeOK, WalkInv, Allocated
<1>2. e \in pt_entry /\ p \in [Frames -> [Index -> pt_entry] \cup {NULL}]
  BY <1>1, SetEntryType, LinkType DEF TrieInv, WalkAllocate
<1>3. /\ nalloc \in Frames /\ nalloc' \in 0 .. NPAGES
      /\ pages' \in [Frames -> [Index -> pt_entry] \cup {NULL}]
      /\ level' \in [Frames -> 0 .. TRIE_DEPTH]
  <2> HIDE DEF p
  <2>1. i + 1 \in 1 .. TRIE_DEPTH
    BY <1>1, PageTableAssumption
  <2> QED
    BY <1>0, <1>2, <2>1, AllocType DEF TrieInv
<1>4. e = [valid |-> TRUE, frame |-> ToBits[nalloc]]
  <2>1. curr_entry = ZeroEntry
    BY <1>1 DEF TrieInv, InvalidIsZero, curr_entry
  <2> QED
    BY <2>1, <1>3, SetEntryZero, FrameBitsBack
<1>5. pages[nalloc] = NULL /\ nalloc # curr_pt
  BY <1>1, <1>3 DEF TrieInv, TypeOK, FramesInv, Frames
<1>6. /\ nalloc' = nalloc + 1
      /\ pages'[nalloc] = [y \in Index |-> ZeroEntry] /\ level'[nalloc] = i + 1
      /\ pages'[curr_pt] = [pages[curr_pt] EXCEPT ![x] = e] /\ level'[curr_pt] = i
      /\ \A n \in Frames \ {nalloc, curr_pt} : pages'[n] = pages[n] /\ level'[n] = level[n]
  BY <1>0, <1>1, <1>2, <1>3, <1>5 DEF alloc_page_frame, TrieInv, TypeOK
<1>7. /\ curr_pt' = nalloc /\ i' = i + 1
      /\ pc' = (IF i + 1 < TRIE_DEPTH THEN "walk" ELSE "leaf")
      /\ UNCHANGED <<roots, call, ret>>
  BY <1>0 DEF Descend
<1>8. ~pages[curr_pt][x].valid
  BY <1>1 DEF curr_entry
<1> HIDE DEF e, p
<1>9. pages'[nalloc] # NULL /\ pages'[curr_pt] # NULL
  BY <1>1, <1>2, <1>6, ZeroPage, PageTableAssumption
<1> QED
  BY <1>1, <1>3, <1>4, <1>5, <1>6, <1>7, <1>8, <1>9

\* A missing node is linked: nothing else leads to the fresh frame, which is one
\* level below the entry.
LEMMA WalkAllocateStep ==
    ASSUME TrieInv, WalkAllocate
    PROVE  TrieInv'
<1>1. CASE OutOfMemory
  BY <1>1, OutOfMemoryStep
<1> DEFINE x == call.vpn[i]
           e == [valid |-> TRUE, frame |-> ToBits[nalloc]]
<1>2. CASE ~OutOfMemory
  <2>1. /\ call \in Calls /\ curr_pt \in Frames /\ pages[curr_pt] \in [Index -> pt_entry]
        /\ x \in Index /\ ~pages[curr_pt][x].valid
        /\ i \in 1 .. TRIE_DEPTH - 1 /\ level[curr_pt] = i /\ pages[curr_pt] # NULL
    BY <1>2, WalkAllocateEffect
  <2>3. /\ nalloc \in Frames /\ nalloc' \in 0 .. NPAGES
        /\ pages' \in [Frames -> [Index -> pt_entry] \cup {NULL}]
        /\ level' \in [Frames -> 0 .. TRIE_DEPTH]
    BY <1>2, WalkAllocateEffect
  <2>4. e.valid /\ e.frame = ToBits[nalloc]
    OBVIOUS
  <2>5. pages[nalloc] = NULL /\ nalloc # curr_pt
    BY <1>2, WalkAllocateEffect
  <2>6. /\ nalloc' = nalloc + 1
        /\ pages'[nalloc] = [y \in Index |-> ZeroEntry] /\ level'[nalloc] = i + 1
        /\ pages'[curr_pt] = [pages[curr_pt] EXCEPT ![x] = e] /\ level'[curr_pt] = i
        /\ \A n \in Frames \ {nalloc, curr_pt} : pages'[n] = pages[n] /\ level'[n] = level[n]
    BY <1>2, WalkAllocateEffect
  <2>7. /\ curr_pt' = nalloc /\ i' = i + 1
        /\ pc' = (IF i + 1 < TRIE_DEPTH THEN "walk" ELSE "leaf")
        /\ UNCHANGED <<roots, call, ret>>
    BY <1>2, WalkAllocateEffect
  <2>9. pages'[nalloc] # NULL /\ pages'[curr_pt] # NULL
    BY <1>2, WalkAllocateEffect
  <2> HIDE DEF x, e
  <2>8. TypeOK'
    BY <2>1, <2>3, <2>7, PageTableAssumption DEF TrieInv, TypeOK
  <2>10. FramesInv'
    <3>1. \A n \in Frames : pages'[n] # NULL => n < nalloc'
      BY <2>1, <2>3, <2>6, <2>9 DEF TrieInv, FramesInv, Frames
    <3>2. \A r \in roots : Allocated(r)' /\ level'[r] = 1
      BY <2>1, <2>5, <2>6, <2>9 DEF TrieInv, FramesInv, Allocated
    <3> QED
      BY <2>7, <3>1, <3>2 DEF FramesInv
  <2>11. WalkInv'
    BY <2>1, <2>3, <2>6, <2>7, <2>9, PageTableAssumption DEF WalkInv, Allocated
  <2>12. InvalidIsZero'
    <3>1. \A y \in Index : ~pages'[curr_pt][y].valid => pages'[curr_pt][y] = ZeroEntry
      <4>1. pages'[curr_pt][x] = e /\ e.valid
        BY <2>1, <2>4, <2>6
      <4>2. \A y \in Index : y # x => pages'[curr_pt][y] = pages[curr_pt][y]
        BY <2>1, <2>6
      <4>3. \A y \in Index : ~pages[curr_pt][y].valid => pages[curr_pt][y] = ZeroEntry
        BY <2>1 DEF TrieInv, InvalidIsZero
      <4> QED
        BY <4>1, <4>2, <4>3
    <3>2. \A y \in Index : pages'[nalloc][y] = ZeroEntry
      BY <2>6
    <3>3. ASSUME NEW n \in Frames \ {nalloc, curr_pt}, pages'[n] # NULL, NEW y \in Index,
                 ~pages'[n][y].valid
          PROVE  pages'[n][y] = ZeroEntry
      <4>1. pages'[n] = pages[n]
        BY <2>6
      <4>2. pages[n] # NULL /\ ~pages[n][y].valid
        BY <3>3, <4>1
      <4> QED
        BY <4>1, <4>2 DEF TrieInv, InvalidIsZero
    <3> QED
      BY <3>1, <3>2, <3>3 DEF InvalidIsZero
  <2> PICK k : k = <<curr_pt, x>>
    OBVIOUS
  <2>13. /\ Links' = Links \cup {k} /\ k \notin Links
         /\ pages'[curr_pt][x].frame = ToBits[nalloc]
         /\ \A l \in Links : Target(l)' = Target(l) /\ level'[l[1]] = level[l[1]]
    <3>1. \A y \in Index : ~pages'[nalloc][y].valid
      BY <2>6 DEF ZeroEntry
    <3>2. pages'[curr_pt][x].valid /\ \A y \in Index : y # x => pages'[curr_pt][y] = pages[curr_pt][y]
      BY <2>1, <2>4, <2>6
    <3>3. ~pages[curr_pt][x].valid
      BY <2>1 DEF curr_entry, x
    <3>4. \A n \in Frames, y \in Index :
            <<n, y>> \in Links' <=> <<n, y>> \in Links \/ (n = curr_pt /\ y = x)
      <4> SUFFICES ASSUME NEW n \in Frames, NEW y \in Index
                   PROVE  <<n, y>> \in Links' <=> <<n, y>> \in Links \/ (n = curr_pt /\ y = x)
        OBVIOUS
      <4>1. CASE n = nalloc
        BY <4>1, <3>1, <2>5 DEF Links, Inner
      <4>2. CASE n = curr_pt
        BY <4>2, <3>2, <2>1, <2>6, <2>9 DEF Links, Inner
      <4>3. CASE n \notin {nalloc, curr_pt}
        BY <4>3, <2>6 DEF Links, Inner
      <4> QED
        BY <4>1, <4>2, <4>3
    <3>5. k \notin Links /\ k \in Links'
      BY <2>1, <3>3, <3>4 DEF Links
    <3>6. Links' = Links \cup {k}
      BY <3>4, <3>5 DEF Links, Inner
    <3>7. pages'[curr_pt][x].frame = ToBits[nalloc]
      BY <2>1, <2>4, <2>6
    <3>8. ASSUME NEW l \in Links PROVE Target(l)' = Target(l) /\ level'[l[1]] = level[l[1]]
      <4>1. l[1] \in Frames /\ l[2] \in Index /\ l = <<l[1], l[2]>> /\ l[1] # nalloc
        BY <2>5 DEF Links, Inner
      <4>2. CASE l[1] = curr_pt
        <5>1. l[2] # x
          BY <4>1, <4>2, <3>5
        <5> QED
          BY <4>1, <4>2, <5>1, <3>2, <2>1, <2>6 DEF Target
      <4>3. CASE l[1] # curr_pt
        BY <4>1, <4>3, <2>6 DEF Target
      <4> QED
        BY <4>2, <4>3
    <3> QED
      BY <3>5, <3>6, <3>7, <3>8
  <2>14. NoSharing'
    <3>1. Target(k)' = ToBits[nalloc]
      <4>1. k[1] = curr_pt /\ k[2] = x
        OBVIOUS
      <4>2. Target(k)' = pages'[k[1]][k[2]].frame
        BY DEF Target
      <4> QED
        BY <2>13, <4>1, <4>2
    <3>2. \A l \in Links : \E n \in Frames \ roots :
             ToBits[n] = Target(l) /\ pages[n] # NULL /\ level[n] = level[l[1]] + 1
      BY DEF TrieInv, NoSharing
    <3>3. \A l \in Links : Target(l)' # ToBits[nalloc]
      <4> SUFFICES ASSUME NEW l \in Links PROVE Target(l) # ToBits[nalloc]
        BY <2>13
      <4>1. PICK n \in Frames : ToBits[n] = Target(l) /\ pages[n] # NULL
        BY <3>2
      <4> QED
        BY <2>3, <2>5, <4>1, PageTableAssumption
    <3>4. \A l, m \in Links' : Target(l)' = Target(m)' => l = m
      BY <2>13, <3>1, <3>3 DEF TrieInv, NoSharing
    <3>5. \A n \in Frames : pages[n] # NULL => pages'[n] # NULL /\ level'[n] = level[n]
      BY <2>1, <2>5, <2>6, <2>9
    <3>6. ASSUME NEW l \in Links
          PROVE  \E n \in Frames \ roots' :
                    ToBits[n] = Target(l)' /\ pages'[n] # NULL /\ level'[n] = level'[l[1]] + 1
      BY <2>7, <2>13, <3>2, <3>5
    <3>7. nalloc \notin roots
      BY <2>5 DEF TrieInv, FramesInv, Allocated
    <3>8. /\ nalloc \in Frames \ roots' /\ ToBits[nalloc] = Target(k)' /\ pages'[nalloc] # NULL
          /\ level'[nalloc] = level'[k[1]] + 1
      BY <2>3, <2>6, <2>7, <2>9, <3>1, <3>7
    <3> QED
      BY <2>13, <3>4, <3>6, <3>8 DEF NoSharing
  <2> QED
    BY <2>8, <2>10, <2>11, <2>12, <2>14 DEF TrieInv
<1> QED
  BY <1>1, <1>2

\* The entry of the last level holds no link; it is zero or valid.
LEMMA LeafUpdateStep ==
    ASSUME TrieInv, LeafUpdate
    PROVE  TrieInv'
<1> DEFINE x == call.vpn[TRIE_DEPTH]
           e == IF call.allocate THEN SetEntry(ZeroEntry, call.ppn) ELSE ZeroEntry
<1>1. /\ curr_pt \in Frames /\ pages[curr_pt] \in [Index -> pt_entry] /\ pages[curr_pt] # NULL
      /\ x \in Index /\ level[curr_pt] = TRIE_DEPTH
  BY CurrEntry DEF TrieInv, LeafUpdate, WalkInv, Allocated
<1>2. e \in pt_entry /\ (~e.valid => e = ZeroEntry)
  <2>1. ZeroEntry \in pt_entry /\ SetEntry(ZeroEntry, call.ppn).valid
    BY DEF ZeroEntry, pt_entry, SetEntry
  <2> QED
    BY <2>1, SetEntryType
<1> HIDE DEF x, e
<1>3. pages' = [pages EXCEPT ![curr_pt][x] = e] /\ UNCHANGED <<nalloc, roots, ret, level>> /\ Return
  BY DEF LeafUpdate, x, e
<1>4. pages' \in [Frames -> [Index -> pt_entry] \cup {NULL}]
  <2>1. TypeOK /\ WalkInv /\ pc = "leaf"
    BY DEF TrieInv, LeafUpdate
  <2> QED
    BY <1>1, <1>2, <1>3, <2>1, LinkType
<1>5. /\ pages'[curr_pt] = [pages[curr_pt] EXCEPT ![x] = e]
      /\ \A n \in Frames : n # curr_pt => pages'[n] = pages[n]
  BY <1>1, <1>3 DEF TrieInv, TypeOK
<1>6. pages'[curr_pt] # NULL
  BY <1>1, <1>2, <1>5, PageTableAssumption
<1>7. TypeOK'
  BY <1>3, <1>4, PageTableAssumption DEF TrieInv, TypeOK, Return
<1>8. FramesInv' /\ WalkInv'
  BY <1>1, <1>3, <1>5, <1>6 DEF TrieInv, FramesInv, WalkInv, Allocated, Return
<1>9. InvalidIsZero'
  BY <1>1, <1>2, <1>5 DEF TrieInv, InvalidIsZero
<1>10. /\ curr_pt \notin Inner /\ Inner' = Inner
       /\ \A n \in Inner : n \in Frames /\ pages'[n] = pages[n]
  BY <1>1, <1>3, <1>5, <1>6, PageTableAssumption DEF Inner
<1>11. Links' = Links /\ \A l \in Links : Target(l)' = Target(l)
  BY <1>10 DEF Links, Target
<1>12. NoSharing'
  BY <1>1, <1>3, <1>5, <1>6, <1>11 DEF TrieInv, NoSharing
<1> QED
  BY <1>7, <1>8, <1>9, <1>12 DEF TrieInv

\* Every step keeps the shape of the tries.
LEMMA TrieStep == TrieInv /\ [Next]_vars => TrieInv'
<1> SUFFICES ASSUME TrieInv, [Next]_vars PROVE TrieInv'
  OBVIOUS
<1>1. CASE NewTable
  BY <1>1, NewTableStep
<1>2. ASSUME NEW pt \in roots, NEW vpn \in Vpns, NEW ppn \in Ppns \cup {NO_MAPPING},
             page_table_update(pt, vpn, ppn)
      PROVE  TrieInv'
  <2>1. pt \in Frames
    BY DEF TrieInv, TypeOK
  <2> QED
    BY <1>2, <2>1, BeginWalkStep DEF page_table_update, Calls
<1>3. ASSUME NEW pt \in roots, NEW vpn \in Vpns, page_table_query(pt, vpn)
      PROVE  TrieInv'
  <2>1. pt \in Frames
    BY DEF TrieInv, TypeOK
  <2> QED
    BY <1>3, <2>1, BeginWalkStep DEF page_table_query, Calls
<1>4. CASE WalkDown
  BY <1>4, WalkDownStep
<1>5. CASE WalkMissing
  BY <1>5, ReturnStep DEF WalkMissing, TrieInv, TypeOK
<1>6. CASE WalkAllocate
  BY <1>6, WalkAllocateStep
<1>7. CASE LeafUpdate
  BY <1>7, LeafUpdateStep
<1>8. CASE LeafQuery
  <2>1. pages[curr_pt][call.vpn[TRIE_DEPTH]] \in pt_entry
    BY <1>8, CurrEntry DEF LeafQuery, TrieInv, WalkInv
  <2>2. ret' \in (SUBSET FrameBits) \cup {NO_MAPPING}
    BY <1>8, <2>1 DEF LeafQuery, LeafValue, pt_entry
  <2> QED
    BY <1>8, <2>2, ReturnStep DEF LeafQuery
<1>9. CASE UNCHANGED vars
  BY <1>9, TreesUnchanged DEF vars, TrieInv, TypeOK, FramesInv, WalkInv, Allocated
<1> QED
  BY <1>1, <1>2, <1>3, <1>4, <1>5, <1>6, <1>7, <1>8, <1>9 DEF Next

-----------------------------------------------------------------------------
(***************************************************************************)
(* The theorems.                                                           *)
(***************************************************************************)
LEMMA TrieAlways == Spec => []TrieInv
<1>1. Init => TrieInv
  <2> SUFFICES ASSUME Init PROVE TrieInv
    OBVIOUS
  <2>1. TypeOK
    BY PageTableAssumption DEF Init, TypeOK
  <2>2. \A n \in Frames : pages[n] = NULL
    BY DEF Init
  <2>3. Links = {}
    BY <2>2 DEF Links, Inner
  <2> QED
    BY <2>1, <2>2, <2>3 DEF Init, TrieInv, FramesInv, WalkInv, NoSharing, InvalidIsZero
<1> QED
  BY <1>1, TrieStep, PTL DEF Spec

\* The page frames, the walk and its results keep their types; alloc_page_frame never
\* hands out more frames than the machine has.
THEOREM TypeCorrect == Spec => []TypeOK
<1>1. TrieInv => TypeOK
  BY DEF TrieInv
<1> QED
  BY <1>1, TrieAlways, PTL

\* Page tables are disjoint trees, whatever is mapped and unmapped in them: every
\* entry above the last level leads to a frame of its own, one level down.
THEOREM TablesDisjoint == Spec => []NoSharing
<1>1. TrieInv => NoSharing
  BY DEF TrieInv
<1> QED
  BY <1>1, TrieAlways, PTL

\* Every entry that is not valid is zero, so that SET_FRAME_N, which or-s, stores
\* the frame number it is given.
THEOREM ClearedEntries == Spec => []InvalidIsZero
<1>1. TrieInv => InvalidIsZero
  BY DEF TrieInv
<1> QED
  BY <1>1, TrieAlways, PTL
=============================================================================
