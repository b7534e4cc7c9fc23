------------------------- MODULE PageTableMapProofs -------------------------
(***************************************************************************)
(* The proof that PageTable implements AddressMap: the tries of pt.c are   *)
(* independent maps from virtual to physical page numbers.                 *)
(*                                                                         *)
(* The map of a table is what the path of a page from the root ends at.    *)
(* Facts about paths are proved by induction on the level, in the form of  *)
(* RangeInduction.                                                         *)
(***************************************************************************)
EXTENDS PageTableProofs, WellFoundedInduction

Levels == 1 .. TRIE_DEPTH

\* g lists the nodes, one per level, on the path of the virtual page v from root r.
IsPath(g, r, v) ==
    g = [d \in Levels |-> IF d = 1 THEN r ELSE Child(g[d - 1], v[d - 1])]

\* What a call in progress has reached: the node of level i on its own path.
CallInv ==
    /\ pc = "idle" => call = NULL
    /\ pc \in {"walk", "leaf"} =>
         /\ call.pt \in roots
         /\ call.op = "update" => (call.allocate <=> call.ppn # NO_MAPPING)
         /\ call.op = "query" => ~call.allocate
         /\ \E g : IsPath(g, call.pt, call.vpn) /\ g[i] = curr_pt

-----------------------------------------------------------------------------
(***************************************************************************)
(* Paths.                                                                  *)
(***************************************************************************)
\* Induction on the level: a set that holds 1, and d + 1 with d, holds every level.
LEMMA RangeInduction ==
    ASSUME NEW n \in Nat, NEW S, 1 \in S, \A d \in 1 .. n - 1 : d \in S => d + 1 \in S
    PROVE  1 .. n \subseteq S
<1> DEFINE R == {ss \in Nat \X Nat : ss[1] < ss[2]}
           C == (1 .. n) \ S
<1> SUFFICES ASSUME C # {} PROVE FALSE
  OBVIOUS
<1>1. PICK m \in C : \A k \in C : ~(<<k, m>> \in R)
  <2>1. C \subseteq Nat
    OBVIOUS
  <2>2. IsWellFoundedOn(R, Nat)
    BY NatLessThanWellFounded DEF OpToRel
  <2> QED
    BY <2>1, <2>2, WFMin
<1>2. m \in 1 .. n /\ m # 1
  OBVIOUS
<1>3. m - 1 \in 1 .. n - 1
  BY <1>2
<1>4. m - 1 \notin S
  BY <1>2, <1>3
<1>5. m - 1 \in C /\ <<m - 1, m>> \in R
  BY <1>2, <1>3, <1>4
<1> QED
  BY <1>1, <1>5

\* Every page has a path from every root.
LEMMA PathExists == \A r, v : \E g : IsPath(g, r, v)
<1> SUFFICES ASSUME NEW r, NEW v PROVE \E g : IsPath(g, r, v)
  OBVIOUS
<1> DEFINE To(m, g) == g = [d \in 1 .. m |-> IF d = 1 THEN r ELSE Child(g[d - 1], v[d - 1])]
           S == {m \in Nat : \E g : To(m, g)}
<1>1. 1 \in S
  <2>1. To(1, [d \in 1 .. 1 |-> r])
    OBVIOUS
  <2> QED
    BY <2>1
<1>2. ASSUME NEW m \in 1 .. TRIE_DEPTH - 1, m \in S PROVE m + 1 \in S
  <2>1. PICK g : To(m, g)
    BY <1>2
  <2> DEFINE h == [d \in 1 .. m + 1 |-> IF d = m + 1 THEN Child(g[m], v[m]) ELSE g[d]]
  <2>2. \A d \in 1 .. m + 1 : h[d] = IF d = 1 THEN r ELSE Child(h[d - 1], v[d - 1])
    <3> SUFFICES ASSUME NEW d \in 1 .. m + 1
                 PROVE  h[d] = IF d = 1 THEN r ELSE Child(h[d - 1], v[d - 1])
      OBVIOUS
    <3>1. CASE d = m + 1
      <4>1. d - 1 = m /\ h[m] = g[m] /\ d # 1
        BY <3>1
      <4> QED
        BY <3>1, <4>1
    <3>2. CASE d \in 1 .. m
      <4>1. h[d] = g[d] /\ g[d] = IF d = 1 THEN r ELSE Child(g[d - 1], v[d - 1])
        BY <3>2, <2>1
      <4>2. d # 1 => h[d - 1] = g[d - 1]
        BY <3>2
      <4> QED
        BY <4>1, <4>2
    <3> QED
      BY <3>1, <3>2
  <2>3. h = [d \in 1 .. m + 1 |-> h[d]]
    OBVIOUS
  <2> HIDE DEF h
  <2>4. To(m + 1, h)
    BY <2>2, <2>3
  <2> QED
    BY <2>4
<1> HIDE DEF S
<1>3. 1 .. TRIE_DEPTH \subseteq S
  BY <1>1, <1>2, RangeInduction, PageTableAssumption
<1>4. TRIE_DEPTH \in S
  BY <1>3, PageTableAssumption
<1> QED
  BY <1>4 DEF S, IsPath, Levels

\* What a path is, level by level.
LEMMA PathSteps ==
    \A g, r, v : IsPath(g, r, v) =>
        g[1] = r /\ \A d \in 1 .. TRIE_DEPTH - 1 : g[d + 1] = Child(g[d], v[d])
<1> SUFFICES ASSUME NEW g, NEW r, NEW v, IsPath(g, r, v)
             PROVE  g[1] = r /\ \A d \in 1 .. TRIE_DEPTH - 1 : g[d + 1] = Child(g[d], v[d])
  OBVIOUS
<1>1. \A d \in Levels : g[d] = IF d = 1 THEN r ELSE Child(g[d - 1], v[d - 1])
  BY DEF IsPath
<1>2. g[1] = r
  BY <1>1, PageTableAssumption DEF Levels
<1>3. ASSUME NEW d \in 1 .. TRIE_DEPTH - 1 PROVE g[d + 1] = Child(g[d], v[d])
  <2>1. d + 1 \in Levels /\ d + 1 # 1 /\ (d + 1) - 1 = d
    BY PageTableAssumption DEF Levels
  <2> QED
    BY <1>1, <2>1
<1> QED
  BY <1>2, <1>3

\* A function on the levels that makes these steps is the path.
LEMMA PathFromSteps ==
    \A g, r, v :
        /\ g = [d \in Levels |-> g[d]]
        /\ g[1] = r
        /\ \A d \in 1 .. TRIE_DEPTH - 1 : g[d + 1] = Child(g[d], v[d])
        => IsPath(g, r, v)
<1> SUFFICES ASSUME NEW g, NEW r, NEW v, g = [d \in Levels |-> g[d]], g[1] = r,
                    \A d \in 1 .. TRIE_DEPTH - 1 : g[d + 1] = Child(g[d], v[d])
             PROVE  IsPath(g, r, v)
  OBVIOUS
<1>1. ASSUME NEW d \in Levels
      PROVE  g[d] = IF d = 1 THEN r ELSE Child(g[d - 1], v[d - 1])
  <2>1. CASE d = 1
    BY <2>1
  <2>2. CASE d # 1
    <3>1. d - 1 \in 1 .. TRIE_DEPTH - 1 /\ (d - 1) + 1 = d
      BY <2>2, PageTableAssumption DEF Levels
    <3> QED
      BY <2>2, <3>1
  <2> QED
    BY <2>1, <2>2
<1> QED
  BY <1>1 DEF IsPath

\* The path is unique, so LastNode is where it ends.
LEMMA PathUnique == \A g, h, r, v : IsPath(g, r, v) /\ IsPath(h, r, v) => g = h
<1> SUFFICES ASSUME NEW g, NEW h, NEW r, NEW v, IsPath(g, r, v), IsPath(h, r, v) PROVE g = h
  OBVIOUS
<1> DEFINE S == {d \in Nat : g[d] = h[d]}
<1>1. 1 \in S
  BY PathSteps
<1>2. ASSUME NEW d \in 1 .. TRIE_DEPTH - 1, d \in S PROVE d + 1 \in S
  BY <1>2, PathSteps
<1> HIDE DEF S
<1>3. Levels \subseteq S
  BY <1>1, <1>2, RangeInduction, PageTableAssumption DEF Levels
<1>4. \A d \in Levels : g[d] = h[d]
  BY <1>3 DEF S
<1>5. g = [d \in Levels |-> g[d]] /\ h = [d \in Levels |-> h[d]]
  BY DEF IsPath
<1> QED
  BY <1>4, <1>5

\* The walk along a path ends in its last node.
LEMMA LastNodeOfPath == \A g, r, v : IsPath(g, r, v) => LastNode(r, v) = g[TRIE_DEPTH]
<1> SUFFICES ASSUME NEW g, NEW r, NEW v, IsPath(g, r, v) PROVE LastNode(r, v) = g[TRIE_DEPTH]
  OBVIOUS
<1> DEFINE node == CHOOSE h : h = [d \in 1 .. TRIE_DEPTH |->
                                     IF d = 1 THEN r ELSE Child(h[d - 1], v[d - 1])]
<1>1. IsPath(node, r, v)
  BY DEF IsPath, Levels
<1>2. LastNode(r, v) = node[TRIE_DEPTH]
  BY DEF LastNode
<1> HIDE DEF node
<1> QED
  BY <1>1, <1>2, PathUnique

\* The same facts about the memory after a step.
LEMMA PathsPrimed ==
    /\ (\A r, v : \E g : IsPath(g, r, v))'
    /\ (\A g, r, v : IsPath(g, r, v) =>
          g[1] = r /\ \A d \in 1 .. TRIE_DEPTH - 1 : g[d + 1] = Child(g[d], v[d]))'
    /\ (\A g, r, v :
          /\ g = [d \in Levels |-> g[d]]
          /\ g[1] = r
          /\ \A d \in 1 .. TRIE_DEPTH - 1 : g[d + 1] = Child(g[d], v[d])
          => IsPath(g, r, v))'
    /\ (\A g, r, v : IsPath(g, r, v) => LastNode(r, v) = g[TRIE_DEPTH])'
BY PathExists, PathSteps, PathFromSteps, LastNodeOfPath, PTL

\* The map of a table, along the path.
LEMMA MappingOfPath ==
    ASSUME NEW r \in roots, NEW v, NEW g, IsPath(g, r, v)
    PROVE  Mapping(r, v) = PageAt(g[TRIE_DEPTH], v[TRIE_DEPTH])
BY LastNodeOfPath DEF Mapping

\* The same in the next state: what a page maps to is what the last node of its path holds.
LEMMA MappingOfPathPrimed ==
    ASSUME NEW r \in roots', NEW v, NEW g, IsPath(g, r, v)'
    PROVE  Mapping(r, v)' = PageAt(g[TRIE_DEPTH], v[TRIE_DEPTH])'
BY PathsPrimed DEF Mapping

-----------------------------------------------------------------------------
(***************************************************************************)
(* Paths in the tries.                                                     *)
(***************************************************************************)
\* The node that an entry above the last level leads to.
LEMMA ChildNode ==
    ASSUME TrieInv, NEW n, NEW x \in Index, Allocated(n), level[n] \in 1 .. TRIE_DEPTH - 1
    PROVE  /\ Child(n, x) # NULL => /\ Allocated(Child(n, x)) /\ Child(n, x) \notin roots
                                   /\ level[Child(n, x)] = level[n] + 1
                                   /\ <<n, x>> \in Links /\ Target(<<n, x>>) = ToBits[Child(n, x)]
           /\ Child(n, x) = NULL => ~pages[n][x].valid
<1>1. n \in Frames /\ n # NULL /\ pages[n] # NULL
  BY PageTableAssumption DEF Allocated
<1>2. CASE ~pages[n][x].valid
  BY <1>1, <1>2 DEF Child
<1>3. CASE pages[n][x].valid
  <2>1. <<n, x>> \in Links /\ Target(<<n, x>>) = pages[n][x].frame
    BY <1>1, <1>3 DEF Links, Inner, Target
  <2>2. PICK m \in Frames \ roots : ToBits[m] = pages[n][x].frame /\ pages[m] # NULL
                                    /\ level[m] = level[n] + 1
    BY <2>1 DEF TrieInv, NoSharing
  <2>3. Child(n, x) = m /\ m # NULL
    BY <1>1, <1>3, <2>2, FrameBitsBack, PageTableAssumption DEF Child
  <2> QED
    BY <2>1, <2>2, <2>3 DEF Allocated
<1> QED
  BY <1>2, <1>3

\* The nodes of a path are allocated for their level, as long as there are any.
LEMMA PathNodes ==
    ASSUME TrieInv, NEW r \in roots, NEW v \in Vpns, NEW g, IsPath(g, r, v)
    PROVE  \A d \in Levels : g[d] # NULL => Allocated(g[d]) /\ level[g[d]] = d
<1> DEFINE S == {d \in Nat : g[d] # NULL => Allocated(g[d]) /\ level[g[d]] = d}
<1>1. 1 \in S
  BY PathSteps DEF TrieInv, FramesInv
<1>2. ASSUME NEW d \in 1 .. TRIE_DEPTH - 1, d \in S PROVE d + 1 \in S
  <2>1. g[d + 1] = Child(g[d], v[d])
    BY PathSteps
  <2>2. v[d] \in Index
    BY PageTableAssumption
  <2>3. CASE g[d] = NULL
    BY <2>1, <2>3 DEF Child
  <2>4. CASE g[d] # NULL
    <3>1. Allocated(g[d]) /\ level[g[d]] \in 1 .. TRIE_DEPTH - 1 /\ level[g[d]] = d
      BY <1>2, <2>4
    <3>2. Child(g[d], v[d]) # NULL =>
            Allocated(Child(g[d], v[d])) /\ level[Child(g[d], v[d])] = d + 1
      BY <2>2, <3>1, ChildNode
    <3> QED
      BY <2>1, <3>2
  <2> QED
    BY <2>3, <2>4
<1> HIDE DEF S
<1>3. Levels \subseteq S
  BY <1>1, <1>2, RangeInduction, PageTableAssumption DEF Levels
<1> QED
  BY <1>3 DEF S

\* A path that has ended does not go on.
LEMMA PathEnds ==
    ASSUME NEW r, NEW v, NEW g, IsPath(g, r, v), NEW m \in Levels, g[m] = NULL
    PROVE  g[TRIE_DEPTH] = NULL
<1> DEFINE S == {d \in Nat : m <= d => g[d] = NULL}
<1>1. 1 \in S
  BY DEF Levels
<1>2. ASSUME NEW d \in 1 .. TRIE_DEPTH - 1, d \in S PROVE d + 1 \in S
  <2>1. g[d + 1] = Child(g[d], v[d])
    BY PathSteps
  <2>2. CASE m <= d
    BY <1>2, <2>1, <2>2 DEF Child
  <2>3. CASE ~(m <= d)
    BY <2>3 DEF Levels
  <2> QED
    BY <2>2, <2>3
<1> HIDE DEF S
<1>3. Levels \subseteq S
  BY <1>1, <1>2, RangeInduction, PageTableAssumption DEF Levels
<1>4. TRIE_DEPTH \in Levels /\ m <= TRIE_DEPTH
  BY PageTableAssumption DEF Levels
<1> QED
  BY <1>3, <1>4 DEF S

\* Two paths that meet in a node come from the same root and took the same way.
LEMMA PathsMeet ==
    ASSUME TrieInv, NEW r \in roots, NEW s \in roots, NEW v \in Vpns, NEW w \in Vpns,
           NEW g, IsPath(g, r, v), NEW h, IsPath(h, s, w)
    PROVE  \A d \in Levels : g[d] = h[d] /\ g[d] # NULL =>
               r = s /\ \A e \in 1 .. d - 1 : v[e] = w[e]
<1> DEFINE S == {d \in Nat : g[d] = h[d] /\ g[d] # NULL =>
                               r = s /\ \A e \in 1 .. d - 1 : v[e] = w[e]}
<1>1. 1 \in S
  <2>1. g[1] = r /\ h[1] = s
    BY PathSteps
  <2> QED
    BY <2>1
<1>2. ASSUME NEW d \in 1 .. TRIE_DEPTH - 1, d \in S, g[d + 1] = h[d + 1], g[d + 1] # NULL
      PROVE  r = s /\ \A e \in 1 .. (d + 1) - 1 : v[e] = w[e]
  <2>1. g[d + 1] = Child(g[d], v[d]) /\ h[d + 1] = Child(h[d], w[d])
    BY PathSteps
  <2>2. v[d] \in Index /\ w[d] \in Index
    BY PageTableAssumption
  <2>3. g[d] # NULL /\ h[d] # NULL
    BY <1>2, <2>1 DEF Child
  <2>4. Allocated(g[d]) /\ level[g[d]] = d /\ Allocated(h[d]) /\ level[h[d]] = d
    <3>1. d \in Levels
      BY PageTableAssumption DEF Levels
    <3>2. Allocated(g[d]) /\ level[g[d]] = d
      BY <2>3, <3>1, PathNodes
    <3>3. Allocated(h[d]) /\ level[h[d]] = d
      BY <2>3, <3>1, PathNodes
    <3> QED
      BY <3>2, <3>3
  <2>5. /\ <<g[d], v[d]>> \in Links /\ Target(<<g[d], v[d]>>) = ToBits[g[d + 1]]
        /\ <<h[d], w[d]>> \in Links /\ Target(<<h[d], w[d]>>) = ToBits[h[d + 1]]
    <3>1. level[g[d]] \in 1 .. TRIE_DEPTH - 1 /\ level[h[d]] \in 1 .. TRIE_DEPTH - 1
      BY <2>4
    <3>2. Child(g[d], v[d]) # NULL /\ Child(h[d], w[d]) # NULL
      BY <1>2, <2>1
    <3>3. <<g[d], v[d]>> \in Links /\ Target(<<g[d], v[d]>>) = ToBits[Child(g[d], v[d])]
      BY <2>2, <2>4, <3>1, <3>2, ChildNode
    <3>4. <<h[d], w[d]>> \in Links /\ Target(<<h[d], w[d]>>) = ToBits[Child(h[d], w[d])]
      BY <2>2, <2>4, <3>1, <3>2, ChildNode
    <3> QED
      BY <2>1, <3>3, <3>4
  <2>6. g[d] = h[d] /\ v[d] = w[d]
    BY <1>2, <2>5 DEF TrieInv, NoSharing
  <2>7. r = s /\ \A e \in 1 .. d - 1 : v[e] = w[e]
    BY <1>2, <2>3, <2>6
  <2>8. \A e \in 1 .. (d + 1) - 1 : e = d \/ e \in 1 .. d - 1
    OBVIOUS
  <2> QED
    BY <2>6, <2>7, <2>8
<1>3. \A d \in 1 .. TRIE_DEPTH - 1 : d \in S => d + 1 \in S
  BY <1>2
<1> HIDE DEF S
<1>4. Levels \subseteq S
  BY <1>1, <1>3, RangeInduction, PageTableAssumption DEF Levels
<1> QED
  BY <1>4 DEF S

-----------------------------------------------------------------------------
(***************************************************************************)
(* What the steps do to the maps.                                          *)
(***************************************************************************)
\* Frame f is added, empty: an entry above the last level is as before, or was not
\* valid and now leads to f, and the last level is as before.
Grows(f) ==
    /\ f \in Frames /\ pages[f] = NULL
    /\ \A y \in Index : ~pages'[f][y].valid
    /\ \A n \in Frames, y \in Index : pages[n] # NULL /\ level[n] \in 1 .. TRIE_DEPTH - 1 =>
          \/ Child(n, y)' = Child(n, y)
          \/ Child(n, y) = NULL /\ Child(n, y)' = f
    /\ \A n \in Frames : pages[n] # NULL /\ level[n] = TRIE_DEPTH => pages'[n] = pages[n]

\* A path keeps its nodes; where it ended, it may go on to f and end there.
LEMMA PathGrows ==
    ASSUME TrieInv, NEW f, Grows(f), NEW r \in roots, NEW v \in Vpns,
           NEW g, IsPath(g, r, v), NEW h, IsPath(h, r, v)'
    PROVE  \A d \in Levels : h[d] = g[d] \/ (g[d] = NULL /\ h[d] = f)
<1> DEFINE S == {d \in Nat : h[d] = g[d] \/ (g[d] = NULL /\ h[d] = f)}
<1>1. 1 \in S
  BY PathSteps, PathsPrimed
<1>2. ASSUME NEW d \in 1 .. TRIE_DEPTH - 1, d \in S PROVE d + 1 \in S
  <2>1. g[d + 1] = Child(g[d], v[d])
    BY PathSteps
  <2>2. h[d + 1] = Child(h[d], v[d])'
    BY PathsPrimed
  <2>3. v[d] \in Index /\ d \in Levels
    BY PageTableAssumption DEF Levels
  <2>4. CASE h[d] = NULL
    <3>1. g[d] = NULL
      BY <1>2, <2>4
    <3> QED
      BY <2>1, <2>2, <2>4, <3>1 DEF Child
  <2>5. CASE h[d] = g[d] /\ g[d] # NULL
    <3>1. Allocated(g[d]) /\ level[g[d]] = d
      BY <2>3, <2>5, PathNodes
    <3> QED
      BY <2>1, <2>2, <2>3, <2>5, <3>1 DEF Grows, Allocated
  <2>6. CASE g[d] = NULL /\ h[d] = f
    BY <2>1, <2>2, <2>3, <2>6 DEF Grows, Child
  <2> QED
    BY <1>2, <2>4, <2>5, <2>6
<1> HIDE DEF S
<1>3. Levels \subseteq S
  BY <1>1, <1>2, RangeInduction, PageTableAssumption DEF Levels
<1> QED
  BY <1>3 DEF S

\* Growing a trie changes no map.
LEMMA GrowthKeepsMaps ==
    ASSUME TrieInv, NEW f, Grows(f), NEW r \in roots, r \in roots', NEW v \in Vpns
    PROVE  Mapping(r, v)' = Mapping(r, v)
<1>1. PICK g : IsPath(g, r, v)
  BY PathExists
<1>2. PICK h : IsPath(h, r, v)'
  BY PathsPrimed
<1>3. /\ Mapping(r, v) = PageAt(g[TRIE_DEPTH], v[TRIE_DEPTH])
      /\ Mapping(r, v)' = PageAt(h[TRIE_DEPTH], v[TRIE_DEPTH])'
  BY <1>1, <1>2, MappingOfPath, MappingOfPathPrimed
<1>4. TRIE_DEPTH \in Levels /\ v[TRIE_DEPTH] \in Index
  BY PageTableAssumption DEF Levels
<1> DEFINE a == g[TRIE_DEPTH]
           b == h[TRIE_DEPTH]
<1>5. b = a \/ (a = NULL /\ b = f)
  BY <1>1, <1>2, <1>4, PathGrows
<1>6. a # NULL => Allocated(a) /\ level[a] = TRIE_DEPTH
  BY <1>1, <1>4, PathNodes
<1> HIDE DEF a, b
<1>7. CASE b = a /\ a = NULL
  BY <1>3, <1>7 DEF PageAt, a, b
<1>8. CASE b = a /\ a # NULL
  <2>1. pages'[a] = pages[a]
    BY <1>6, <1>8 DEF Grows, Allocated
  <2> QED
    BY <1>3, <1>8, <2>1 DEF PageAt, a, b
<1>9. CASE a = NULL /\ b = f
  <2>1. ~pages'[f][v[TRIE_DEPTH]].valid
    BY <1>4 DEF Grows
  <2> QED
    BY <1>3, <1>9, <2>1 DEF PageAt, LeafValue, a, b
<1> QED
  BY <1>5, <1>7, <1>8, <1>9

\* The table whose root is an empty frame maps nothing.
LEMMA EmptyTable ==
    ASSUME NEW f \in roots', \A y \in Index : ~pages'[f][y].valid, NEW v \in Vpns
    PROVE  Mapping(f, v)' = NO_MAPPING
<1>1. PICK h : IsPath(h, f, v)'
  BY PathsPrimed
<1> DEFINE S == {d \in Nat : h[d] \in {f, NULL}}
<1>2. 1 \in S
  BY <1>1, PathsPrimed
<1>3. ASSUME NEW d \in 1 .. TRIE_DEPTH - 1, d \in S PROVE d + 1 \in S
  <2>1. h[d + 1] = Child(h[d], v[d])'
    BY <1>1, PathsPrimed
  <2>2. v[d] \in Index
    BY PageTableAssumption
  <2> QED
    BY <1>3, <2>1, <2>2 DEF Child
<1> HIDE DEF S
<1>4. Levels \subseteq S
  BY <1>2, <1>3, RangeInduction, PageTableAssumption DEF Levels
<1>5. h[TRIE_DEPTH] \in {f, NULL} /\ v[TRIE_DEPTH] \in Index
  BY <1>4, PageTableAssumption DEF S, Levels
<1>6. Mapping(f, v)' = PageAt(h[TRIE_DEPTH], v[TRIE_DEPTH])'
  BY <1>1, MappingOfPathPrimed
<1> QED
  BY <1>5, <1>6 DEF PageAt, LeafValue

\* An unchanged memory has unchanged maps.
LEMMA SameMaps ==
    ASSUME UNCHANGED <<pages, roots>>, NEW r, NEW v
    PROVE  Mapping(r, v)' = Mapping(r, v) /\ \A g : IsPath(g, r, v)' <=> IsPath(g, r, v)
<1>1. \A g : IsPath(g, r, v)' <=> IsPath(g, r, v)
  BY DEF IsPath, Child
<1>2. PICK g : IsPath(g, r, v)
  BY PathExists
<1>3. CASE r \in roots
  <2>1. Mapping(r, v) = PageAt(g[TRIE_DEPTH], v[TRIE_DEPTH])
    BY <1>2, <1>3, MappingOfPath
  <2>2. Mapping(r, v)' = PageAt(g[TRIE_DEPTH], v[TRIE_DEPTH])'
    BY <1>1, <1>2, <1>3, MappingOfPathPrimed
  <2> QED
    BY <1>1, <2>1, <2>2 DEF PageAt
<1>4. CASE r \notin roots
  BY <1>1, <1>4 DEF Mapping
<1> QED
  BY <1>1, <1>3, <1>4

\* Linking a missing node grows the tries by its frame f: the entry x of node a.
LEMMA WalkAllocateGrows ==
    ASSUME TrieInv, WalkAllocate, ~OutOfMemory,
           NEW f, f = nalloc, NEW a, a = curr_pt, NEW x, x = call.vpn[i]
    PROVE  Grows(f) /\ Child(a, x)' = f
<1>1. /\ a \in Frames /\ pages[a] \in [Index -> pt_entry] /\ x \in Index /\ ~pages[a][x].valid
      /\ i \in 1 .. TRIE_DEPTH - 1 /\ level[a] = i /\ f \in Frames /\ pages[f] = NULL /\ f # a
      /\ pages'[f] = [y \in Index |-> ZeroEntry]
      /\ pages'[a] = [pages[a] EXCEPT ![x] = [valid |-> TRUE, frame |-> ToBits[f]]]
      /\ \A n \in Frames \ {f, a} : pages'[n] = pages[n]
  BY WalkAllocateEffect
<1>2. \A y \in Index : ~pages'[f][y].valid
  BY <1>1 DEF ZeroEntry
<1>3. a # NULL /\ Child(a, x) = NULL
  BY <1>1, PageTableAssumption DEF Child
<1>4. Child(a, x)' = f
  <2>1. pages'[a][x].valid /\ pages'[a][x].frame = ToBits[f]
    BY <1>1
  <2>2. Child(a, x)' = ToFrame[ToBits[f]]
    BY <1>3, <2>1 DEF Child
  <2> QED
    BY <1>1, <2>2, FrameBitsBack
<1>5. ASSUME NEW n \in Frames, NEW y \in Index, pages[n] # NULL
      PROVE  \/ Child(n, y)' = Child(n, y)
             \/ Child(n, y) = NULL /\ Child(n, y)' = f
  <2>1. CASE n = a /\ y = x
    BY <1>3, <1>4, <2>1
  <2>2. CASE n # a \/ y # x
    <3>1. pages'[n][y] = pages[n][y]
      BY <1>1, <1>5, <2>2
    <3> QED
      BY <3>1 DEF Child
  <2> QED
    BY <2>1, <2>2
<1>6. \A n \in Frames : pages[n] # NULL /\ level[n] = TRIE_DEPTH => pages'[n] = pages[n]
  <2>1. level[a] # TRIE_DEPTH
    BY <1>1, PageTableAssumption
  <2> QED
    BY <1>1, <2>1
<1> QED
  BY <1>1, <1>2, <1>4, <1>5, <1>6 DEF Grows

\* A new table grows the tries by its root f.
LEMMA NewTableGrows ==
    ASSUME TrieInv, NewTable, ~OutOfMemory, NEW f, f = nalloc
    PROVE  Grows(f) /\ roots' = roots \cup {f} /\ UNCHANGED <<pc, call, i, curr_pt, ret>>
<1>1. alloc_page_frame(1, pages) /\ roots' = roots \cup {f} /\ UNCHANGED <<pc, call, i, curr_pt, ret>>
  BY DEF NewTable
<1>2. /\ f \in Frames /\ pages[f] = NULL /\ pages'[f] = [x \in Index |-> ZeroEntry]
      /\ \A n \in Frames : n # f => pages'[n] = pages[n]
  BY <1>1, PageTableAssumption DEF alloc_page_frame, TrieInv, TypeOK, FramesInv, Frames
<1>3. \A y \in Index : ~pages'[f][y].valid
  BY <1>2 DEF ZeroEntry
<1>4. \A n \in Frames, y \in Index : pages[n] # NULL => Child(n, y)' = Child(n, y)
  BY <1>2 DEF Child
<1> QED
  BY <1>1, <1>2, <1>3, <1>4 DEF Grows

\* Updating an entry of the last level moves no path, and changes the map at the page
\* of that path alone.
LEMMA LeafUpdateMaps ==
    ASSUME TrieInv, CallInv, LeafUpdate, NEW r \in roots, NEW v \in Vpns,
           NEW c, c = call
    PROVE  Mapping(r, v)' = IF r = c.pt /\ v = c.vpn THEN c.ppn ELSE Mapping(r, v)
<1> DEFINE x == c.vpn[TRIE_DEPTH]
           e == IF c.allocate THEN SetEntry(ZeroEntry, c.ppn) ELSE ZeroEntry
<1>1. PICK a : a = curr_pt
  OBVIOUS
<1>2. /\ a \in Frames /\ pages[a] \in [Index -> pt_entry] /\ pages[a] # NULL
      /\ level[a] = TRIE_DEPTH /\ i = TRIE_DEPTH /\ c \in Calls /\ c.vpn \in Vpns /\ x \in Index
  BY <1>1, CurrEntry DEF TrieInv, LeafUpdate, WalkInv, Allocated, Calls
<1>3. LeafValue(e) = c.ppn
  <2>1. c.op = "update" /\ (c.allocate <=> c.ppn # NO_MAPPING)
    BY DEF LeafUpdate, CallInv
  <2>2. c.ppn \in Ppns \cup {NO_MAPPING}
    BY <1>2 DEF Calls
  <2>3. CASE c.allocate
    <3>1. c.ppn \in SUBSET FrameBits
      BY <2>1, <2>2, <2>3, PageTableAssumption
    <3> QED
      BY <2>3, <3>1, SetEntryZero DEF LeafValue
  <2>4. CASE ~c.allocate
    BY <2>1, <2>4 DEF LeafValue, ZeroEntry
  <2> QED
    BY <2>3, <2>4
<1> HIDE DEF x, e
<1>4. pages' = [pages EXCEPT ![a][x] = e] /\ UNCHANGED roots
  BY <1>1 DEF LeafUpdate, x, e
<1>5. /\ pages'[a] = [pages[a] EXCEPT ![x] = e]
      /\ \A n \in Frames : n # a => pages'[n] = pages[n]
  BY <1>2, <1>4 DEF TrieInv, TypeOK
<1>6. PICK g : IsPath(g, r, v)
  BY PathExists
<1>7. IsPath(g, r, v)'
  <2>1. \A d \in 1 .. TRIE_DEPTH - 1 : Child(g[d], v[d])' = Child(g[d], v[d])
    <3> SUFFICES ASSUME NEW d \in 1 .. TRIE_DEPTH - 1
                 PROVE  Child(g[d], v[d])' = Child(g[d], v[d])
      OBVIOUS
    <3>1. CASE g[d] = NULL
      BY <3>1 DEF Child
    <3>2. CASE g[d] # NULL
      <4>1. d \in Levels /\ d # TRIE_DEPTH
        BY PageTableAssumption DEF Levels
      <4>2. Allocated(g[d]) /\ level[g[d]] = d
        BY <1>6, <3>2, <4>1, PathNodes
      <4>3. pages'[g[d]] = pages[g[d]]
        BY <1>2, <1>5, <4>1, <4>2 DEF Allocated
      <4> QED
        BY <4>3 DEF Child
    <3> QED
      BY <3>1, <3>2
  <2>2. g = [d \in Levels |-> g[d]]
    BY <1>6 DEF IsPath
  <2>3. g[1] = r /\ \A d \in 1 .. TRIE_DEPTH - 1 : g[d + 1] = Child(g[d], v[d])'
    BY <1>6, <2>1, PathSteps
  <2> QED
    BY <2>2, <2>3, PathsPrimed
<1>8. /\ Mapping(r, v) = PageAt(g[TRIE_DEPTH], v[TRIE_DEPTH])
      /\ Mapping(r, v)' = PageAt(g[TRIE_DEPTH], v[TRIE_DEPTH])'
  BY <1>4, <1>6, <1>7, MappingOfPath, MappingOfPathPrimed
<1>9. PICK h : IsPath(h, c.pt, c.vpn) /\ h[TRIE_DEPTH] = a /\ c.pt \in roots
  BY <1>1, <1>2 DEF CallInv, LeafUpdate
<1>10. TRIE_DEPTH \in Levels /\ a # NULL /\ v[TRIE_DEPTH] \in Index
  BY <1>2, PageTableAssumption DEF Levels
<1>11. CASE r = c.pt /\ v = c.vpn
  <2>1. g[TRIE_DEPTH] = a
    BY <1>6, <1>9, <1>11, PathUnique
  <2>2. pages'[a][v[TRIE_DEPTH]] = e
    BY <1>2, <1>5, <1>11 DEF x
  <2> QED
    BY <1>3, <1>8, <1>10, <1>11, <2>1, <2>2 DEF PageAt
<1>12. CASE ~(r = c.pt /\ v = c.vpn)
  <2>1. g[TRIE_DEPTH] = a => v[TRIE_DEPTH] # x
    <3> SUFFICES ASSUME g[TRIE_DEPTH] = a, v[TRIE_DEPTH] = x PROVE FALSE
      OBVIOUS
    <3>1. r = c.pt /\ \A d \in 1 .. TRIE_DEPTH - 1 : v[d] = c.vpn[d]
      BY <1>2, <1>6, <1>9, <1>10, PathsMeet
    <3>2. \A d \in 1 .. TRIE_DEPTH : d = TRIE_DEPTH \/ d \in 1 .. TRIE_DEPTH - 1
      BY PageTableAssumption
    <3>3. \A d \in 1 .. TRIE_DEPTH : v[d] = c.vpn[d]
      BY <3>1, <3>2 DEF x
    <3>4. v \in [1 .. TRIE_DEPTH -> Index] /\ c.vpn \in [1 .. TRIE_DEPTH -> Index]
      BY <1>2, PageTableAssumption
    <3>5. v = [d \in 1 .. TRIE_DEPTH |-> v[d]] /\ c.vpn = [d \in 1 .. TRIE_DEPTH |-> c.vpn[d]]
      BY <3>4
    <3>6. v = c.vpn
      BY <3>3, <3>5
    <3> QED
      BY <1>12, <3>1, <3>6
  <2>2. g[TRIE_DEPTH] # NULL => g[TRIE_DEPTH] \in Frames
    BY <1>6, <1>10, PathNodes DEF Allocated
  <2>3. g[TRIE_DEPTH] # NULL =>
          pages'[g[TRIE_DEPTH]][v[TRIE_DEPTH]] = pages[g[TRIE_DEPTH]][v[TRIE_DEPTH]]
    BY <1>2, <1>5, <1>10, <2>1, <2>2
  <2> QED
    BY <1>8, <1>12, <2>3 DEF PageAt
<1> QED
  BY <1>11, <1>12

-----------------------------------------------------------------------------
(***************************************************************************)
(* The calls follow their paths.                                           *)
(***************************************************************************)
\* A call begins at its root.
LEMMA BeginWalkCall ==
    ASSUME NEW c \in Calls, c.pt \in roots, BeginWalk(c), c.op = "query" => ~c.allocate,
           c.op = "update" => (c.allocate <=> c.ppn # NO_MAPPING)
    PROVE  CallInv'
<1>1. PICK g : IsPath(g, c.pt, c.vpn)
  BY PathExists
<1>2. g[1] = c.pt
  BY <1>1, PathSteps
<1>3. IsPath(g, c.pt, c.vpn)'
  BY <1>1, SameMaps DEF BeginWalk
<1>4. call' = c /\ i' = 1 /\ curr_pt' = c.pt /\ roots' = roots /\ pc' \in {"walk", "leaf"}
  BY DEF BeginWalk
<1>5. IsPath(g, call.pt, call.vpn)' /\ g[i'] = curr_pt'
  BY <1>2, <1>3, <1>4 DEF IsPath, Child
<1> QED
  BY <1>4, <1>5 DEF CallInv

\* A step down, along a valid entry or to a fresh frame, stays on the path.
LEMMA WalkDownCall ==
    ASSUME TrieInv, CallInv, WalkDown
    PROVE  CallInv'
<1>1. PICK g : IsPath(g, call.pt, call.vpn) /\ g[i] = curr_pt
  BY DEF CallInv, WalkDown
<1>2. i \in 1 .. TRIE_DEPTH - 1 /\ curr_pt # NULL
  BY PageTableAssumption DEF TrieInv, TypeOK, WalkInv, WalkDown, Allocated
<1>3. g[i + 1] = ToFrame[curr_entry.frame]
  <2>1. g[i + 1] = Child(g[i], call.vpn[i])
    BY <1>1, <1>2, PathSteps
  <2> QED
    BY <1>1, <1>2, <2>1 DEF Child, WalkDown, curr_entry
<1>4. /\ curr_pt' = ToFrame[curr_entry.frame] /\ i' = i + 1 /\ pc' \in {"walk", "leaf"}
      /\ UNCHANGED <<roots, call, ret, pages>>
  BY DEF WalkDown, Descend
<1>5. IsPath(g, call.pt, call.vpn)'
  BY <1>1, <1>4 DEF IsPath, Child
<1> QED
  BY <1>3, <1>4, <1>5 DEF CallInv, WalkDown

\* A step of the walk that allocates keeps the invariant of the call in progress.
LEMMA WalkAllocateCall ==
    ASSUME TrieInv, CallInv, WalkAllocate, ~OutOfMemory
    PROVE  CallInv'
<1>1. PICK g : IsPath(g, call.pt, call.vpn) /\ g[i] = curr_pt
  BY DEF CallInv, WalkAllocate
<1>2. PICK r, v, f, a, m : r = call.pt /\ v = call.vpn /\ f = nalloc /\ a = curr_pt /\ m = i
  OBVIOUS
<1>3. /\ call \in Calls /\ m \in 1 .. TRIE_DEPTH - 1 /\ a # NULL /\ UNCHANGED <<roots, call>>
      /\ curr_pt' = f /\ i' = m + 1 /\ pc' \in {"walk", "leaf"}
  BY <1>2, WalkAllocateEffect, PageTableAssumption
<1>4. r \in roots /\ v \in Vpns /\ m \in Levels /\ v[m] \in Index
  BY <1>2, <1>3, WalkAllocateEffect, PageTableAssumption DEF CallInv, WalkAllocate, Calls, Levels
<1>5. Grows(f) /\ Child(a, v[m])' = f
  BY <1>2, <1>3, WalkAllocateGrows
<1>6. PICK h : IsPath(h, r, v)'
  BY PathsPrimed
<1>7. h[m] = a
  BY <1>1, <1>2, <1>3, <1>4, <1>5, <1>6, PathGrows
<1>8. h[m + 1] = Child(h[m], v[m])'
  BY <1>3, <1>6, PathsPrimed
<1>9. h[i'] = curr_pt' /\ IsPath(h, call.pt, call.vpn)'
  BY <1>2, <1>3, <1>5, <1>6, <1>7, <1>8 DEF IsPath, Child
<1> QED
  BY <1>3, <1>9 DEF CallInv, WalkAllocate

\* Every step keeps the invariant of the call in progress.
LEMMA CallStep == TrieInv /\ CallInv /\ [Next]_vars => CallInv'
<1> SUFFICES ASSUME TrieInv, CallInv, [Next]_vars PROVE CallInv'
  OBVIOUS
<1>1. CASE OutOfMemory
  BY <1>1 DEF OutOfMemory, CallInv
<1>2. CASE NewTable /\ ~OutOfMemory
  BY <1>2, NewTableGrows DEF NewTable, CallInv
<1>3. ASSUME NEW pt \in roots, NEW vpn \in Vpns, NEW ppn \in Ppns \cup {NO_MAPPING},
             page_table_update(pt, vpn, ppn)
      PROVE  CallInv'
  <2>1. pt \in Frames
    BY DEF TrieInv, TypeOK
  <2> DEFINE c == [op |-> "update", pt |-> pt, vpn |-> vpn, ppn |-> ppn,
                   allocate |-> ppn # NO_MAPPING]
  <2>2. c \in Calls /\ c.pt \in roots /\ c.op = "update" /\ (c.allocate <=> c.ppn # NO_MAPPING)
    BY <2>1 DEF Calls
  <2>3. BeginWalk(c)
    BY <1>3 DEF page_table_update
  <2> HIDE DEF c
  <2> QED
    BY <2>2, <2>3, BeginWalkCall
<1>4. ASSUME NEW pt \in roots, NEW vpn \in Vpns, page_table_query(pt, vpn)
      PROVE  CallInv'
  <2>1. pt \in Frames
    BY DEF TrieInv, TypeOK
  <2> DEFINE c == [op |-> "query", pt |-> pt, vpn |-> vpn, ppn |-> NO_MAPPING,
                   allocate |-> FALSE]
  <2>2. c \in Calls /\ c.pt \in roots /\ c.op = "query" /\ ~c.allocate
    BY <2>1 DEF Calls
  <2>3. BeginWalk(c)
    BY <1>4 DEF page_table_query
  <2> HIDE DEF c
  <2> QED
    BY <2>2, <2>3, BeginWalkCall
<1>5. CASE WalkDown
  BY <1>5, WalkDownCall
<1>6. CASE WalkAllocate /\ ~OutOfMemory
  BY <1>6, WalkAllocateCall
<1>7. CASE WalkMissing \/ LeafUpdate \/ LeafQuery
  BY <1>7 DEF WalkMissing, LeafUpdate, LeafQuery, Return, CallInv
<1>8. CASE UNCHANGED vars
  BY <1>8 DEF vars, CallInv, IsPath, Child
<1> QED
  BY <1>1, <1>2, <1>3, <1>4, <1>5, <1>6, <1>7, <1>8 DEF Next

-----------------------------------------------------------------------------
(***************************************************************************)
(* The simulation.                                                         *)
(***************************************************************************)
AbsMap == [r \in Frames |-> [v \in Vpns |-> Mapping(r, v)]]

\* Maps that do not change make no difference to the abstract state.
LEMMA AbsMapSame ==
    ASSUME \A r \in Frames, v \in Vpns : Mapping(r, v)' = Mapping(r, v)
    PROVE  AbsMap' = AbsMap
BY DEF AbsMap

\* Every step of the tries is a step of the address map, or a stutter.
LEMMA Simulation ==
    TrieInv /\ CallInv /\ [Next]_vars => [Abstract!Next]_(Abstract!vars)
<1> SUFFICES ASSUME TrieInv, CallInv, [Next]_vars PROVE [Abstract!Next]_(Abstract!vars)
  OBVIOUS
<1>0. roots \subseteq Frames
  BY DEF TrieInv, TypeOK
<1>a. (AbsMap' = AbsMap /\ UNCHANGED <<call, ret>>) => UNCHANGED Abstract!vars
  BY DEF Abstract!vars, AbsMap
<1>b. UNCHANGED <<pages, roots>> => AbsMap' = AbsMap
  BY SameMaps, AbsMapSame
<1>1. CASE OutOfMemory
  BY <1>1, <1>a, <1>b DEF OutOfMemory
<1>2. CASE NewTable /\ ~OutOfMemory
  <2>1. PICK f : f = nalloc
    OBVIOUS
  <2>2. Grows(f) /\ roots' = roots \cup {f} /\ UNCHANGED <<call, ret>>
    BY <1>2, <2>1, NewTableGrows
  <2>3. ASSUME NEW r \in Frames, NEW v \in Vpns PROVE Mapping(r, v)' = Mapping(r, v)
    <3>1. CASE r \in roots
      BY <2>2, <3>1, GrowthKeepsMaps
    <3>2. CASE r = f
      <4>1. f \notin roots
        BY <2>2 DEF Grows, TrieInv, FramesInv, Allocated
      <4>2. Mapping(f, v)' = NO_MAPPING
        BY <2>2, EmptyTable DEF Grows
      <4>3. Mapping(f, v) = NO_MAPPING
        BY <4>1 DEF Mapping
      <4> QED
        BY <3>2, <4>2, <4>3
    <3>3. CASE r \notin roots /\ r # f
      BY <2>2, <3>3 DEF Mapping
    <3> QED
      BY <3>1, <3>2, <3>3
  <2> QED
    BY <1>a, <2>2, <2>3, AbsMapSame
<1>3. ASSUME NEW c \in Calls, BeginWalk(c)
      PROVE  Abstract!Next
  <2>1. AbsMap' = AbsMap /\ UNCHANGED ret /\ call = NULL /\ call' = c
    BY <1>3, <1>b DEF BeginWalk, CallInv
  <2>2. c # NULL
    BY PageTableAssumption
  <2>3. /\ c.pt \in Frames /\ c.vpn \in Vpns /\ c.ppn \in Ppns \cup {NO_MAPPING}
        /\ c.op = "query" \/ c.op = "update"
    BY DEF Calls
  <2> QED
    BY <2>1, <2>2, <2>3 DEF Abstract!Next, Abstract!Request, AbsMap
<1>4. CASE \E pt \in roots, vpn \in Vpns :
              \/ \E ppn \in Ppns \cup {NO_MAPPING} : page_table_update(pt, vpn, ppn)
              \/ page_table_query(pt, vpn)
  <2>1. ASSUME NEW pt \in roots, NEW vpn \in Vpns, NEW ppn \in Ppns \cup {NO_MAPPING},
               page_table_update(pt, vpn, ppn)
        PROVE  Abstract!Next
    BY <1>0, <1>3, <2>1 DEF page_table_update, Calls
  <2>2. ASSUME NEW pt \in roots, NEW vpn \in Vpns, page_table_query(pt, vpn)
        PROVE  Abstract!Next
    BY <1>0, <1>3, <2>2 DEF page_table_query, Calls
  <2> QED
    BY <1>4, <2>1, <2>2
<1>5. CASE WalkDown
  BY <1>5, <1>a, <1>b DEF WalkDown, Descend
<1>6. CASE WalkAllocate /\ ~OutOfMemory
  <2>1. PICK f, a, x : f = nalloc /\ a = curr_pt /\ x = call.vpn[i]
    OBVIOUS
  <2>2. Grows(f)
    BY <1>6, <2>1, WalkAllocateGrows
  <2>3. UNCHANGED <<roots, call, ret>>
    BY <1>6, WalkAllocateEffect
  <2>4. ASSUME NEW r \in Frames, NEW v \in Vpns PROVE Mapping(r, v)' = Mapping(r, v)
    <3>1. CASE r \in roots
      BY <2>2, <2>3, <3>1, GrowthKeepsMaps
    <3>2. CASE r \notin roots
      BY <2>3, <3>2 DEF Mapping
    <3> QED
      BY <3>1, <3>2
  <2> QED
    BY <1>a, <2>3, <2>4, AbsMapSame
<1>c. ASSUME pc \in {"walk", "leaf"}
      PROVE  /\ call \in Calls /\ call # NULL /\ call.op \in {"update", "query"}
             /\ call.pt \in roots /\ call.pt \in Frames /\ call.vpn \in Vpns
  BY <1>0, <1>c, PageTableAssumption DEF TrieInv, WalkInv, CallInv, Calls
<1>7. CASE WalkMissing
  <2>1. Mapping(call.pt, call.vpn) = NO_MAPPING
    <3>1. PICK g : IsPath(g, call.pt, call.vpn) /\ g[i] = curr_pt
      BY <1>7 DEF CallInv, WalkMissing
    <3>2. i \in 1 .. TRIE_DEPTH - 1
      BY <1>7, PageTableAssumption DEF TrieInv, TypeOK, WalkInv, WalkMissing
    <3>3. i + 1 \in Levels /\ g[i + 1] = Child(curr_pt, call.vpn[i])
      BY <3>1, <3>2, PathSteps, PageTableAssumption DEF Levels
    <3>4. g[i + 1] = NULL
      BY <1>7, <3>3 DEF Child, WalkMissing, curr_entry
    <3>5. g[TRIE_DEPTH] = NULL
      BY <3>1, <3>3, <3>4, PathEnds
    <3>6. call.pt \in roots
      BY <1>7, <1>c DEF WalkMissing
    <3> QED
      BY <3>1, <3>5, <3>6, MappingOfPath DEF PageAt
  <2>2. AbsMap' = AbsMap /\ call' = NULL
    BY <1>7, <1>b DEF WalkMissing, Return
  <2>3. /\ call # NULL /\ call.op \in {"update", "query"} /\ call.pt \in Frames /\ call.vpn \in Vpns
    BY <1>7, <1>c DEF WalkMissing
  <2>4. AbsMap[call.pt][call.vpn] = NO_MAPPING
    BY <2>1, <2>3 DEF AbsMap
  <2>5. CASE call.op = "query"
    <3>1. ret' = AbsMap[call.pt][call.vpn]
      BY <1>7, <2>4, <2>5 DEF WalkMissing
    <3> QED
      BY <2>2, <2>3, <2>5, <3>1 DEF Abstract!Next, Abstract!Query, AbsMap
  <2>6. CASE call.op = "update"
    <3>1. ret' = ret /\ call.ppn = NO_MAPPING
      BY <1>7, <2>6 DEF WalkMissing, CallInv
    <3>2. AbsMap' = [AbsMap EXCEPT ![call.pt][call.vpn] = call.ppn]
      BY <2>2, <2>3, <2>4, <3>1 DEF AbsMap
    <3> QED
      BY <2>2, <2>3, <2>6, <3>1, <3>2 DEF Abstract!Next, Abstract!Update, AbsMap
  <2> QED
    BY <2>3, <2>5, <2>6
<1>8. CASE LeafUpdate
  <2>1. PICK c : c = call
    OBVIOUS
  <2>2. /\ c # NULL /\ c.op = "update" /\ c.pt \in roots /\ c.pt \in Frames /\ c.vpn \in Vpns
        /\ UNCHANGED <<roots, ret>> /\ call' = NULL
    BY <1>8, <1>c, <2>1 DEF LeafUpdate, Return
  <2>3. ASSUME NEW r \in Frames, NEW v \in Vpns
        PROVE  Mapping(r, v)' = IF r = c.pt /\ v = c.vpn THEN c.ppn ELSE Mapping(r, v)
    <3>1. CASE r \in roots
      BY <1>8, <2>1, <3>1, LeafUpdateMaps
    <3>2. CASE r \notin roots
      BY <2>2, <3>2 DEF Mapping
    <3> QED
      BY <3>1, <3>2
  <2>4. AbsMap' = [AbsMap EXCEPT ![c.pt][c.vpn] = c.ppn]
    <3> DEFINE M(r, v) == Mapping(r, v)
               N(r, v) == Mapping(r, v)'
    <3>1. AbsMap = [r \in Frames |-> [v \in Vpns |-> M(r, v)]]
      BY DEF AbsMap
    <3>2. AbsMap' = [r \in Frames |-> [v \in Vpns |-> N(r, v)]]
      BY DEF AbsMap
    <3>3. \A r \in Frames, v \in Vpns :
            N(r, v) = IF r = c.pt /\ v = c.vpn THEN c.ppn ELSE M(r, v)
      BY <2>3
    <3> HIDE DEF M, N
    <3>4. \A r \in Frames : r # c.pt => [v \in Vpns |-> N(r, v)] = [v \in Vpns |-> M(r, v)]
      BY <3>3
    <3>5. [v \in Vpns |-> N(c.pt, v)] = [[v \in Vpns |-> M(c.pt, v)] EXCEPT ![c.vpn] = c.ppn]
      BY <2>2, <3>3
    <3> QED
      BY ZenonT(60), <2>2, <3>1, <3>2, <3>4, <3>5
  <2> QED
    BY <2>1, <2>2, <2>4 DEF Abstract!Next, Abstract!Update, AbsMap
<1>9. CASE LeafQuery
  <2>1. AbsMap' = AbsMap /\ call' = NULL /\ call.op = "query"
    BY <1>9, <1>b DEF LeafQuery, Return
  <2>2. call # NULL /\ call.pt \in roots /\ call.pt \in Frames /\ call.vpn \in Vpns
    BY <1>9, <1>c DEF LeafQuery
  <2>3. PICK g : IsPath(g, call.pt, call.vpn) /\ g[TRIE_DEPTH] = curr_pt
    BY <1>9 DEF CallInv, LeafQuery, TrieInv, WalkInv
  <2>4. curr_pt # NULL
    BY <1>9, PageTableAssumption DEF LeafQuery, TrieInv, WalkInv, Allocated
  <2>5. ret' = Mapping(call.pt, call.vpn)
    BY <1>9, <2>2, <2>3, <2>4, MappingOfPath DEF LeafQuery, PageAt
  <2>6. ret' = AbsMap[call.pt][call.vpn]
    BY <2>2, <2>5 DEF AbsMap
  <2> QED
    BY <2>1, <2>2, <2>6 DEF Abstract!Next, Abstract!Query, AbsMap
<1>10. CASE UNCHANGED vars
  BY <1>10, <1>a, <1>b DEF vars
<1> QED
  BY <1>1, <1>2, <1>4, <1>5, <1>6, <1>7, <1>8, <1>9, <1>10 DEF Next

\* The tries of pt.c implement independent maps: an update changes its page in its
\* table and nothing else, whatever nodes it allocates, and a query returns what was
\* last mapped there.
THEOREM TriesImplementMaps == Spec => ImplementsMap
<1>1. Init => Abstract!Init
  <2>1. Init => AbsMap = [r \in Frames |-> [v \in Vpns |-> NO_MAPPING]]
    BY DEF Init, AbsMap, Mapping
  <2> QED
    BY <2>1 DEF Init, Abstract!Init, AbsMap
<1>2. Init => CallInv
  BY DEF Init, CallInv
<1> QED
  BY <1>1, <1>2, TrieAlways, CallStep, Simulation, PTL DEF Spec, ImplementsMap, Abstract!Spec
=============================================================================
