------------------------- MODULE MessageSlotProofs -------------------------
(***************************************************************************)
(* Proofs about MessageSlot for every number of minors, channels, files    *)
(* and every message length bound, whatever allocation or copy fails.      *)
(***************************************************************************)
EXTENDS MessageSlot, FiniteSetTheorems, WellFoundedInduction, TLAPS

\* The loop of find_channel returns an entry with the id it looks for, and
\* NULL only when there is none.
LEMMA FindChannel ==
    ASSUME NEW head \in Seq(msg_slot_channel_t), NEW id
    PROVE  /\ find_channel(head, id) \in 0 .. Len(head)
           /\ find_channel(head, id) # 0 => head[find_channel(head, id)].id = id
           /\ find_channel(head, id) = 0 => \A i \in 1 .. Len(head) : head[i].id # id
<1> DEFINE I == {i \in 1 .. Len(head) : head[i].id = id}
<1>1. find_channel(head, id) = IF I # {} THEN Min(I) ELSE 0
  BY DEF find_channel, SelectInSeq
<1>2. ASSUME I # {} PROVE Min(I) \in I
  <2> DEFINE R == {ss \in Nat \X Nat : ss[1] < ss[2]}
  <2>1. PICK x \in I : \A y \in I : ~(<<y, x>> \in R)
    <3>1. I \subseteq Nat
      OBVIOUS
    <3>2. IsWellFoundedOn(R, Nat)
      BY NatLessThanWellFounded DEF OpToRel
    <3> QED
      BY <1>2, <3>1, <3>2, WFMin
  <2>2. ASSUME NEW y \in I PROVE x <= y
    <3>1. x \in Nat /\ y \in Nat
      OBVIOUS
    <3>2. y < x => <<y, x>> \in R
      BY <3>1
    <3> QED
      BY <2>1, <3>1, <3>2
  <2> QED
    BY <2>2 DEF Min
<1> QED
  BY <1>1, <1>2

-----------------------------------------------------------------------------
\* A message that passes the length test of device_write.
Legal(msg) == msg \in UserMessages /\ msg # <<>> /\ Len(msg) <= MAX_BUF_LEN

\* Both outcomes of copy_from_user fill a buffer of a legal length.
LEMMA BufferType ==
    ASSUME NEW msg, Legal(msg)
    PROVE  /\ Len(msg) \in 1 .. MAX_BUF_LEN
           /\ msg \in Buffers
           /\ \A k : TornCopy(msg, k) \in Buffers
<1>1. msg \in Seq(UserBytes) /\ Len(msg) \in 1 .. MAX_BUF_LEN
  BY MessageSlotAssumption DEF Legal
<1>2. msg \in [1 .. Len(msg) -> Bytes]
  BY <1>1 DEF Bytes
<1>3. ASSUME NEW k PROVE TornCopy(msg, k) \in [1 .. Len(msg) -> Bytes]
  BY <1>2 DEF TornCopy, Bytes
<1> QED
  BY <1>1, <1>2, <1>3 DEF Buffers

\* add_channel_to_msg_slot keeps the old entries behind the new one.
LEMMA NewChannel ==
    ASSUME NEW head \in Seq(msg_slot_channel_t), NEW id \in Channels
    PROVE  LET h == WithNewChannel(head, id) IN
           /\ h \in Seq(msg_slot_channel_t)
           /\ Len(h) = Len(head) + 1
           /\ h[1].id = id
           /\ \A i \in 1 .. Len(head) : h[i + 1] = head[i]
<1> DEFINE c == [id |-> id, active |-> FALSE, msg_buffer |-> NULL, curr_msg_len |-> GARBAGE]
<1>1. c \in msg_slot_channel_t /\ c.id = id
  BY DEF msg_slot_channel_t
<1>2. WithNewChannel(head, id) = <<c>> \o head
  BY DEF WithNewChannel
<1> HIDE DEF c
<1> QED
  BY <1>1, <1>2

\* A channel that is not in the list can be added without a second entry.
LEMMA NewChannelUnique ==
    ASSUME NEW head \in Seq(msg_slot_channel_t), NEW id \in Channels,
           UniqueIds(head), find_channel(head, id) = 0
    PROVE  UniqueIds(WithNewChannel(head, id))
<1> DEFINE h == WithNewChannel(head, id)
<1>1. /\ h \in Seq(msg_slot_channel_t) /\ Len(h) = Len(head) + 1 /\ h[1].id = id
      /\ \A i \in 1 .. Len(head) : h[i + 1] = head[i]
  BY NewChannel
<1>2. \A i \in 1 .. Len(head) : head[i].id # id
  BY FindChannel
<1>3. ASSUME NEW i \in 1 .. Len(h), i # 1 PROVE i - 1 \in 1 .. Len(head) /\ h[i] = head[i - 1]
  BY <1>1, <1>3
<1>4. DOMAIN h = 1 .. Len(h) /\ DOMAIN head = 1 .. Len(head)
  BY <1>1
<1> HIDE DEF h
<1>5. ASSUME NEW i \in 1 .. Len(h), NEW j \in 1 .. Len(h), h[i].id = h[j].id
      PROVE  i = j
  <2>1. CASE i = 1
    BY <1>1, <1>2, <1>3, <1>5, <2>1
  <2>2. CASE j = 1
    BY <1>1, <1>2, <1>3, <1>5, <2>2
  <2>3. CASE i # 1 /\ j # 1
    <3>1. head[i - 1].id = head[j - 1].id
      BY <1>3, <1>5, <2>3
    <3>2. i - 1 = j - 1
      BY <1>3, <1>4, <2>3, <3>1 DEF UniqueIds
    <3> QED
      BY <1>1, <3>2
  <2> QED
    BY <2>1, <2>2, <2>3
<1> QED
  BY <1>4, <1>5 DEF UniqueIds, h

-----------------------------------------------------------------------------
\* The inductive invariant.
Inv == TypeOK /\ UniqueChannels

\* What a call may do to the list of a slot: its ids stay, at most one comes.
Grown(head, h) ==
    /\ h \in Seq(msg_slot_channel_t)
    /\ UniqueIds(h)
    /\ \A i \in 1 .. Len(head) : \E j \in 1 .. Len(h) : h[j].id = head[i].id

\* Lines 172 to 197 rewrite one entry and keep its id.
LEMMA WriteChannelEffect ==
    ASSUME Inv, NEW m \in Minors, NEW head \in Seq(msg_slot_channel_t), UniqueIds(head),
           NEW p \in 1 .. Len(head), NEW new \in {0, 1}, NEW msg, Legal(msg),
           WriteChannel(m, head, p, new, msg)
    PROVE  /\ allocated' \in [Minors -> Int]
           /\ \E h : Grown(head, h) /\ g_msg_slots' = [g_msg_slots EXCEPT ![m] = h]
<1>1. head[p] \in msg_slot_channel_t
  OBVIOUS
<1>2. ASSUME NEW c \in msg_slot_channel_t, c.id = head[p].id, SetChannel(m, head, p, c)
      PROVE  \E h : Grown(head, h) /\ g_msg_slots' = [g_msg_slots EXCEPT ![m] = h]
  <2> DEFINE h == [head EXCEPT ![p] = c]
  <2>1. h \in Seq(msg_slot_channel_t) /\ Len(h) = Len(head) /\ DOMAIN h = DOMAIN head
    OBVIOUS
  <2>2. \A i \in 1 .. Len(head) : h[i].id = head[i].id
    BY <1>2
  <2>3. g_msg_slots' = [g_msg_slots EXCEPT ![m] = h]
    BY <1>2 DEF SetChannel
  <2> HIDE DEF h
  <2>4. UniqueIds(h)
    <3>1. ASSUME NEW i \in DOMAIN h, NEW j \in DOMAIN h, h[i].id = h[j].id PROVE i = j
      <4>1. i \in 1 .. Len(head) /\ j \in 1 .. Len(head)
        BY <2>1
      <4>2. head[i].id = head[j].id
        BY <2>2, <3>1, <4>1
      <4> QED
        BY <2>1, <4>2 DEF UniqueIds
    <3> QED
      BY <3>1 DEF UniqueIds
  <2>5. \A i \in 1 .. Len(head) : \E j \in 1 .. Len(h) : h[j].id = head[i].id
    BY <2>1, <2>2
  <2>6. Grown(head, h)
    BY <2>1, <2>4, <2>5 DEF Grown
  <2> QED
    BY <2>3, <2>6
<1> DEFINE c0 == [head[p] EXCEPT !.active = TRUE]
<1>3. c0 \in msg_slot_channel_t /\ c0.id = head[p].id
  BY <1>1 DEF msg_slot_channel_t
<1>4. allocated' \in [Minors -> Int]
  BY DEF Inv, TypeOK, WriteChannel
<1>5. CASE CopyIn(m, head, p, c0, msg)
  <2>1. CASE SetChannel(m, head, p, [c0 EXCEPT !.msg_buffer = msg, !.curr_msg_len = Len(msg)])
    <3>1. [c0 EXCEPT !.msg_buffer = msg, !.curr_msg_len = Len(msg)] \in msg_slot_channel_t
      BY <1>3, BufferType DEF msg_slot_channel_t
    <3>2. [c0 EXCEPT !.msg_buffer = msg, !.curr_msg_len = Len(msg)].id = head[p].id
      BY <1>3 DEF msg_slot_channel_t
    <3> QED
      BY <1>2, <1>4, <2>1, <3>1, <3>2
  <2>2. ASSUME NEW k, SetChannel(m, head, p, [c0 EXCEPT !.msg_buffer = TornCopy(msg, k)])
        PROVE  \E h : Grown(head, h) /\ g_msg_slots' = [g_msg_slots EXCEPT ![m] = h]
    <3>1. [c0 EXCEPT !.msg_buffer = TornCopy(msg, k)] \in msg_slot_channel_t
      BY <1>3, BufferType DEF msg_slot_channel_t
    <3>2. [c0 EXCEPT !.msg_buffer = TornCopy(msg, k)].id = head[p].id
      BY <1>3 DEF msg_slot_channel_t
    <3> QED
      BY <1>2, <2>2, <3>1, <3>2
  <2> QED
    BY <1>4, <1>5, <2>1, <2>2 DEF CopyIn
<1>6. CASE SetChannel(m, head, p, [head[p] EXCEPT !.msg_buffer = NULL])
  <2>1. /\ [head[p] EXCEPT !.msg_buffer = NULL] \in msg_slot_channel_t
        /\ [head[p] EXCEPT !.msg_buffer = NULL].id = head[p].id
    BY <1>1 DEF msg_slot_channel_t
  <2> QED
    BY <1>2, <1>4, <1>6, <2>1
<1> QED
  BY <1>5, <1>6 DEF WriteChannel

ModuleStates == {"absent", "registered", "unregistered", "oops"}

\* A slot in use keeps its list, or the list has grown by what a write adds.
SlotGrows(m) ==
    \/ UNCHANGED g_msg_slots
    \/ /\ g_msg_slots[m] # NULL
       /\ \E h : Grown(g_msg_slots[m], h) /\ g_msg_slots' = [g_msg_slots EXCEPT ![m] = h]

\* The channel found, the channel added, and the head of the list that a failing
\* kmalloc leaves to write to: all three keep the ids unique.
LEMMA WriteMessageEffect ==
    ASSUME Inv, NEW m \in Minors, g_msg_slots[m] # NULL, module \in ModuleStates,
           NEW id \in Channels, NEW msg, Legal(msg), WriteMessage(m, id, msg)
    PROVE  /\ allocated' \in [Minors -> Int]
           /\ module' \in ModuleStates
           /\ SlotGrows(m)
<1> DEFINE head == g_msg_slots[m]
           p == find_channel(head, id)
           wide == WithNewChannel(head, id)
<1>1. head \in Seq(msg_slot_channel_t) /\ UniqueIds(head)
  BY DEF Inv, TypeOK, UniqueChannels
<1>2. p \in 0 .. Len(head)
  BY <1>1, FindChannel
<1>3. CASE p # 0 /\ WriteChannel(m, head, p, 0, msg) /\ UNCHANGED module
  <2>1. p \in 1 .. Len(head)
    BY <1>2, <1>3
  <2> QED
    BY <1>1, <1>3, <2>1, WriteChannelEffect DEF SlotGrows
<1>4. CASE p = 0 /\ WriteChannel(m, wide, 1, 1, msg) /\ UNCHANGED module
  <2>1. /\ wide \in Seq(msg_slot_channel_t)
        /\ 1 \in 1 .. Len(wide)
        /\ \A i \in 1 .. Len(head) : i + 1 \in 1 .. Len(wide) /\ wide[i + 1] = head[i]
    BY <1>1, NewChannel
  <2>2. UniqueIds(wide)
    BY <1>1, <1>4, NewChannelUnique
  <2> HIDE DEF wide
  <2>3. /\ allocated' \in [Minors -> Int]
        /\ \E h : Grown(wide, h) /\ g_msg_slots' = [g_msg_slots EXCEPT ![m] = h]
    BY <1>4, <2>1, <2>2, WriteChannelEffect
  <2>4. ASSUME NEW h, Grown(wide, h) PROVE Grown(head, h)
    BY <2>1, <2>4 DEF Grown
  <2> QED
    BY <1>4, <2>3, <2>4 DEF SlotGrows
<1>5. CASE WriteWithoutChannel(m, head, msg)
  <2>1. CASE head = <<>>
    BY <1>5, <2>1 DEF WriteWithoutChannel, SlotGrows, ModuleStates, Inv, TypeOK
  <2>2. CASE head # <<>>
    <3>1. 1 \in 1 .. Len(head)
      BY <1>1, <2>2
    <3>2. WriteChannel(m, head, 1, 0, msg) /\ UNCHANGED module
      BY <1>5, <2>2 DEF WriteWithoutChannel
    <3> QED
      BY <1>1, <3>1, <3>2, WriteChannelEffect DEF SlotGrows
  <2> QED
    BY <2>1, <2>2
<1> QED
  BY <1>3, <1>4, <1>5 DEF WriteMessage

\* The whole handler: the calls it refuses change nothing.
LEMMA WriteEffect ==
    ASSUME Inv, NEW f \in Files, NEW msg \in UserMessages, device_write(f, msg)
    PROVE  /\ UNCHANGED <<f_minor, private_data>>
           /\ allocated' \in [Minors -> Int]
           /\ module' \in ModuleStates
           /\ \E m \in Minors : SlotGrows(m)
<1>1. f_minor[f] \in Minors /\ g_msg_slots[f_minor[f]] # NULL /\ module \in ModuleStates
  BY DEF device_write, IsOpen, Inv, TypeOK, ModuleStates
<1>2. UNCHANGED <<f_minor, private_data>>
  BY DEF device_write
<1>3. CASE UNCHANGED <<module, g_msg_slots, allocated>>
  BY <1>1, <1>2, <1>3 DEF SlotGrows, Inv, TypeOK
<1>4. CASE /\ private_data[f] # NULL /\ msg # <<>> /\ ~(Len(msg) > MAX_BUF_LEN)
           /\ WriteMessage(f_minor[f], private_data[f], msg)
  <2>1. private_data[f] \in Channels
    BY <1>4 DEF Inv, TypeOK
  <2>2. Legal(msg)
    BY <1>4, MessageSlotAssumption DEF Legal
  <2> QED
    BY <1>1, <1>2, <1>4, <2>1, <2>2, WriteMessageEffect
<1> QED
  BY <1>3, <1>4 DEF device_write

-----------------------------------------------------------------------------
\* The counts of freed blocks are numbers.
LEMMA FreedBlocksType ==
    ASSUME NEW head \in Seq(msg_slot_channel_t)
    PROVE  FreedBlocks(head) \in Int
<1> DEFINE B == {i \in DOMAIN head : head[i].active /\ head[i].msg_buffer # NULL}
<1>1. IsFiniteSet(1 .. Len(head))
  BY FS_Interval
<1>2. IsFiniteSet(B)
  BY <1>1, FS_Subset
<1>3. Cardinality(B) \in Nat
  BY <1>2, FS_CardinalityType
<1> QED
  BY <1>3 DEF FreedBlocks

\* A step of SlotGrows preserves the part of the invariant about the lists.
LEMMA GrowthKeepsLists ==
    ASSUME Inv, NEW m \in Minors, SlotGrows(m)
    PROVE  /\ g_msg_slots' \in [Minors -> Seq(msg_slot_channel_t) \cup {NULL}]
           /\ UniqueChannels'
           /\ \A n \in Minors : g_msg_slots[n] # NULL => g_msg_slots'[n] # NULL
<1>1. CASE UNCHANGED g_msg_slots
  BY <1>1 DEF Inv, TypeOK, UniqueChannels
<1>2. ASSUME NEW h, Grown(g_msg_slots[m], h), g_msg_slots' = [g_msg_slots EXCEPT ![m] = h]
      PROVE  /\ g_msg_slots' \in [Minors -> Seq(msg_slot_channel_t) \cup {NULL}]
             /\ UniqueChannels'
             /\ \A n \in Minors : g_msg_slots[n] # NULL => g_msg_slots'[n] # NULL
  <2>1. h \in Seq(msg_slot_channel_t) /\ UniqueIds(h) /\ h # NULL
    BY <1>2, MessageSlotAssumption DEF Grown
  <2> QED
    BY <1>2, <2>1 DEF Inv, TypeOK, UniqueChannels
<1> QED
  BY <1>1, <1>2 DEF SlotGrows

\* The module is absent and no file is open.
LEMMA InvInit == Init => Inv
  BY MessageSlotAssumption DEF Init, Inv, TypeOK, UniqueChannels

\* Every call preserves the invariant; only device_open, device_write and the
\* unloading touch the lists.
LEMMA InvStep == Inv /\ [Next]_vars => Inv'
<1> SUFFICES ASSUME Inv, [Next]_vars PROVE Inv'
  OBVIOUS
<1> USE DEF Inv, TypeOK
<1>1. CASE msg_slot_init
  BY <1>1 DEF msg_slot_init, UniqueChannels
<1>2. CASE msg_slot_cleanup
  <2>1. ASSUME NEW m \in Minors, g_msg_slots[m] # NULL PROVE FreedBlocks(g_msg_slots[m]) \in Int
    BY <2>1, FreedBlocksType
  <2>2. allocated' \in [Minors -> Int]
    BY <1>2, <2>1 DEF msg_slot_cleanup
  <2> QED
    BY <1>2, <2>2 DEF msg_slot_cleanup, UniqueChannels
<1>3. ASSUME NEW f \in Files, NEW m \in Minors, device_open(f, m) PROVE Inv'
  <2>1. CASE g_msg_slots[m] = NULL
    <3>1. UNCHANGED module /\ init_msg_slot(f, m)
      BY <1>3, <2>1 DEF device_open
    <3>2. <<>> \in Seq(msg_slot_channel_t) /\ <<>> # NULL /\ UniqueIds(<<>>)
      <4>1. <<>> \in Seq(msg_slot_channel_t)
        OBVIOUS
      <4>2. <<>> # NULL
        BY <4>1, MessageSlotAssumption
      <4>3. \A i : i \notin DOMAIN <<>>
        BY DOMAIN <<>> = 1 .. 0
      <4> QED
        BY <4>1, <4>2, <4>3, Zenon DEF UniqueIds
    <3>3. CASE UNCHANGED <<g_msg_slots, f_minor, private_data, allocated>>
      BY <3>1, <3>3 DEF UniqueChannels
    <3>4. CASE /\ g_msg_slots' = [g_msg_slots EXCEPT ![m] = <<>>]
               /\ allocated' = [allocated EXCEPT ![m] = @ + 1]
               /\ OpenFile(f, m)
      <4>1. UniqueChannels'
        BY <3>2, <3>4 DEF UniqueChannels
      <4>2. /\ g_msg_slots' \in [Minors -> Seq(msg_slot_channel_t) \cup {NULL}]
            /\ \A n \in Minors : g_msg_slots[n] # NULL => g_msg_slots'[n] # NULL
            /\ g_msg_slots'[m] # NULL
        BY <3>2, <3>4
      <4>3. /\ f_minor' = [f_minor EXCEPT ![f] = m]
            /\ private_data' = [private_data EXCEPT ![f] = NULL]
        BY <3>4 DEF OpenFile
      <4> QED
        BY <3>1, <3>4, <4>1, <4>2, <4>3
    <3> QED
      BY <3>1, <3>3, <3>4 DEF init_msg_slot
  <2>2. CASE g_msg_slots[m] # NULL
    BY ZenonT(60), <1>3, <2>2 DEF device_open, OpenFile, UniqueChannels
  <2> QED
    BY <2>1, <2>2
<1>4. ASSUME NEW f \in Files, device_release(f) PROVE Inv'
  BY <1>4 DEF device_release, UniqueChannels
<1>5. ASSUME NEW f \in Files, device_ioctl(f) PROVE Inv'
  BY <1>5 DEF device_ioctl, UniqueChannels
<1>6. ASSUME NEW f \in Files, NEW length, device_read(f, length) PROVE Inv'
  <2>1. UNCHANGED <<g_msg_slots, f_minor, private_data, allocated>>
    BY <1>6 DEF device_read
  <2>2. module' \in {"absent", "registered", "unregistered", "oops"}
    BY <1>6 DEF device_read, ReadChannel, CopyOut
  <2> QED
    BY <2>1, <2>2 DEF UniqueChannels
<1>7. ASSUME NEW f \in Files, NEW msg \in UserMessages, device_write(f, msg) PROVE Inv'
  <2>1. /\ UNCHANGED <<f_minor, private_data>>
        /\ allocated' \in [Minors -> Int]
        /\ module' \in ModuleStates
        /\ \E m \in Minors : SlotGrows(m)
    BY <1>7, WriteEffect
  <2>2. /\ g_msg_slots' \in [Minors -> Seq(msg_slot_channel_t) \cup {NULL}]
        /\ UniqueChannels'
        /\ \A n \in Minors : g_msg_slots[n] # NULL => g_msg_slots'[n] # NULL
    BY <2>1, GrowthKeepsLists
  <2> QED
    BY <2>1, <2>2 DEF ModuleStates
<1>8. CASE UNCHANGED vars
  BY <1>8 DEF vars, UniqueChannels
<1> QED
  BY <1>1, <1>2, <1>3, <1>4, <1>5, <1>6, <1>7, <1>8 DEF Next, Call

\* The inductive invariant of the driver holds in every behaviour.
THEOREM InvAlways == Spec => []Inv
  BY InvInit, InvStep, PTL DEF Spec

\* The state keeps its types in every behaviour; in particular a file is only
\* open while its slot exists, so device_read and device_write never follow a
\* NULL slot (line 118 and 158).
THEOREM MessageSlotTypeCorrect == Spec => []TypeOK
<1>1. Inv => TypeOK
  BY DEF Inv
<1> QED
  BY <1>1, InvAlways, PTL

\* A slot's list never holds a channel id twice, whatever fails.
THEOREM UniqueChannelsAlways == Spec => []UniqueChannels
<1>1. Inv => UniqueChannels
  BY DEF Inv
<1> QED
  BY <1>1, InvAlways, PTL

-----------------------------------------------------------------------------
\* A grown list holds the ids it held before.
LEMMA GrowthKeepsUsed ==
    ASSUME Inv, NEW m \in Minors, SlotGrows(m), NEW n \in Minors
    PROVE  Used(n) \subseteq Used(n)'
<1>1. CASE g_msg_slots[n] = NULL
  BY <1>1 DEF Used
<1>2. CASE UNCHANGED g_msg_slots
  BY <1>2 DEF Used
<1>3. ASSUME NEW h, g_msg_slots[n] # NULL, Grown(g_msg_slots[m], h),
             g_msg_slots' = [g_msg_slots EXCEPT ![m] = h]
      PROVE  Used(n) \subseteq Used(n)'
  <2>1. CASE n # m
    <3>1. g_msg_slots'[n] = g_msg_slots[n]
      BY <1>3, <2>1 DEF Inv, TypeOK
    <3> QED
      BY <3>1 DEF Used
  <2>2. CASE n = m
    <3> DEFINE head == g_msg_slots[n]
    <3>1. g_msg_slots'[n] = h /\ h # NULL /\ h \in Seq(msg_slot_channel_t)
      BY <1>3, <2>2, MessageSlotAssumption DEF Inv, TypeOK, Grown
    <3>2. head \in Seq(msg_slot_channel_t)
      BY <1>3 DEF Inv, TypeOK
    <3>3. ASSUME NEW x \in Used(n) PROVE x \in Used(n)'
      <4>1. PICK i \in DOMAIN head : x = head[i].id
        BY <1>3, <3>3 DEF Used, ToSet
      <4>2. i \in 1 .. Len(head)
        BY <3>2, <4>1
      <4>3. PICK j \in 1 .. Len(h) : h[j].id = head[i].id
        BY <1>3, <2>2, <4>2 DEF Grown
      <4>4. j \in DOMAIN h
        BY <3>1, <4>3
      <4> QED
        BY <3>1, <4>1, <4>3, <4>4 DEF Used, ToSet
    <3> QED
      BY <3>3
  <2> QED
    BY <2>1, <2>2
<1> QED
  BY <1>1, <1>2, <1>3 DEF SlotGrows

\* No call of any file drops a slot or a channel, and no failure does: they
\* live until the module is unloaded.
THEOREM ChannelsKeptAlways == Spec => ChannelsKept
<1> DEFINE Kept == \A m \in Minors : /\ g_msg_slots[m] # NULL => g_msg_slots'[m] # NULL
                                     /\ Used(m) \subseteq Used(m)'
<1>1. Inv /\ [Next]_vars => [module' # "absent" => Kept]_vars
  <2> SUFFICES ASSUME Inv, Next, module' # "absent" PROVE Kept
    OBVIOUS
  <2>1. CASE UNCHANGED g_msg_slots
    BY <2>1 DEF Used
  <2>2. ASSUME NEW m \in Minors, g_msg_slots[m] = NULL,
               g_msg_slots' = [g_msg_slots EXCEPT ![m] = <<>>]
        PROVE  Kept
    <3>1. \A n \in Minors : g_msg_slots[n] # NULL => g_msg_slots'[n] = g_msg_slots[n]
      BY <2>2 DEF Inv, TypeOK
    <3> QED
      BY <3>1 DEF Used
  <2>3. ASSUME NEW m \in Minors, SlotGrows(m) PROVE Kept
    BY <2>3, GrowthKeepsLists, GrowthKeepsUsed
  <2>4. CASE msg_slot_init \/ msg_slot_cleanup
    BY <2>1, <2>4 DEF msg_slot_init, msg_slot_cleanup
  <2>5. ASSUME NEW f \in Files, Call(f) PROVE Kept
    <3>1. CASE \E m \in Minors : device_open(f, m)
      BY <2>1, <2>2, <3>1 DEF device_open, init_msg_slot
    <3>2. CASE device_release(f) \/ device_ioctl(f)
      BY <2>1, <3>2 DEF device_release, device_ioctl
    <3>3. CASE \E length \in 0 .. MAX_BUF_LEN + 1 : device_read(f, length)
      BY <2>1, <3>3 DEF device_read
    <3>4. CASE \E msg \in UserMessages : device_write(f, msg)
      BY <2>3, <3>4, WriteEffect
    <3> QED
      BY <2>5, <3>1, <3>2, <3>3, <3>4 DEF Call
  <2> QED
    BY <2>4, <2>5 DEF Next
<1> QED
  BY <1>1, InvAlways, PTL DEF Spec, ChannelsKept

=============================================================================
