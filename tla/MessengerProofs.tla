-------------------------- MODULE MessengerProofs --------------------------
(***************************************************************************)
(* Proofs about the driver and the programs on top of it, for every number *)
(* of minors, channels, files and programs: the messages are whole, the    *)
(* memory is freed, message_reader prints what was written, and the driver *)
(* implements the message board.  Each theorem names the failures it       *)
(* excludes; the others may happen at any time.                            *)
(***************************************************************************)
EXTENDS Messenger, MessageSlotProofs, FunctionTheorems

-----------------------------------------------------------------------------
(***************************************************************************)
(* The programs use the driver through its calls.                          *)
(***************************************************************************)
\* Every step of a program is a call of its file or leaves the driver alone.
LEMMA ProgramStep ==
    ASSUME NEW f \in ProgramFiles, Program(f)
    PROVE  Call(f) \/ UNCHANGED vars
<1>1. MAX_BUF_LEN \in 0 .. MAX_BUF_LEN + 1
  BY MessageSlotAssumption
<1> QED
  BY <1>1 DEF Program, Open, SetDesiredChannel, SendMessage, ReadMessage, Close, PrintMessage,
              Exit, Killed, Call

\* A step of the programs on the driver is a step of the driver, or leaves it alone.
LEMMA MessengerStep == [MNext]_mvars => [Next]_vars
<1>1. ProgramFiles \subseteq Files
  BY MessengerAssumption
<1>2. MNext => Next \/ UNCHANGED vars
  BY <1>1, ProgramStep DEF MNext, Next
<1> QED
  BY <1>2 DEF mvars

\* What holds of the driver holds of the driver with its programs.
THEOREM MessengerUsesDriver == MSpec => Spec
<1>1. MInit => Init
  BY DEF MInit
<1> QED
  BY <1>1, MessengerStep, PTL DEF MSpec, Spec

-----------------------------------------------------------------------------
(***************************************************************************)
(* What a write leaves in the list of its slot, as a set of channels.      *)
(***************************************************************************)
\* The channels of a list other than id.
Others(head, id) == {d \in ToSet(head) : d.id # id}

\* Rewriting an entry replaces one channel.
LEMMA SetOneChannel ==
    ASSUME NEW head \in Seq(msg_slot_channel_t), UniqueIds(head), NEW p \in 1 .. Len(head),
           NEW c
    PROVE  ToSet([head EXCEPT ![p] = c]) = Others(head, head[p].id) \cup {c}
<1> DEFINE h == [head EXCEPT ![p] = c]
<1>1. DOMAIN head = 1 .. Len(head) /\ DOMAIN h = DOMAIN head
  OBVIOUS
<1>2. h[p] = c /\ \A q \in DOMAIN head : q # p => h[q] = head[q]
  BY <1>1
<1> HIDE DEF h
<1>3. \A q \in DOMAIN head : head[q].id = head[p].id <=> q = p
  BY <1>1 DEF UniqueIds
<1>4. ToSet(h) = {h[q] : q \in DOMAIN h} /\ ToSet(head) = {head[q] : q \in DOMAIN head}
  BY DEF ToSet
<1>5. ASSUME NEW d \in ToSet(h) PROVE d \in Others(head, head[p].id) \cup {c}
  BY <1>1, <1>2, <1>3, <1>4 DEF Others
<1>6. ASSUME NEW d \in Others(head, head[p].id) PROVE d \in ToSet(h)
  BY <1>1, <1>2, <1>3, <1>4 DEF Others
<1>7. c \in ToSet(h)
  BY <1>1, <1>2, <1>4
<1> QED
  BY <1>5, <1>6, <1>7 DEF h

\* Adding a channel that is not in the list leaves the others.
LEMMA AddOneChannel ==
    ASSUME NEW head \in Seq(msg_slot_channel_t), NEW id \in Channels, find_channel(head, id) = 0
    PROVE  Others(WithNewChannel(head, id), id) = ToSet(head) /\ Others(head, id) = ToSet(head)
<1> DEFINE h == WithNewChannel(head, id)
<1>1. /\ h \in Seq(msg_slot_channel_t) /\ Len(h) = Len(head) + 1 /\ h[1].id = id
      /\ \A i \in 1 .. Len(head) : h[i + 1] = head[i]
  BY NewChannel
<1> HIDE DEF h
<1>2. \A i \in 1 .. Len(head) : head[i].id # id
  BY FindChannel
<1>3. DOMAIN h = 1 .. Len(h) /\ DOMAIN head = 1 .. Len(head)
  BY <1>1
<1>4. ToSet(h) = {h[q] : q \in DOMAIN h} /\ ToSet(head) = {head[q] : q \in DOMAIN head}
  BY DEF ToSet
<1>5. ASSUME NEW d \in Others(h, id) PROVE d \in ToSet(head)
  <2>1. PICK q \in 1 .. Len(h) : d = h[q] /\ q # 1
    BY <1>1, <1>3, <1>4 DEF Others
  <2>2. q - 1 \in 1 .. Len(head) /\ h[q] = head[q - 1]
    BY <1>1, <2>1
  <2> QED
    BY <1>3, <1>4, <2>1, <2>2
<1>6. ASSUME NEW d \in ToSet(head) PROVE d \in Others(h, id) /\ d \in Others(head, id)
  <2>1. PICK q \in 1 .. Len(head) : d = head[q]
    BY <1>3, <1>4
  <2>2. q + 1 \in 1 .. Len(h) /\ h[q + 1] = d /\ d.id # id
    BY <1>1, <1>2, <2>1
  <2> QED
    BY <1>3, <1>4, <2>2 DEF Others
<1> QED
  BY <1>5, <1>6 DEF Others, h

\* A channel that keeps the whole message msg.
Keeping(id, msg) ==
    [id |-> id, active |-> TRUE, msg_buffer |-> msg, curr_msg_len |-> Len(msg)]

\* The list of minor m becomes one in which channel c has replaced what head had for its
\* id.
Replaced(m, head, c) ==
    \E h \in Seq(msg_slot_channel_t) :
        /\ g_msg_slots' = [g_msg_slots EXCEPT ![m] = h]
        /\ UniqueIds(h)
        /\ ToSet(h) = Others(head, c.id) \cup {c}

\* The two outcomes of a write to channel id when memory is only refused to a first
\* write: the message is kept, or the channel stays without one.
WriteOutcome(m, head, id, msg) ==
    \/ Replaced(m, head, Keeping(id, msg)) /\ Ok(Len(msg), msg)
    \/ /\ \E c \in msg_slot_channel_t : c.id = id /\ ~c.active /\ Replaced(m, head, c)
       /\ \A d \in ToSet(head) : d.id = id => ~d.active
       /\ Error("ENOMEM")

\* Lines 172 to 197, when no krealloc and no copy_from_user fails.
LEMMA WriteChannelOutcome ==
    ASSUME "krealloc" \notin Faults, "copy_from_user" \notin Faults,
           NEW m, NEW head \in Seq(msg_slot_channel_t), UniqueIds(head),
           NEW p \in 1 .. Len(head), NEW new, NEW msg, Legal(msg),
           WriteChannel(m, head, p, new, msg)
    PROVE  WriteOutcome(m, head, head[p].id, msg)
<1> DEFINE id == head[p].id
<1>1. head[p] \in msg_slot_channel_t
  OBVIOUS
<1>2. ASSUME NEW c \in msg_slot_channel_t, c.id = id, SetChannel(m, head, p, c)
      PROVE  Replaced(m, head, c)
  <2> DEFINE h == [head EXCEPT ![p] = c]
  <2>1. h \in Seq(msg_slot_channel_t) /\ Len(h) = Len(head) /\ DOMAIN h = DOMAIN head
    OBVIOUS
  <2>2. \A i \in 1 .. Len(head) : h[i].id = head[i].id
    BY <1>2
  <2>3. g_msg_slots' = [g_msg_slots EXCEPT ![m] = h]
    BY <1>2 DEF SetChannel
  <2>4. ToSet(h) = Others(head, c.id) \cup {c}
    <3>1. ToSet([head EXCEPT ![p] = c]) = Others(head, head[p].id) \cup {c}
      BY SetOneChannel
    <3> QED
      BY <1>2, <3>1
  <2> HIDE DEF h
  <2>5. DOMAIN head = 1 .. Len(head)
    OBVIOUS
  <2>6. UniqueIds(h)
    BY <2>1, <2>2, <2>5 DEF UniqueIds
  <2> QED
    BY <2>1, <2>3, <2>4, <2>6 DEF Replaced
<1>3. CASE CopyIn(m, head, p, [head[p] EXCEPT !.active = TRUE], msg)
  <2> DEFINE c == [[head[p] EXCEPT !.active = TRUE]
                     EXCEPT !.msg_buffer = msg, !.curr_msg_len = Len(msg)]
  <2>1. SetChannel(m, head, p, c) /\ Ok(Len(msg), msg)
    BY <1>3 DEF CopyIn
  <2>2. c = Keeping(id, msg) /\ c.id = id /\ c \in msg_slot_channel_t
    <3>1. msg \in Buffers /\ Len(msg) \in 1 .. MAX_BUF_LEN
      BY BufferType
    <3>2. c \in msg_slot_channel_t
      BY <1>1, <3>1 DEF msg_slot_channel_t
    <3>3. c.id = id /\ c.active = TRUE /\ c.msg_buffer = msg /\ c.curr_msg_len = Len(msg)
      BY <1>1 DEF msg_slot_channel_t
    <3> HIDE DEF c
    <3>4. c = [id |-> c.id, active |-> c.active, msg_buffer |-> c.msg_buffer,
               curr_msg_len |-> c.curr_msg_len]
      BY <3>2 DEF msg_slot_channel_t
    <3> QED
      BY <3>2, <3>3, <3>4 DEF Keeping
  <2> HIDE DEF c
  <2> QED
    BY <1>2, <2>1, <2>2 DEF WriteOutcome
<1>4. CASE /\ ~head[p].active
           /\ SetChannel(m, head, p, [head[p] EXCEPT !.msg_buffer = NULL])
           /\ Error("ENOMEM")
  <2> DEFINE c == [head[p] EXCEPT !.msg_buffer = NULL]
  <2>1. c \in msg_slot_channel_t /\ c.id = id /\ ~c.active
    BY <1>1, <1>4 DEF msg_slot_channel_t
  <2>2. Replaced(m, head, c)
    BY <1>2, <1>4, <2>1
  <2> HIDE DEF c
  <2>3. ASSUME NEW d \in ToSet(head), d.id = id PROVE ~d.active
    <3>1. PICK q \in DOMAIN head : d = head[q]
      BY <2>3 DEF ToSet
    <3>2. q = p
      BY <2>3, <3>1 DEF UniqueIds
    <3> QED
      BY <1>4, <3>1, <3>2
  <2> QED
    BY <1>4, <2>1, <2>2, <2>3 DEF WriteOutcome
<1> QED
  BY <1>3, <1>4 DEF WriteChannel

\* The channel that a write of channel id ends up with: another one only when kmalloc
\* of a channel may fail.
LEMMA WriteMessageOutcome ==
    ASSUME "krealloc" \notin Faults, "copy_from_user" \notin Faults, Inv,
           NEW m \in Minors, g_msg_slots[m] # NULL, NEW id \in Channels, NEW msg, Legal(msg),
           WriteMessage(m, id, msg)
    PROVE  \/ /\ "channel" \in Faults /\ module' = "oops" /\ Error("EFAULT")
              /\ UNCHANGED g_msg_slots
           \/ /\ UNCHANGED module
              /\ \E other \in Channels : /\ "channel" \notin Faults => other = id
                                         /\ WriteOutcome(m, g_msg_slots[m], other, msg)
<1> DEFINE head == g_msg_slots[m]
           p == find_channel(head, id)
           wide == WithNewChannel(head, id)
<1>1. head \in Seq(msg_slot_channel_t) /\ UniqueIds(head)
  BY DEF Inv, TypeOK, UniqueChannels
<1>2. p \in 0 .. Len(head) /\ (p # 0 => head[p].id = id)
  BY <1>1, FindChannel
<1>3. CASE p # 0 /\ WriteChannel(m, head, p, 0, msg) /\ UNCHANGED module
  <2>1. p \in 1 .. Len(head)
    BY <1>2, <1>3
  <2>2. WriteOutcome(m, head, head[p].id, msg)
    BY <1>1, <1>3, <2>1, WriteChannelOutcome
  <2> QED
    BY <1>2, <1>3, <2>2
<1>4. CASE p = 0 /\ WriteChannel(m, wide, 1, 1, msg) /\ UNCHANGED module
  <2>1. wide \in Seq(msg_slot_channel_t) /\ 1 \in 1 .. Len(wide) /\ wide[1].id = id
    BY <1>1, NewChannel
  <2>2. UniqueIds(wide)
    BY <1>1, <1>4, NewChannelUnique
  <2>3. Others(wide, id) = Others(head, id) /\ \A d \in ToSet(head) : d.id # id
    BY <1>1, <1>4, AddOneChannel DEF Others
  <2> HIDE DEF wide
  <2>4. WriteOutcome(m, wide, id, msg)
    BY <1>4, <2>1, <2>2, WriteChannelOutcome
  <2>5. \A c : c.id = id => (Replaced(m, wide, c) <=> Replaced(m, head, c))
    BY <2>3 DEF Replaced
  <2>6. Keeping(id, msg).id = id
    BY DEF Keeping
  <2>7. WriteOutcome(m, head, id, msg)
    BY <2>3, <2>4, <2>5, <2>6 DEF WriteOutcome
  <2> QED
    BY <1>4, <2>7
<1>5. CASE WriteWithoutChannel(m, head, msg)
  <2>1. CASE head = <<>>
    BY <1>5, <2>1 DEF WriteWithoutChannel
  <2>2. CASE head # <<>>
    <3>1. 1 \in 1 .. Len(head)
      BY <1>1, <2>2
    <3>2. WriteChannel(m, head, 1, 0, msg) /\ UNCHANGED module /\ "channel" \in Faults
      BY <1>5, <2>2 DEF WriteWithoutChannel
    <3>3. WriteOutcome(m, head, head[1].id, msg)
      BY <1>1, <3>1, <3>2, WriteChannelOutcome
    <3>4. head[1].id \in Channels
      <4>1. head[1] \in msg_slot_channel_t
        BY <1>1, <3>1
      <4> QED
        BY <4>1 DEF msg_slot_channel_t
    <3> QED
      BY <3>2, <3>3, <3>4
  <2> QED
    BY <2>1, <2>2
<1> QED
  BY <1>3, <1>4, <1>5 DEF WriteMessage

\* The whole handler: it refuses the call, or it writes.
LEMMA WriteCall ==
    ASSUME Inv, NEW f \in Files, NEW msg \in UserMessages, device_write(f, msg)
    PROVE  /\ f_minor[f] \in Minors /\ g_msg_slots[f_minor[f]] # NULL
           /\ UNCHANGED <<f_minor, private_data>>
           /\ \/ /\ Error("EINVAL") \/ Error("EMSGSIZE")
                 /\ UNCHANGED <<module, g_msg_slots, allocated>>
              \/ /\ private_data[f] \in Channels /\ Legal(msg)
                 /\ WriteMessage(f_minor[f], private_data[f], msg)
<1>1. f_minor[f] \in Minors /\ g_msg_slots[f_minor[f]] # NULL
  BY DEF device_write, IsOpen, Inv, TypeOK
<1>2. CASE /\ private_data[f] # NULL /\ msg # <<>> /\ ~(Len(msg) > MAX_BUF_LEN)
           /\ WriteMessage(f_minor[f], private_data[f], msg)
  <2>1. private_data[f] \in Channels
    BY <1>2 DEF Inv, TypeOK
  <2>2. Legal(msg)
    BY <1>2, MessageSlotAssumption DEF Legal
  <2> QED
    BY <1>1, <1>2, <2>1, <2>2 DEF device_write
<1>3. CASE (Error("EINVAL") \/ Error("EMSGSIZE")) /\ UNCHANGED <<module, g_msg_slots, allocated>>
  BY <1>1, <1>3 DEF device_write
<1> QED
  BY <1>2, <1>3 DEF device_write

-----------------------------------------------------------------------------
(***************************************************************************)
(* The messages are whole.                                                 *)
(***************************************************************************)
\* Every active channel keeps a message that some program wrote.
Kept ==
    \A m \in Minors : g_msg_slots[m] # NULL =>
        \A c \in ToSet(g_msg_slots[m]) :
            c.active => Legal(c.msg_buffer) /\ c.curr_msg_len = Len(c.msg_buffer)

\* What the invariants say of the text of a message is MessageWhole.
LEMMA KeptWhole == Inv /\ Kept => MessageWhole
<1> SUFFICES ASSUME Inv, Kept, NEW m \in Minors, g_msg_slots[m] # NULL,
                    NEW c \in ToSet(g_msg_slots[m]), c.active
             PROVE  /\ c.msg_buffer # NULL /\ c.curr_msg_len = Len(c.msg_buffer)
                    /\ c.curr_msg_len \in 1 .. MAX_BUF_LEN
  BY DEF MessageWhole
<1>1. Legal(c.msg_buffer) /\ c.curr_msg_len = Len(c.msg_buffer)
  BY DEF Kept
<1>2. c.msg_buffer \in Buffers /\ Len(c.msg_buffer) \in 1 .. MAX_BUF_LEN
  BY <1>1, BufferType
<1> QED
  BY <1>1, <1>2, MessageSlotAssumption

\* Every step keeps the texts of the messages, when write never fails half way.
LEMMA KeptStep ==
    ASSUME "krealloc" \notin Faults, "copy_from_user" \notin Faults, Inv, Kept, [Next]_vars
    PROVE  Kept'
<1>1. CASE UNCHANGED g_msg_slots
  BY <1>1 DEF Kept
<1>2. ASSUME NEW m \in Minors, g_msg_slots' = [g_msg_slots EXCEPT ![m] = <<>>]
      PROVE  Kept'
  <2>1. ToSet(<<>>) = {}
    BY DOMAIN <<>> = 1 .. 0 DEF ToSet
  <2> QED
    BY <1>2, <2>1 DEF Kept, Inv, TypeOK
<1>3. ASSUME NEW m \in Minors, g_msg_slots[m] # NULL, NEW c, Replaced(m, g_msg_slots[m], c),
             c.active => Legal(c.msg_buffer) /\ c.curr_msg_len = Len(c.msg_buffer)
      PROVE  Kept'
  <2>1. PICK h \in Seq(msg_slot_channel_t) : /\ g_msg_slots' = [g_msg_slots EXCEPT ![m] = h]
                                             /\ ToSet(h) = Others(g_msg_slots[m], c.id) \cup {c}
    BY <1>3 DEF Replaced
  <2>2. \A d \in ToSet(h) :
          d.active => Legal(d.msg_buffer) /\ d.curr_msg_len = Len(d.msg_buffer)
    BY <1>3, <2>1 DEF Others, Kept
  <2> QED
    BY <2>1, <2>2 DEF Kept, Inv, TypeOK
<1>4. CASE msg_slot_init
  BY <1>1, <1>4 DEF msg_slot_init
<1>5. CASE msg_slot_cleanup
  BY <1>5 DEF msg_slot_cleanup, Kept
<1>6. ASSUME NEW f \in Files, NEW m \in Minors, device_open(f, m) PROVE Kept'
  BY <1>1, <1>2, <1>6 DEF device_open, init_msg_slot
<1>7. ASSUME NEW f \in Files, NEW length, device_release(f) \/ device_ioctl(f) \/ device_read(f, length)
      PROVE  Kept'
  BY <1>1, <1>7 DEF device_release, device_ioctl, device_read
<1>8. ASSUME NEW f \in Files, NEW msg \in UserMessages, device_write(f, msg) PROVE Kept'
  <2> DEFINE m == f_minor[f]
  <2>1. m \in Minors /\ g_msg_slots[m] # NULL
    BY <1>8, WriteCall
  <2>2. CASE UNCHANGED g_msg_slots
    BY <1>1, <2>2
  <2>3. CASE \E id \in Channels : WriteOutcome(m, g_msg_slots[m], id, msg) /\ Legal(msg)
    <3>1. PICK id \in Channels : WriteOutcome(m, g_msg_slots[m], id, msg) /\ Legal(msg)
      BY <2>3
    <3>2. Keeping(id, msg).msg_buffer = msg /\ Keeping(id, msg).curr_msg_len = Len(msg)
      BY DEF Keeping
    <3>3. CASE Replaced(m, g_msg_slots[m], Keeping(id, msg))
      BY <1>3, <2>1, <3>1, <3>2, <3>3
    <3>4. ASSUME NEW c, ~c.active, Replaced(m, g_msg_slots[m], c) PROVE Kept'
      BY <1>3, <2>1, <3>4
    <3> QED
      BY <3>1, <3>3, <3>4 DEF WriteOutcome
  <2> QED
    BY <1>8, <2>2, <2>3, WriteCall, WriteMessageOutcome
<1>9. CASE UNCHANGED vars
  BY <1>1, <1>9 DEF vars
<1> QED
  BY <1>4, <1>5, <1>6, <1>7, <1>8, <1>9 DEF Next, Call

\* As long as krealloc and copy_from_user do not fail, every active channel keeps the
\* whole of one message, also when other allocations fail.
LEMMA KeptAlways ==
    ASSUME "krealloc" \notin Faults, "copy_from_user" \notin Faults
    PROVE  Spec => []Kept
<1>1. Init => Kept
  BY DEF Init, Kept
<1>2. Inv /\ Kept /\ [Next]_vars => Kept'
  BY KeptStep
<1> QED
  BY <1>1, <1>2, InvAlways, PTL DEF Spec

\* device_read hands out whole messages of a legal length, and never fresh memory, as
\* long as krealloc and copy_from_user do not fail.
THEOREM MessagesWhole ==
    ASSUME "krealloc" \notin Faults, "copy_from_user" \notin Faults
    PROVE  Spec => []MessageWhole
BY KeptAlways, KeptWhole, InvAlways, PTL

-----------------------------------------------------------------------------
(***************************************************************************)
(* The memory is freed.                                                    *)
(***************************************************************************)
\* The positions of a list whose message buffers free_channel_lst frees.
Held(head) == {p \in DOMAIN head : head[p].active /\ head[p].msg_buffer # NULL}

\* Every active channel has a buffer: what no failing krealloc has taken away.
Buffered(head) == \A p \in DOMAIN head : head[p].active => head[p].msg_buffer # NULL

\* A list holds finitely many buffers, and freeing it frees the slot, every channel and
\* these buffers.
LEMMA HeldFinite ==
    ASSUME NEW head \in Seq(msg_slot_channel_t)
    PROVE  /\ IsFiniteSet(Held(head)) /\ Cardinality(Held(head)) \in Nat
           /\ FreedBlocks(head) = 1 + Len(head) + Cardinality(Held(head))
<1>1. IsFiniteSet(1 .. Len(head)) /\ DOMAIN head = 1 .. Len(head)
  BY FS_Interval
<1>2. IsFiniteSet(Held(head))
  BY <1>1, FS_Subset DEF Held
<1> QED
  BY <1>2, FS_CardinalityType DEF FreedBlocks, Held

\* A new channel is one block more; it has no buffer yet.
LEMMA NewChannelBlocks ==
    ASSUME NEW head \in Seq(msg_slot_channel_t), NEW id \in Channels
    PROVE  /\ FreedBlocks(WithNewChannel(head, id)) = FreedBlocks(head) + 1
           /\ Buffered(head) => Buffered(WithNewChannel(head, id))
<1> DEFINE h == WithNewChannel(head, id)
<1>1. /\ h \in Seq(msg_slot_channel_t) /\ Len(h) = Len(head) + 1
      /\ \A i \in 1 .. Len(head) : h[i + 1] = head[i]
  BY NewChannel
<1>2. ~h[1].active
  BY DEF WithNewChannel
<1> HIDE DEF h
<1>3. DOMAIN h = 1 .. Len(h) /\ DOMAIN head = 1 .. Len(head) /\ Len(head) \in Nat
  BY <1>1
<1>4. \A q \in 1 .. Len(h) : q # 1 => q - 1 \in 1 .. Len(head) /\ h[q] = head[q - 1]
  BY <1>1, <1>3
<1> DEFINE F == [q \in Held(head) |-> q + 1]
<1>5. F \in [Held(head) -> Held(h)]
  BY <1>1, <1>3 DEF Held
<1>6. \A q, r \in Held(head) : F[q] = F[r] => q = r
  BY <1>3 DEF Held
<1>7. ASSUME NEW r \in Held(h) PROVE \E q \in Held(head) : F[q] = r
  <2>1. r # 1 /\ r \in 1 .. Len(h)
    BY <1>2, <1>3 DEF Held
  <2>2. r - 1 \in Held(head)
    BY <1>3, <1>4, <2>1 DEF Held
  <2> QED
    BY <2>1, <2>2
<1> HIDE DEF F
<1>8. F \in Bijection(Held(head), Held(h))
  BY <1>5, <1>6, <1>7, Fun_IsBij
<1>9. ExistsBijection(Held(head), Held(h))
  BY <1>8 DEF ExistsBijection
<1>10. Cardinality(Held(h)) = Cardinality(Held(head))
  BY <1>9, HeldFinite, FS_Bijection
<1>11. Buffered(head) => Buffered(h)
  BY <1>2, <1>3, <1>4 DEF Buffered
<1>12. FreedBlocks(h) = FreedBlocks(head) + 1
  BY <1>1, <1>3, <1>10, HeldFinite
<1> QED
  BY <1>11, <1>12 DEF h

\* The list of minor m becomes h, and as many blocks are held for it as its release frees.
Accounted(m) ==
    \E h \in Seq(msg_slot_channel_t) :
        /\ Buffered(h)
        /\ g_msg_slots' = [g_msg_slots EXCEPT ![m] = h]
        /\ allocated' = [allocated EXCEPT ![m] = FreedBlocks(h)]

\* Lines 172 to 197 account for the blocks they allocate, whether or not the copy fails.
LEMMA WriteChannelBlocks ==
    ASSUME "krealloc" \notin Faults, Inv, NEW m \in Minors,
           NEW head \in Seq(msg_slot_channel_t), Buffered(head),
           NEW p \in 1 .. Len(head), NEW new \in {0, 1}, NEW msg, Legal(msg),
           allocated[m] + new = FreedBlocks(head),
           WriteChannel(m, head, p, new, msg)
    PROVE  Accounted(m)
<1> DEFINE c0 == head[p]
           fresh == IF c0.active /\ c0.msg_buffer # NULL THEN 0 ELSE 1
<1>1. c0 \in msg_slot_channel_t /\ DOMAIN head = 1 .. Len(head) /\ Len(head) \in Nat
  OBVIOUS
<1>2. allocated \in [Minors -> Int]
  BY DEF Inv, TypeOK
<1>3. ASSUME NEW c \in msg_slot_channel_t, SetChannel(m, head, p, c), c.active, c.msg_buffer # NULL,
             allocated' = [allocated EXCEPT ![m] = @ + new + fresh]
      PROVE  Accounted(m)
  <2> DEFINE h == [head EXCEPT ![p] = c]
  <2>1. h \in Seq(msg_slot_channel_t) /\ Len(h) = Len(head) /\ DOMAIN h = DOMAIN head
    OBVIOUS
  <2>2. h[p] = c /\ \A q \in DOMAIN head : q # p => h[q] = head[q]
    BY <1>1
  <2>3. g_msg_slots' = [g_msg_slots EXCEPT ![m] = h]
    BY <1>3 DEF SetChannel
  <2> HIDE DEF h
  <2>4. Held(h) = Held(head) \cup {p}
    BY <1>1, <1>3, <2>1, <2>2 DEF Held
  <2>5. p \in Held(head) <=> c0.active /\ c0.msg_buffer # NULL
    BY <1>1 DEF Held
  <2>6. Cardinality(Held(h)) = Cardinality(Held(head)) + fresh
    <3>1. IsFiniteSet(Held(head)) /\ Cardinality(Held(head)) \in Nat
      BY HeldFinite
    <3>2. Cardinality(Held(h)) = IF p \in Held(head) THEN Cardinality(Held(head))
                                                    ELSE Cardinality(Held(head)) + 1
      BY <2>4, <3>1, FS_AddElement
    <3> QED
      BY <2>5, <3>1, <3>2
  <2>7. FreedBlocks(h) = FreedBlocks(head) + fresh /\ FreedBlocks(head) \in Int
    <3>1. fresh \in {0, 1}
      OBVIOUS
    <3> HIDE DEF fresh
    <3>2. /\ FreedBlocks(head) = 1 + Len(head) + Cardinality(Held(head))
          /\ Cardinality(Held(head)) \in Nat
      BY HeldFinite
    <3>3. FreedBlocks(h) = 1 + Len(h) + Cardinality(Held(h))
      BY <2>1, HeldFinite
    <3>4. PICK n \in Nat, k \in Nat : n = Len(head) /\ k = Cardinality(Held(head))
      BY <3>2
    <3>5. FreedBlocks(head) = 1 + n + k /\ FreedBlocks(h) = 1 + n + (k + fresh)
      BY <2>1, <2>6, <3>2, <3>3, <3>4
    <3> QED
      BY <3>1, <3>4, <3>5
  <2>8. Buffered(h)
    BY <1>3, <2>1, <2>2 DEF Buffered
  <2>9. allocated' = [allocated EXCEPT ![m] = FreedBlocks(h)]
    <3>1. allocated[m] + new + fresh = FreedBlocks(h)
      BY <2>7
    <3> QED
      BY <1>3, <3>1
  <2> QED
    BY <2>1, <2>3, <2>8, <2>9 DEF Accounted
<1>4. ASSUME NEW c \in msg_slot_channel_t, SetChannel(m, head, p, c), ~c.active, ~c0.active,
             allocated' = [allocated EXCEPT ![m] = @ + new]
      PROVE  Accounted(m)
  <2> DEFINE h == [head EXCEPT ![p] = c]
  <2>1. h \in Seq(msg_slot_channel_t) /\ Len(h) = Len(head) /\ DOMAIN h = DOMAIN head
    OBVIOUS
  <2>2. h[p] = c /\ \A q \in DOMAIN head : q # p => h[q] = head[q]
    BY <1>1
  <2>3. g_msg_slots' = [g_msg_slots EXCEPT ![m] = h]
    BY <1>4 DEF SetChannel
  <2> HIDE DEF h
  <2>4. Held(h) = Held(head)
    BY <1>1, <1>4, <2>1, <2>2 DEF Held
  <2>5. FreedBlocks(h) = FreedBlocks(head)
    BY <2>1, <2>4, HeldFinite
  <2>6. Buffered(h)
    BY <1>4, <2>1, <2>2 DEF Buffered
  <2>7. allocated' = [allocated EXCEPT ![m] = FreedBlocks(h)]
    BY <1>4, <2>5
  <2> QED
    BY <2>1, <2>3, <2>6, <2>7 DEF Accounted
<1>5. CASE /\ allocated' = [allocated EXCEPT ![m] = @ + new + fresh]
           /\ CopyIn(m, head, p, [c0 EXCEPT !.active = TRUE], msg)
  <2> DEFINE ca == [c0 EXCEPT !.active = TRUE]
  <2>1. ca \in msg_slot_channel_t /\ ca.active
    BY <1>1 DEF msg_slot_channel_t
  <2> HIDE DEF ca
  <2>2. ASSUME NEW b \in Buffers, NEW n \in 1 .. MAX_BUF_LEN,
               \/ SetChannel(m, head, p, [ca EXCEPT !.msg_buffer = b, !.curr_msg_len = n])
               \/ SetChannel(m, head, p, [ca EXCEPT !.msg_buffer = b])
        PROVE  Accounted(m)
    <3> DEFINE c1 == [ca EXCEPT !.msg_buffer = b, !.curr_msg_len = n]
               c2 == [ca EXCEPT !.msg_buffer = b]
    <3>1. c1 \in msg_slot_channel_t /\ c1.active /\ c1.msg_buffer = b
      BY <2>1 DEF msg_slot_channel_t
    <3>2. c2 \in msg_slot_channel_t /\ c2.active /\ c2.msg_buffer = b
      BY <2>1 DEF msg_slot_channel_t
    <3>3. b # NULL
      BY MessageSlotAssumption
    <3>4. SetChannel(m, head, p, c1) \/ SetChannel(m, head, p, c2)
      BY <2>2
    <3> HIDE DEF c1, c2
    <3> QED
      BY <1>3, <1>5, <3>1, <3>2, <3>3, <3>4
  <2>3. /\ msg \in Buffers /\ Len(msg) \in 1 .. MAX_BUF_LEN
        /\ \A k : TornCopy(msg, k) \in Buffers
    BY BufferType
  <2>4. \/ SetChannel(m, head, p, [ca EXCEPT !.msg_buffer = msg, !.curr_msg_len = Len(msg)])
        \/ \E k \in 0 .. Len(msg) - 1 :
              SetChannel(m, head, p, [ca EXCEPT !.msg_buffer = TornCopy(msg, k)])
    BY <1>5 DEF CopyIn, ca
  <2> QED
    BY <2>2, <2>3, <2>4
<1>6. CASE /\ ~c0.active
           /\ allocated' = [allocated EXCEPT ![m] = @ + new]
           /\ SetChannel(m, head, p, [c0 EXCEPT !.msg_buffer = NULL])
  <2> DEFINE c == [c0 EXCEPT !.msg_buffer = NULL]
  <2>1. c \in msg_slot_channel_t /\ ~c.active
    BY <1>1, <1>6 DEF msg_slot_channel_t
  <2> HIDE DEF c
  <2>2. SetChannel(m, head, p, c)
    BY <1>6 DEF c
  <2> QED
    BY <1>4, <1>6, <2>1, <2>2
<1> QED
  BY <1>5, <1>6 DEF WriteChannel

\* As many blocks are held for every minor as free_channel_lst and the kfree after it
\* release.
Balanced ==
    \A m \in Minors :
        IF g_msg_slots[m] = NULL THEN allocated[m] = 0
        ELSE Buffered(g_msg_slots[m]) /\ allocated[m] = FreedBlocks(g_msg_slots[m])

\* A step that accounts for one minor keeps the balance of all.
LEMMA AccountedKeepsBalance ==
    ASSUME Inv, Balanced, NEW m \in Minors, Accounted(m)
    PROVE  Balanced'
<1>1. PICK h \in Seq(msg_slot_channel_t) :
         /\ Buffered(h)
         /\ g_msg_slots' = [g_msg_slots EXCEPT ![m] = h]
         /\ allocated' = [allocated EXCEPT ![m] = FreedBlocks(h)]
  BY DEF Accounted
<1>2. h # NULL
  BY MessageSlotAssumption
<1>3. /\ g_msg_slots'[m] = h /\ allocated'[m] = FreedBlocks(h)
      /\ \A n \in Minors : n # m => g_msg_slots'[n] = g_msg_slots[n] /\ allocated'[n] = allocated[n]
  BY <1>1 DEF Inv, TypeOK
<1> QED
  BY <1>1, <1>2, <1>3 DEF Balanced

\* The channel found, the channel added and the one at the head of the list.
LEMMA WriteMessageBlocks ==
    ASSUME "krealloc" \notin Faults, Inv, Balanced, NEW m \in Minors, g_msg_slots[m] # NULL,
           NEW id \in Channels, NEW msg, Legal(msg), WriteMessage(m, id, msg)
    PROVE  Accounted(m) \/ UNCHANGED <<g_msg_slots, allocated>>
<1> DEFINE head == g_msg_slots[m]
           p == find_channel(head, id)
           wide == WithNewChannel(head, id)
<1>1. head \in Seq(msg_slot_channel_t) /\ Buffered(head)
  BY DEF Inv, TypeOK, Balanced
<1>2. allocated[m] + 0 = FreedBlocks(head) /\ allocated[m] + 1 = FreedBlocks(head) + 1
  BY DEF Inv, TypeOK, Balanced
<1>3. CASE p # 0 /\ WriteChannel(m, head, p, 0, msg)
  <2>1. p \in 1 .. Len(head)
    BY <1>1, <1>3, FindChannel
  <2> QED
    BY <1>1, <1>2, <1>3, <2>1, WriteChannelBlocks
<1>4. CASE WriteChannel(m, wide, 1, 1, msg)
  <2>1. wide \in Seq(msg_slot_channel_t) /\ 1 \in 1 .. Len(wide)
    BY <1>1, NewChannel
  <2>2. Buffered(wide) /\ allocated[m] + 1 = FreedBlocks(wide)
    BY <1>1, <1>2, NewChannelBlocks
  <2> HIDE DEF wide
  <2> QED
    BY <1>4, <2>1, <2>2, WriteChannelBlocks
<1>5. CASE WriteWithoutChannel(m, head, msg)
  <2>1. CASE head = <<>>
    BY <1>5, <2>1 DEF WriteWithoutChannel
  <2>2. CASE head # <<>>
    <3>1. 1 \in 1 .. Len(head)
      BY <1>1, <2>2
    <3>2. WriteChannel(m, head, 1, 0, msg)
      BY <1>5, <2>2 DEF WriteWithoutChannel
    <3> QED
      BY <1>1, <1>2, <3>1, <3>2, WriteChannelBlocks
  <2> QED
    BY <2>1, <2>2
<1> QED
  BY <1>3, <1>4, <1>5 DEF WriteMessage

\* Every call and the unloading keep the balance.
LEMMA BalancedStep ==
    ASSUME "krealloc" \notin Faults, Inv, Balanced, [Next]_vars
    PROVE  Balanced'
<1>1. CASE UNCHANGED <<g_msg_slots, allocated>>
  BY <1>1 DEF Balanced
<1>2. CASE msg_slot_init
  BY <1>1, <1>2 DEF msg_slot_init
<1>3. CASE msg_slot_cleanup
  <2>1. ASSUME NEW m \in Minors PROVE g_msg_slots'[m] = NULL /\ allocated'[m] = 0
    <3>1. g_msg_slots'[m] = NULL
      BY <1>3 DEF msg_slot_cleanup
    <3>2. CASE g_msg_slots[m] = NULL
      BY <1>3, <3>1, <3>2 DEF msg_slot_cleanup, Balanced
    <3>3. CASE g_msg_slots[m] # NULL
      <4>1. allocated'[m] = allocated[m] - FreedBlocks(g_msg_slots[m])
        BY <1>3, <3>3 DEF msg_slot_cleanup
      <4>2. allocated[m] = FreedBlocks(g_msg_slots[m]) /\ allocated[m] \in Int
        BY <3>3 DEF Balanced, Inv, TypeOK
      <4> QED
        BY <3>1, <4>1, <4>2
    <3> QED
      BY <3>2, <3>3
  <2> QED
    BY <2>1 DEF Balanced
<1>4. ASSUME NEW f \in Files, NEW m \in Minors, device_open(f, m) PROVE Balanced'
  <2>1. CASE /\ g_msg_slots[m] = NULL
             /\ g_msg_slots' = [g_msg_slots EXCEPT ![m] = <<>>]
             /\ allocated' = [allocated EXCEPT ![m] = @ + 1]
    <3>1. <<>> \in Seq(msg_slot_channel_t) /\ Len(<<>>) = 0 /\ DOMAIN <<>> = {}
      BY DOMAIN <<>> = 1 .. 0
    <3>2. Buffered(<<>>) /\ Held(<<>>) = {}
      BY <3>1, Zenon DEF Buffered, Held
    <3>3. FreedBlocks(<<>>) = 1
      <4>1. FreedBlocks(<<>>) = 1 + Len(<<>>) + Cardinality(Held(<<>>))
        BY <3>1, HeldFinite
      <4>2. FreedBlocks(<<>>) = 1 + 0 + 0
        BY <3>1, <3>2, <4>1, FS_EmptySet, Zenon
      <4> QED
        BY <4>2
    <3>4. allocated[m] + 1 = 1
      BY <2>1 DEF Balanced
    <3>5. Accounted(m)
      BY <2>1, <3>1, <3>2, <3>3, <3>4 DEF Accounted
    <3> QED
      BY <3>5, AccountedKeepsBalance
  <2> QED
    BY <1>1, <1>4, <2>1 DEF device_open, init_msg_slot
<1>5. ASSUME NEW f \in Files, NEW length, device_release(f) \/ device_ioctl(f) \/ device_read(f, length)
      PROVE  Balanced'
  BY <1>1, <1>5 DEF device_release, device_ioctl, device_read
<1>6. ASSUME NEW f \in Files, NEW msg \in UserMessages, device_write(f, msg) PROVE Balanced'
  BY <1>1, <1>6, WriteCall, WriteMessageBlocks, AccountedKeepsBalance
<1>7. CASE UNCHANGED vars
  BY <1>1, <1>7 DEF vars
<1> QED
  BY <1>2, <1>3, <1>4, <1>5, <1>6, <1>7 DEF Next, Call

\* A module that is not loaded has no slot.
Unloaded == module = "absent" => \A m \in Minors : g_msg_slots[m] = NULL

\* No call runs while the module is not loaded, and none ends with an unloaded module.
LEMMA UnloadedStep == Unloaded /\ [Next]_vars => Unloaded'
<1> SUFFICES ASSUME Unloaded, [Next]_vars, module' = "absent"
             PROVE  \A m \in Minors : g_msg_slots'[m] = NULL
  BY DEF Unloaded
<1> USE DEF Unloaded
<1>1. CASE msg_slot_init \/ msg_slot_cleanup
  BY <1>1 DEF msg_slot_init, msg_slot_cleanup
<1>2. ASSUME NEW f \in Files, Call(f) PROVE FALSE
  <2>1. CASE \E m \in Minors : device_open(f, m)
    BY <2>1 DEF device_open
  <2>2. CASE device_release(f) \/ device_ioctl(f)
    BY <2>2 DEF device_release, device_ioctl, IsOpen
  <2>3. CASE \E length \in 0 .. MAX_BUF_LEN + 1 : device_read(f, length)
    BY <2>3 DEF device_read, IsOpen, ReadChannel, CopyOut
  <2>4. CASE \E msg \in UserMessages : device_write(f, msg)
    BY <2>4 DEF device_write, IsOpen, WriteMessage, WriteWithoutChannel
  <2> QED
    BY <1>2, <2>1, <2>2, <2>3, <2>4 DEF Call
<1>3. CASE UNCHANGED vars
  BY <1>3 DEF vars
<1> QED
  BY <1>1, <1>2, <1>3 DEF Next

\* The slots go with the module.
LEMMA UnloadedAlways == Spec => []Unloaded
<1>1. Init => Unloaded
  BY DEF Init, Unloaded
<1> QED
  BY <1>1, UnloadedStep, PTL DEF Spec

\* "When unloaded, the module should free all memory that it allocated": true of every
\* behaviour in which no krealloc fails, whatever else does.
THEOREM MemoryFreed ==
    ASSUME "krealloc" \notin Faults
    PROVE  Spec => []NoLeak
<1>1. Init => Balanced
  BY DEF Init, Balanced
<1>2. Inv /\ Balanced /\ [Next]_vars => Balanced'
  BY BalancedStep
<1>3. Balanced /\ Unloaded => NoLeak
  BY DEF Balanced, Unloaded, NoLeak
<1> QED
  BY <1>1, <1>2, <1>3, InvAlways, UnloadedAlways, PTL DEF Spec

-----------------------------------------------------------------------------
(***************************************************************************)
(* What a read returns.                                                    *)
(***************************************************************************)
\* The bytes at a buffer, up to its end, are the message in it; they survive the copy
\* into a longer buffer.
LEMMA BytesOfMessage ==
    ASSUME NEW msg, Legal(msg)
    PROVE  /\ BytesAt(msg, Len(msg)) = msg
           /\ BytesAt(BytesAt(msg, MAX_BUF_LEN), Len(msg)) = msg
           /\ BytesAt(msg, MAX_BUF_LEN) \in [1 .. MAX_BUF_LEN -> Bytes]
<1>1. msg \in Seq(UserBytes) /\ Len(msg) \in 1 .. MAX_BUF_LEN /\ MAX_BUF_LEN \in Nat
  BY BufferType, MessageSlotAssumption DEF Legal
<1>2. msg = [i \in 1 .. Len(msg) |-> msg[i]]
  BY <1>1
<1>3. BytesAt(msg, Len(msg)) = msg
  BY <1>1, <1>2 DEF BytesAt
<1> DEFINE long == BytesAt(msg, MAX_BUF_LEN)
<1>4. long \in [1 .. MAX_BUF_LEN -> Bytes]
  BY <1>1 DEF BytesAt, Bytes
<1>5. Len(long) = MAX_BUF_LEN /\ \A i \in 1 .. Len(msg) : long[i] = msg[i]
  <2>1. long \in Seq(Bytes) /\ DOMAIN long = 1 .. MAX_BUF_LEN
    BY <1>1, <1>4
  <2> QED
    BY <1>1, <2>1 DEF BytesAt
<1> HIDE DEF long
<1>6. BytesAt(long, Len(msg)) = msg
  BY <1>1, <1>2, <1>5 DEF BytesAt
<1> QED
  BY <1>3, <1>4, <1>6 DEF long

\* Fewer bytes of a buffer are the beginning of more.
LEMMA BytesPrefix ==
    ASSUME NEW b \in [1 .. MAX_BUF_LEN -> Bytes], NEW k \in Nat, NEW n \in 1 .. k
    PROVE  IsPrefix(BytesAt(b, n), BytesAt(b, k))
<1>1. MAX_BUF_LEN \in Nat /\ n \in Nat /\ GARBAGE \in Bytes
  BY MessageSlotAssumption DEF Bytes
<1>2. b \in Seq(Bytes) /\ Len(b) = MAX_BUF_LEN
  BY <1>1
<1>3. PICK s, t : s = BytesAt(b, n) /\ t = BytesAt(b, k)
  OBVIOUS
<1>4. s \in [1 .. n -> Bytes] /\ t \in [1 .. k -> Bytes] /\ \A i \in 1 .. n : s[i] = t[i]
  BY <1>1, <1>2, <1>3 DEF BytesAt
<1>5. s \in Seq(Bytes) /\ Len(s) = n /\ t \in Seq(Bytes) /\ Len(t) = k
  BY <1>1, <1>4
<1>6. SubSeq(s, 1, n) = SubSeq(t, 1, n)
  <2>1. SubSeq(s, 1, n) = [i \in 1 .. n |-> s[i]] /\ SubSeq(t, 1, n) = [i \in 1 .. n |-> t[i]]
    BY <1>1, <1>5
  <2> QED
    BY <1>4, <2>1
<1> QED
  BY <1>1, <1>3, <1>5, <1>6 DEF IsPrefix

\* The entry that find_channel returns is the only one with its id.
LEMMA FoundChannel ==
    ASSUME NEW head \in Seq(msg_slot_channel_t), UniqueIds(head), NEW id
    PROVE  LET p == find_channel(head, id) IN
           /\ p = 0 => \A c \in ToSet(head) : c.id # id
           /\ p # 0 => /\ head[p] \in ToSet(head) /\ head[p].id = id
                       /\ \A c \in ToSet(head) : c.id = id => c = head[p]
<1> DEFINE p == find_channel(head, id)
<1>1. /\ p \in 0 .. Len(head) /\ (p # 0 => head[p].id = id)
      /\ p = 0 => \A i \in 1 .. Len(head) : head[i].id # id
  BY FindChannel
<1>2. DOMAIN head = 1 .. Len(head) /\ ToSet(head) = {head[q] : q \in DOMAIN head}
  BY DEF ToSet
<1> HIDE DEF p
<1>3. p # 0 => p \in DOMAIN head
  BY <1>1, <1>2
<1> QED
  BY <1>1, <1>2, <1>3 DEF UniqueIds, p

\* device_read: no channel, an empty channel, or the message of the channel, which is
\* returned whole or not at all.
LEMMA ReadCall ==
    ASSUME Inv, Kept, NEW f \in Files, NEW length, device_read(f, length)
    PROVE  /\ f_minor[f] \in Minors /\ g_msg_slots[f_minor[f]] # NULL
           /\ UNCHANGED <<g_msg_slots, f_minor, private_data, allocated>>
           /\ \/ private_data[f] = NULL /\ Error("EINVAL")
              \/ /\ private_data[f] \in Channels
                 /\ \A c \in ToSet(g_msg_slots[f_minor[f]]) : c.id = private_data[f] => ~c.active
                 /\ Shown(f_minor[f], private_data[f]) = NULL
                 /\ Error("EWOULDBLOCK")
              \/ /\ private_data[f] \in Channels
                 /\ \E c \in ToSet(g_msg_slots[f_minor[f]]) :
                      /\ c.id = private_data[f] /\ c.active /\ Legal(c.msg_buffer)
                      /\ c.curr_msg_len = Len(c.msg_buffer)
                      /\ \/ length < Len(c.msg_buffer) /\ Error("ENOSPC")
                         \/ Error("EFAULT")
                         \/ Ok(Len(c.msg_buffer), c.msg_buffer)
<1> DEFINE m == f_minor[f]
           id == private_data[f]
           head == g_msg_slots[m]
           p == find_channel(head, id)
<1>1. m \in Minors /\ head # NULL /\ (id # NULL => id \in Channels)
  BY DEF device_read, IsOpen, Inv, TypeOK
<1>2. UNCHANGED <<g_msg_slots, f_minor, private_data, allocated>>
  BY DEF device_read
<1>3. head \in Seq(msg_slot_channel_t) /\ UniqueIds(head)
  BY <1>1 DEF Inv, TypeOK, UniqueChannels
<1>4. /\ p = 0 => \A c \in ToSet(head) : c.id # id
      /\ p # 0 => /\ head[p] \in ToSet(head) /\ head[p].id = id
                  /\ \A c \in ToSet(head) : c.id = id => c = head[p]
  BY <1>3, FoundChannel
<1>5. CASE id = NULL /\ Error("EINVAL")
  BY <1>1, <1>2, <1>5
<1>6. CASE id # NULL /\ (p = 0 \/ ~head[p].active) /\ Error("EWOULDBLOCK")
  <2>1. \A c \in ToSet(head) : c.id = id => ~c.active
    BY <1>4, <1>6
  <2>2. Shown(m, id) = NULL
    BY <1>1, <1>6 DEF Shown
  <2> QED
    BY <1>1, <1>2, <1>6, <2>1, <2>2
<1>7. CASE id # NULL /\ p # 0 /\ head[p].active /\ ReadChannel(head[p], length)
  <2> DEFINE c == head[p]
  <2>1. c \in ToSet(head) /\ c.id = id /\ Legal(c.msg_buffer) /\ c.curr_msg_len = Len(c.msg_buffer)
    BY <1>1, <1>4, <1>7 DEF Kept
  <2>2. /\ c.curr_msg_len \in 1 .. MAX_BUF_LEN /\ c.msg_buffer # NULL
        /\ BytesAt(c.msg_buffer, c.curr_msg_len) = c.msg_buffer
    BY <2>1, BufferType, BytesOfMessage, MessageSlotAssumption
  <2>3. ReadChannel(c, length) /\ c.active
    BY <1>7
  <2> HIDE DEF c
  <2>4. c.curr_msg_len # GARBAGE
    BY <2>2, MessageSlotAssumption
  <2>5. \/ length < Len(c.msg_buffer) /\ Error("ENOSPC")
        \/ Error("EFAULT")
        \/ Ok(Len(c.msg_buffer), c.msg_buffer)
    BY <2>1, <2>2, <2>3, <2>4 DEF ReadChannel, CopyOut
  <2>6. id \in Channels
    BY <1>1, <1>7
  <2> QED
    BY <1>1, <1>2, <2>1, <2>3, <2>5, <2>6
<1> QED
  BY <1>5, <1>6, <1>7 DEF device_read

-----------------------------------------------------------------------------
(***************************************************************************)
(* What message_reader prints.                                             *)
(***************************************************************************)
ControlPoints == {"none", "s_ioctl", "s_write", "r_ioctl", "r_read", "r_close", "print", "exit",
                  "close"}

\* A reader about to read has set its channel, one past its read has a message, and one
\* past its write has printed the beginning of a message.
ReaderOK(f) ==
    /\ pc[f] = "r_read" => private_data[f] # NULL
    /\ pc[f] \in {"r_close", "print"} => Printed(f) \in UserMessages \ {<<>>}
    /\ pc[f] = "exit" /\ ret_val[f] # -1 =>
          ret_val[f] > 0 /\ \E msg \in UserMessages : IsPrefix(Printed(f), msg)

ProgramsOK ==
    /\ pc \in [Files -> ControlPoints]
    /\ buffer \in [ProgramFiles -> [1 .. MAX_BUF_LEN -> Bytes]]
    /\ ret_val \in [ProgramFiles -> Int]
    /\ \A f \in ProgramFiles : ReaderOK(f)

\* The types the programs' calls preserve.
LEMMA ProgramTypes ==
    ASSUME Inv, Kept, ProgramsOK, NEW f \in ProgramFiles, Program(f)
    PROVE  /\ pc' \in [Files -> ControlPoints]
           /\ buffer' \in [ProgramFiles -> [1 .. MAX_BUF_LEN -> Bytes]]
           /\ ret_val' \in [ProgramFiles -> Int]
           /\ \A g \in ProgramFiles : g # f => /\ pc'[g] = pc[g]
                                               /\ buffer'[g] = buffer[g]
                                               /\ ret_val'[g] = ret_val[g]
                                               /\ private_data'[g] = private_data[g]
<1> USE DEF ProgramsOK
<1>0. f \in Files /\ ProgramFiles \subseteq Files /\ private_data \in [Files -> Channels \cup {NULL}]
  BY MessengerAssumption DEF Inv, TypeOK
<1>1. FreshBuffer \in [1 .. MAX_BUF_LEN -> Bytes]
  BY DEF FreshBuffer, Bytes
<1>2. ASSUME NEW next \in ControlPoints, Continue(f, next)
      PROVE  pc' \in [Files -> ControlPoints] /\ \A g \in ProgramFiles : g # f => pc'[g] = pc[g]
  BY <1>0, <1>2 DEF Continue, ControlPoints
<1>3. ASSUME NEW m \in Minors, device_open(f, m)
      PROVE  \A g \in ProgramFiles : g # f => private_data'[g] = private_data[g]
  BY <1>0, <1>3 DEF device_open, init_msg_slot, OpenFile
<1>4. CASE Open(f)
  BY <1>2, <1>3, <1>4 DEF Open, ControlPoints
<1>5. CASE SetDesiredChannel(f)
  BY <1>0, <1>2, <1>5 DEF SetDesiredChannel, device_ioctl, ControlPoints
<1>6. CASE SendMessage(f)
  BY <1>2, <1>6 DEF SendMessage, device_write, ControlPoints
<1>7. CASE ReadMessage(f)
  <2>1. device_read(f, MAX_BUF_LEN) /\ Continue(f, "r_close") /\ UNCHANGED private_data
    BY <1>7 DEF ReadMessage, device_read
  <2>2. CASE reply'.status = "ok"
    <3>1. PICK msg : Legal(msg) /\ Ok(Len(msg), msg)
      BY <1>0, <2>1, <2>2, ReadCall DEF Error
    <3>2. reply'.n = Len(msg) /\ reply'.data = msg
      BY <3>1 DEF Ok
    <3>3. Len(msg) \in Nat /\ BytesAt(msg, MAX_BUF_LEN) \in [1 .. MAX_BUF_LEN -> Bytes]
      BY <3>1, BufferType, BytesOfMessage
    <3>4. /\ buffer' = [buffer EXCEPT ![f] = BytesAt(msg, MAX_BUF_LEN)]
          /\ ret_val' = [ret_val EXCEPT ![f] = Len(msg)]
      BY <1>7, <2>2, <3>2 DEF ReadMessage
    <3> QED
      BY <1>2, <2>1, <3>3, <3>4 DEF ControlPoints
  <2>3. CASE reply'.status # "ok"
    <3>1. UNCHANGED <<buffer, ret_val>>
      BY <1>7, <2>3 DEF ReadMessage
    <3> QED
      BY <1>2, <2>1, <3>1 DEF ControlPoints
  <2> QED
    BY <2>2, <2>3
<1>8. CASE Close(f)
  BY <1>0, <1>8 DEF Close, device_release, ControlPoints
<1>9. CASE PrintMessage(f) \/ Exit(f)
  <2>1. CASE PrintMessage(f)
    <3>1. PICK n \in {-1} \cup 1 .. ret_val[f] : ret_val' = [ret_val EXCEPT ![f] = n]
      BY <2>1 DEF PrintMessage
    <3>2. n \in Int
      BY <3>1
    <3>3. ret_val' \in [ProgramFiles -> Int] /\ \A g \in ProgramFiles : g # f => ret_val'[g] = ret_val[g]
      BY <3>1, <3>2
    <3> QED
      BY <1>0, <2>1, <3>3 DEF PrintMessage, vars, ControlPoints
  <2>2. CASE Exit(f)
    BY <1>0, <1>1, <2>2 DEF Exit, vars, ControlPoints
  <2> QED
    BY <1>9, <2>1, <2>2
<1>10. CASE Killed(f)
  BY <1>0, <1>1, <1>10 DEF Killed, device_release, ControlPoints
<1> QED
  BY <1>4, <1>5, <1>6, <1>7, <1>8, <1>9, <1>10 DEF Program

\* The program's own steps: what a reader prints comes from its read, which found a whole
\* message.
LEMMA ProgramReader ==
    ASSUME Inv, Kept, ProgramsOK, NEW f \in ProgramFiles, Program(f)
    PROVE  ReaderOK(f)'
<1>0. f \in Files /\ private_data \in [Files -> Channels \cup {NULL}]
  BY MessengerAssumption DEF Inv, TypeOK
<1>1. pc' \in [Files -> ControlPoints] /\ pc \in [Files -> ControlPoints]
  BY ProgramTypes DEF ProgramsOK
<1>2. ASSUME pc'[f] \notin {"r_read", "r_close", "print", "exit"} PROVE ReaderOK(f)'
  BY <1>2 DEF ReaderOK
<1>3. ASSUME NEW next, Continue(f, next)
      PROVE  pc'[f] = IF reply'.status = "ok" THEN next
                      ELSE IF f_minor'[f] = NULL THEN "none" ELSE "close"
  BY <1>0, <1>1, <1>3 DEF Continue
<1>4. CASE Open(f)
  BY <1>2, <1>3, <1>4 DEF Open
<1>5. CASE SetDesiredChannel(f)
  <2>1. CASE pc'[f] = "r_read"
    <3>1. reply'.status = "ok" /\ device_ioctl(f)
      BY <1>3, <1>5, <2>1 DEF SetDesiredChannel
    <3>2. PICK id \in Channels : private_data' = [private_data EXCEPT ![f] = id]
      BY <3>1 DEF device_ioctl, Error
    <3>3. private_data'[f] # NULL
      BY <1>0, <3>2, MessageSlotAssumption
    <3> QED
      BY <2>1, <3>3 DEF ReaderOK
  <2>2. CASE pc'[f] # "r_read"
    BY <1>2, <1>3, <1>5, <2>2 DEF SetDesiredChannel
  <2> QED
    BY <2>1, <2>2
<1>6. CASE SendMessage(f)
  BY <1>2, <1>3, <1>6 DEF SendMessage
<1>7. CASE ReadMessage(f)
  <2>1. device_read(f, MAX_BUF_LEN) /\ Continue(f, "r_close")
    BY <1>7 DEF ReadMessage
  <2>2. CASE reply'.status = "ok"
    <3>1. PICK msg : Legal(msg) /\ Ok(Len(msg), msg)
      BY <1>0, <2>1, <2>2, ReadCall DEF Error
    <3>2. reply'.n = Len(msg) /\ reply'.data = msg
      BY <3>1 DEF Ok
    <3>3. buffer'[f] = BytesAt(msg, MAX_BUF_LEN) /\ ret_val'[f] = Len(msg)
      BY <1>7, <2>2, <3>2 DEF ReadMessage, ProgramsOK
    <3>4. Printed(f)' = msg
      BY <3>1, <3>3, BytesOfMessage DEF Printed
    <3>5. msg \in UserMessages \ {<<>>} /\ pc'[f] = "r_close"
      BY <1>3, <2>1, <2>2, <3>1 DEF Legal
    <3> QED
      BY <3>4, <3>5 DEF ReaderOK
  <2>3. CASE reply'.status # "ok"
    BY <1>2, <1>3, <2>1, <2>3
  <2> QED
    BY <2>2, <2>3
<1>8. CASE Close(f)
  <2>1. CASE pc[f] = "r_close"
    <3>1. pc'[f] = "print" /\ UNCHANGED <<buffer, ret_val>>
      BY <1>0, <1>1, <1>8, <2>1 DEF Close
    <3>2. Printed(f) \in UserMessages \ {<<>>}
      BY <2>1 DEF ProgramsOK, ReaderOK
    <3> QED
      BY <3>1, <3>2 DEF ReaderOK, Printed
  <2>2. CASE pc[f] = "close"
    BY <1>0, <1>1, <1>2, <1>8, <2>2 DEF Close
  <2> QED
    BY <1>8, <2>1, <2>2 DEF Close
<1>9. CASE Exit(f) \/ Killed(f)
  BY <1>0, <1>1, <1>2, <1>9 DEF Exit, Killed
<1>10. CASE PrintMessage(f)
  <2>1. /\ buffer \in [ProgramFiles -> [1 .. MAX_BUF_LEN -> Bytes]]
        /\ ret_val \in [ProgramFiles -> Int] /\ UNCHANGED buffer
    BY <1>10 DEF PrintMessage, ProgramsOK
  <2>2. PICK n \in {-1} \cup 1 .. ret_val[f] : ret_val' = [ret_val EXCEPT ![f] = n]
    BY <1>10 DEF PrintMessage
  <2>3. pc'[f] = "exit" /\ ret_val'[f] = n
    BY <1>0, <1>1, <1>10, <2>1, <2>2 DEF PrintMessage
  <2>4. CASE n = -1
    BY <2>3, <2>4 DEF ReaderOK
  <2>5. CASE n \in 1 .. ret_val[f]
    <3>1. ret_val[f] \in Nat /\ Printed(f) \in UserMessages
      BY <1>10, <2>1, <2>5 DEF PrintMessage, ProgramsOK, ReaderOK
    <3>2. IsPrefix(BytesAt(buffer[f], n), Printed(f))
      BY <2>1, <2>5, <3>1, BytesPrefix DEF Printed
    <3>3. Printed(f)' = BytesAt(buffer[f], n)
      BY <2>1, <2>3 DEF Printed
    <3> QED
      BY <2>3, <2>5, <3>1, <3>2, <3>3 DEF ReaderOK
  <2> QED
    BY <2>2, <2>4, <2>5
<1> QED
  BY <1>4, <1>5, <1>6, <1>7, <1>8, <1>9, <1>10 DEF Program

\* A call of a file leaves the channel of every other file alone.
LEMMA CallOfOneFile ==
    ASSUME Inv, NEW f \in Files, Call(f), NEW g \in Files, g # f
    PROVE  private_data'[g] = private_data[g]
<1>0. private_data \in [Files -> Channels \cup {NULL}]
  BY DEF Inv, TypeOK
<1>1. CASE \E m \in Minors : device_open(f, m)
  BY <1>0, <1>1 DEF device_open, init_msg_slot, OpenFile
<1>2. CASE device_release(f) \/ device_ioctl(f)
  BY <1>0, <1>2 DEF device_release, device_ioctl
<1>3. CASE \E length \in 0 .. MAX_BUF_LEN + 1 : device_read(f, length)
  BY <1>3 DEF device_read
<1>4. CASE \E msg \in UserMessages : device_write(f, msg)
  BY <1>4 DEF device_write
<1> QED
  BY <1>1, <1>2, <1>3, <1>4 DEF Call

\* Every step of the programs keeps what they know of their calls.
LEMMA ProgramsStep == Inv /\ Kept /\ ProgramsOK /\ [MNext]_mvars => ProgramsOK'
<1> SUFFICES ASSUME Inv, Kept, ProgramsOK, [MNext]_mvars PROVE ProgramsOK'
  OBVIOUS
<1>1. ASSUME NEW g \in ProgramFiles, pc'[g] = pc[g], buffer'[g] = buffer[g],
             ret_val'[g] = ret_val[g], pc[g] = "none" \/ private_data'[g] = private_data[g]
      PROVE  ReaderOK(g)'
  BY <1>1 DEF ProgramsOK, ReaderOK, Printed
<1>2. CASE UNCHANGED programs /\ UNCHANGED private_data
  BY <1>1, <1>2 DEF programs, ProgramsOK
<1>3. CASE (msg_slot_init \/ msg_slot_cleanup) /\ UNCHANGED programs
  BY <1>2, <1>3 DEF msg_slot_init, msg_slot_cleanup
<1>4. ASSUME NEW f \in Files, pc[f] = "none", Call(f), UNCHANGED programs
      PROVE  ProgramsOK'
  <2>1. ASSUME NEW g \in ProgramFiles PROVE ReaderOK(g)'
    <3>1. g \in Files
      BY MessengerAssumption
    <3>2. pc[g] = "none" \/ private_data'[g] = private_data[g]
      BY <1>4, <3>1, CallOfOneFile
    <3> QED
      BY <1>1, <1>4, <3>2 DEF programs
  <2> QED
    BY <1>4, <2>1 DEF programs, ProgramsOK
<1>5. ASSUME NEW f \in ProgramFiles, Program(f) PROVE ProgramsOK'
  <2>1. ASSUME NEW g \in ProgramFiles PROVE ReaderOK(g)'
    BY <1>1, <1>5, ProgramTypes, ProgramReader
  <2> QED
    BY <1>5, <2>1, ProgramTypes DEF ProgramsOK
<1>6. CASE UNCHANGED mvars
  BY <1>2, <1>6 DEF mvars, vars
<1> QED
  BY <1>3, <1>4, <1>5, <1>6 DEF MNext

\* What the programs know of their calls holds throughout.
LEMMA ProgramsAlways ==
    ASSUME "krealloc" \notin Faults, "copy_from_user" \notin Faults
    PROVE  MSpec => [](Inv /\ Kept /\ ProgramsOK)
<1>1. MInit => ProgramsOK
  <2>1. FreshBuffer \in [1 .. MAX_BUF_LEN -> Bytes]
    BY DEF FreshBuffer, Bytes
  <2> QED
    BY <2>1, MessengerAssumption DEF MInit, ProgramsOK, ReaderOK, ControlPoints
<1> QED
  BY <1>1, MessengerUsesDriver, InvAlways, KeptAlways, ProgramsStep, PTL DEF MSpec

\* message_reader writes out a whole message that some program wrote, and what its write
\* accepts is the beginning of one, whoever writes to the channel, unloads the module or
\* kills programs meanwhile.
THEOREM ReaderPrints ==
    ASSUME "krealloc" \notin Faults, "copy_from_user" \notin Faults
    PROVE  MSpec => []PrintsMessage
<1>1. ProgramsOK => PrintsMessage
  BY DEF ProgramsOK, ReaderOK, PrintsMessage
<1> QED
  BY <1>1, ProgramsAlways, PTL

\* The read of message_reader is never refused for lack of room or of a channel.
THEOREM ReaderIsServed ==
    ASSUME "krealloc" \notin Faults, "copy_from_user" \notin Faults
    PROVE  MSpec => ReaderServed
<1> DEFINE Served == \A f \in ProgramFiles : pc[f] = "r_read" /\ pc'[f] = "close" =>
                        \/ reply'.status = "EFAULT"
                        \/ reply'.status = "EWOULDBLOCK" /\ Shown(f_minor[f], private_data[f]) = NULL
<1>1. Inv /\ Kept /\ ProgramsOK /\ [MNext]_mvars => [Served]_mvars
  <2> SUFFICES ASSUME Inv, Kept, ProgramsOK, MNext, NEW f \in ProgramFiles,
                      pc[f] = "r_read", pc'[f] = "close"
               PROVE  \/ reply'.status = "EFAULT"
                      \/ /\ reply'.status = "EWOULDBLOCK"
                         /\ Shown(f_minor[f], private_data[f]) = NULL
    OBVIOUS
  <2>0. f \in Files /\ pc \in [Files -> ControlPoints]
    BY MessengerAssumption DEF ProgramsOK
  <2>1. pc'[f] # pc[f]
    OBVIOUS
  <2>2. Program(f)
    BY <2>1, ProgramTypes DEF MNext, programs
  <2>3. ReadMessage(f)
    BY <2>0, <2>2 DEF Program, Open, SetDesiredChannel, SendMessage, Close, PrintMessage, Exit,
                       Killed
  <2>4. device_read(f, MAX_BUF_LEN) /\ Continue(f, "r_close")
    BY <2>3 DEF ReadMessage
  <2>5. reply'.status # "ok"
    BY <2>0, <2>4 DEF Continue
  <2>6. private_data[f] # NULL
    BY DEF ProgramsOK, ReaderOK
  <2>7. ASSUME NEW msg, Legal(msg) PROVE ~(MAX_BUF_LEN < Len(msg)) /\ ~Ok(Len(msg), msg)
    <3>1. Len(msg) \in 1 .. MAX_BUF_LEN /\ MAX_BUF_LEN \in Nat
      BY <2>7, BufferType, MessageSlotAssumption
    <3> QED
      BY <2>5, <3>1 DEF Ok
  <2> QED
    BY <2>0, <2>4, <2>6, <2>7, ReadCall DEF Error
<1> QED
  BY <1>1, ProgramsAlways, PTL DEF MSpec, ReaderServed

-----------------------------------------------------------------------------
(***************************************************************************)
(* The driver implements the message board.                                *)
(***************************************************************************)
\* The board that the lists g show, and the places of the files.
BoardOf(g) == UNION {IF g[m] = NULL THEN {} ELSE Messages(m, g[m]) : m \in Minors}
AssocOf(fm, pd) == [f \in Files |-> IF fm[f] = NULL \/ pd[f] = NULL
                                    THEN NULL ELSE <<fm[f], pd[f]>>]

\* The pair on the board for channel c of minor m.
Entry(m, c) == <<<<m, c.id>>, BytesAt(c.msg_buffer, c.curr_msg_len)>>

\* A pair is on the board when an active channel keeps it.
LEMMA OnBoard ==
    ASSUME NEW g, NEW x
    PROVE  x \in BoardOf(g) <=>
             \E m \in Minors : g[m] # NULL /\ \E c \in ToSet(g[m]) : c.active /\ x = Entry(m, c)
<1>1. ASSUME NEW m \in Minors
      PROVE  x \in (IF g[m] = NULL THEN {} ELSE Messages(m, g[m])) <=>
             g[m] # NULL /\ \E c \in ToSet(g[m]) : c.active /\ x = Entry(m, c)
  BY DEF Messages, Entry
<1>2. x \in BoardOf(g) <=>
        \E m \in Minors : x \in (IF g[m] = NULL THEN {} ELSE Messages(m, g[m]))
  BY DEF BoardOf
<1> QED
  BY <1>1, <1>2

\* A write that succeeds replaces the pair of its place.
LEMMA BoardWritten ==
    ASSUME Inv, NEW m \in Minors, g_msg_slots[m] # NULL, NEW c, c.active,
           Replaced(m, g_msg_slots[m], c)
    PROVE  BoardOf(g_msg_slots') =
             {x \in BoardOf(g_msg_slots) : x[1] # <<m, c.id>>} \cup {Entry(m, c)}
<1>1. PICK h \in Seq(msg_slot_channel_t) : /\ g_msg_slots' = [g_msg_slots EXCEPT ![m] = h]
                                           /\ ToSet(h) = Others(g_msg_slots[m], c.id) \cup {c}
  BY DEF Replaced
<1>2. PICK g, k : g = g_msg_slots /\ k = g_msg_slots'
  OBVIOUS
<1>3. h # NULL /\ k[m] = h /\ \A n \in Minors : n # m => k[n] = g[n]
  BY <1>1, <1>2, MessageSlotAssumption DEF Inv, TypeOK
<1>4. ToSet(h) = {d \in ToSet(g[m]) : d.id # c.id} \cup {c} /\ g[m] # NULL
  BY <1>1, <1>2 DEF Others
<1>5. \A n, d : Entry(n, d)[1] = <<n, d.id>>
  BY DEF Entry
<1>6. ASSUME NEW x \in BoardOf(k)
      PROVE  x \in {y \in BoardOf(g) : y[1] # <<m, c.id>>} \cup {Entry(m, c)}
  <2>1. PICK n, d : /\ n \in Minors /\ k[n] # NULL
                    /\ d \in ToSet(k[n]) /\ d.active /\ x = Entry(n, d)
    BY <1>6, OnBoard
  <2>2. CASE n = m /\ d = c
    BY <2>1, <2>2
  <2>3. CASE n = m /\ d # c
    <3>1. d \in ToSet(g[m]) /\ d.id # c.id
      BY <1>3, <1>4, <2>1, <2>3
    <3>2. x \in BoardOf(g)
      BY <1>4, <2>1, <2>3, <3>1, OnBoard
    <3>3. x[1] # <<m, c.id>>
      BY <1>5, <2>1, <3>1
    <3> QED
      BY <3>2, <3>3
  <2>4. CASE n # m
    <3>1. x \in BoardOf(g)
      BY <1>3, <2>1, <2>4, OnBoard
    <3>2. x[1] # <<m, c.id>>
      BY <1>5, <2>1, <2>4
    <3> QED
      BY <3>1, <3>2
  <2> QED
    BY <2>2, <2>3, <2>4
<1>7. Entry(m, c) \in BoardOf(k)
  BY <1>3, <1>4, OnBoard
<1>8. ASSUME NEW x \in BoardOf(g), x[1] # <<m, c.id>> PROVE x \in BoardOf(k)
  <2>1. PICK n, d : /\ n \in Minors /\ g[n] # NULL
                    /\ d \in ToSet(g[n]) /\ d.active /\ x = Entry(n, d)
    BY <1>8, OnBoard
  <2>2. k[n] # NULL /\ d \in ToSet(k[n])
    BY <1>3, <1>4, <1>5, <1>8, <2>1
  <2> QED
    BY <2>1, <2>2, OnBoard
<1> QED
  BY <1>2, <1>6, <1>7, <1>8

\* A channel without a message may be rewritten by another one.
LEMMA BoardUntouched ==
    ASSUME Inv, NEW m \in Minors, g_msg_slots[m] # NULL, NEW c, ~c.active,
           \A d \in ToSet(g_msg_slots[m]) : d.id = c.id => ~d.active,
           Replaced(m, g_msg_slots[m], c)
    PROVE  BoardOf(g_msg_slots') = BoardOf(g_msg_slots)
<1>1. PICK h \in Seq(msg_slot_channel_t) : /\ g_msg_slots' = [g_msg_slots EXCEPT ![m] = h]
                                           /\ ToSet(h) = Others(g_msg_slots[m], c.id) \cup {c}
  BY DEF Replaced
<1>2. PICK g, k : g = g_msg_slots /\ k = g_msg_slots'
  OBVIOUS
<1>3. h # NULL /\ k[m] = h /\ \A n \in Minors : n # m => k[n] = g[n]
  BY <1>1, <1>2, MessageSlotAssumption DEF Inv, TypeOK
<1>4. ToSet(h) = {d \in ToSet(g[m]) : d.id # c.id} \cup {c} /\ g[m] # NULL
  BY <1>1, <1>2 DEF Others
<1>5. ASSUME NEW n \in Minors, NEW d, d.active
      PROVE  (k[n] # NULL /\ d \in ToSet(k[n])) <=> (g[n] # NULL /\ d \in ToSet(g[n]))
  BY <1>2, <1>3, <1>4, <1>5
<1>6. ASSUME NEW x PROVE x \in BoardOf(k) <=> x \in BoardOf(g)
  BY <1>5, OnBoard
<1> QED
  BY <1>2, <1>6

\* A slot without channels shows nothing.
LEMMA BoardOfNewSlot ==
    ASSUME Inv, NEW m \in Minors, g_msg_slots[m] = NULL,
           g_msg_slots' = [g_msg_slots EXCEPT ![m] = <<>>]
    PROVE  BoardOf(g_msg_slots') = BoardOf(g_msg_slots)
<1>1. PICK g, k : g = g_msg_slots /\ k = g_msg_slots'
  OBVIOUS
<1>2. k[m] = <<>> /\ g[m] = NULL /\ \A n \in Minors : n # m => k[n] = g[n]
  BY <1>1 DEF Inv, TypeOK
<1>3. ToSet(<<>>) = {}
  BY DOMAIN <<>> = 1 .. 0 DEF ToSet
<1>4. ASSUME NEW n \in Minors, NEW d
      PROVE  (k[n] # NULL /\ d \in ToSet(k[n])) <=> (g[n] # NULL /\ d \in ToSet(g[n]))
  BY <1>2, <1>3, <1>4
<1>5. ASSUME NEW x PROVE x \in BoardOf(k) <=> x \in BoardOf(g)
  BY SMTT(30), <1>4, OnBoard
<1> QED
  BY <1>1, <1>5

\* Without slots the board is empty.
LEMMA BoardOfNothing ==
    ASSUME NEW g, \A m \in Minors : g[m] = NULL
    PROVE  BoardOf(g) = {}
<1>1. \A x : x \notin BoardOf(g)
  BY OnBoard
<1> QED
  BY <1>1

\* A call that changes the channel of one file is a step of the board for that file.
LEMMA AssociateStep ==
    ASSUME Inv, NEW f \in Files, NEW m \in Minors \cup {NULL}, NEW id \in Channels \cup {NULL},
           f_minor' = [f_minor EXCEPT ![f] = m], private_data' = [private_data EXCEPT ![f] = id],
           BoardOf(g_msg_slots') = BoardOf(g_msg_slots), Ok(0, <<>>)
    PROVE  Board!Associate(f)
<1>1. PICK a, b : a = AssocOf(f_minor, private_data) /\ b = AssocOf(f_minor', private_data')
  OBVIOUS
<1>2. f_minor \in [Files -> Minors \cup {NULL}] /\ private_data \in [Files -> Channels \cup {NULL}]
  BY DEF Inv, TypeOK
<1>3. \A g \in Files : g # f => f_minor'[g] = f_minor[g] /\ private_data'[g] = private_data[g]
  BY <1>2
<1>4. f_minor'[f] = m /\ private_data'[f] = id
  BY <1>2
<1>5. b = [a EXCEPT ![f] = b[f]]
  BY <1>1, <1>3 DEF AssocOf
<1>6. b[f] \in (Minors \X Channels) \cup {NULL}
  BY <1>1, <1>4 DEF AssocOf
<1> QED
  BY <1>1, <1>5, <1>6 DEF Board!Associate, Board!Done, Board!Places, BoardOf, AssocOf, Ok

\* An error that leaves the lists and the files alone; the two the board gives reasons for
\* come from device_read only.
LEMMA RefuseStep ==
    ASSUME NEW f \in Files, NEW e, Error(e), e \notin {"ok", "EWOULDBLOCK", "ENOSPC"},
           BoardOf(g_msg_slots') = BoardOf(g_msg_slots), UNCHANGED <<f_minor, private_data>>
    PROVE  Board!Refuse(f)
<1>1. AssocOf(f_minor', private_data') = AssocOf(f_minor, private_data)
  OBVIOUS
<1>2. reply'.status = e /\ reply'.data = <<>>
  BY DEF Error
<1> QED
  BY <1>1, <1>2 DEF Board!Refuse, BoardOf, AssocOf

\* The read of a message, and the two refusals of a read.
LEMMA ReadStep ==
    ASSUME Inv, Kept, NEW f \in Files, NEW length, device_read(f, length)
    PROVE  Board!Refuse(f) \/ Board!Read(f)
<1> DEFINE m == f_minor[f]
           id == private_data[f]
<1>1. PICK a, b : a = AssocOf(f_minor, private_data) /\ b = BoardOf(g_msg_slots)
  OBVIOUS
<1>2. /\ m \in Minors /\ g_msg_slots[m] # NULL
      /\ UNCHANGED <<g_msg_slots, f_minor, private_data>>
  BY ReadCall
<1>3. m # NULL
  BY <1>2, MessageSlotAssumption
<1>4. id \in Channels => a[f] = <<m, id>> /\ a[f] # NULL
  BY <1>1, <1>2, <1>3, MessageSlotAssumption DEF AssocOf
<1>5. CASE Error("EINVAL") \/ Error("EFAULT")
  BY <1>2, <1>5, RefuseStep
<1>6. CASE /\ id \in Channels /\ Error("EWOULDBLOCK")
           /\ \A c \in ToSet(g_msg_slots[m]) : c.id = id => ~c.active
  <2>1. ASSUME NEW x \in b PROVE x[1] # <<m, id>>
    <3>1. PICK n, c : /\ n \in Minors /\ c \in ToSet(g_msg_slots[n])
                      /\ c.active /\ x = Entry(n, c)
      BY <1>1, <2>1, OnBoard
    <3>2. x[1] = <<n, c.id>>
      BY <3>1 DEF Entry
    <3> QED
      BY <1>6, <3>1, <3>2
  <2>2. reply'.status = "EWOULDBLOCK" /\ reply'.data = <<>>
    BY <1>6 DEF Error
  <2>3. a[f] # NULL /\ ~ \E x \in b : x[1] = a[f]
    BY <1>4, <1>6, <2>1
  <2> QED
    BY <1>1, <1>2, <2>2, <2>3 DEF Board!Refuse, Board!Taken, BoardOf, AssocOf
<1>7. ASSUME NEW c \in ToSet(g_msg_slots[m]), id \in Channels, c.id = id, c.active,
             Legal(c.msg_buffer), c.curr_msg_len = Len(c.msg_buffer)
      PROVE  <<a[f], c.msg_buffer>> \in b
  <2>1. Entry(m, c) = <<a[f], c.msg_buffer>>
    BY <1>4, <1>7, BytesOfMessage DEF Entry
  <2> QED
    BY <1>1, <1>2, <1>7, <2>1, OnBoard
<1>8. ASSUME NEW c \in ToSet(g_msg_slots[m]), id \in Channels, c.id = id, c.active,
             Legal(c.msg_buffer), c.curr_msg_len = Len(c.msg_buffer), Error("ENOSPC")
      PROVE  Board!Refuse(f)
  <2>1. <<a[f], c.msg_buffer>> \in b
    BY <1>7, <1>8
  <2>2. \E x \in b : x[1] = a[f]
    BY <2>1
  <2>3. reply'.status = "ENOSPC" /\ reply'.data = <<>>
    BY <1>8 DEF Error
  <2> QED
    BY <1>1, <1>2, <2>2, <2>3 DEF Board!Refuse, Board!Taken, BoardOf, AssocOf
<1>9. ASSUME NEW c \in ToSet(g_msg_slots[m]), id \in Channels, c.id = id, c.active,
             Legal(c.msg_buffer), c.curr_msg_len = Len(c.msg_buffer),
             Ok(Len(c.msg_buffer), c.msg_buffer)
      PROVE  Board!Read(f)
  <2>1. <<a[f], c.msg_buffer>> \in b
    BY <1>7, <1>9
  <2>2. /\ reply'.data = c.msg_buffer
        /\ reply' = [status |-> "ok", n |-> Len(c.msg_buffer), data |-> c.msg_buffer]
    BY <1>9 DEF Ok
  <2> QED
    BY <1>1, <1>2, <2>1, <2>2 DEF Board!Read, Board!Transferred, BoardOf, AssocOf
<1> QED
  BY <1>5, <1>6, <1>8, <1>9, ReadCall

\* A write that succeeds shows its message at the place of its file; one that fails
\* leaves the board alone.
LEMMA WriteStep ==
    ASSUME "krealloc" \notin Faults, "copy_from_user" \notin Faults, "channel" \notin Faults,
           Inv, NEW f \in Files, NEW msg \in UserMessages, device_write(f, msg)
    PROVE  Board!Refuse(f) \/ Board!Write(f)
<1> DEFINE m == f_minor[f]
           id == private_data[f]
<1>1. m \in Minors /\ g_msg_slots[m] # NULL /\ UNCHANGED <<f_minor, private_data>>
  BY WriteCall
<1>2. CASE (Error("EINVAL") \/ Error("EMSGSIZE")) /\ UNCHANGED g_msg_slots
  BY <1>1, <1>2, RefuseStep
<1>3. CASE id \in Channels /\ Legal(msg) /\ WriteMessage(m, id, msg)
  <2>1. WriteOutcome(m, g_msg_slots[m], id, msg)
    BY <1>1, <1>3, WriteMessageOutcome
  <2>2. ASSUME NEW c \in msg_slot_channel_t, c.id = id, ~c.active, Replaced(m, g_msg_slots[m], c),
               \A d \in ToSet(g_msg_slots[m]) : d.id = id => ~d.active, Error("ENOMEM")
        PROVE  Board!Refuse(f)
    BY <1>1, <2>2, BoardUntouched, RefuseStep
  <2>3. CASE Replaced(m, g_msg_slots[m], Keeping(id, msg)) /\ Ok(Len(msg), msg)
    <3>1. PICK a, b, bb : /\ a = AssocOf(f_minor, private_data) /\ b = BoardOf(g_msg_slots)
                          /\ bb = BoardOf(g_msg_slots')
      OBVIOUS
    <3>2. a[f] = <<m, id>> /\ a[f] # NULL
      BY <1>1, <1>3, <3>1, MessageSlotAssumption DEF AssocOf
    <3>3. PICK c : c = Keeping(id, msg)
      OBVIOUS
    <3>4. c.id = id /\ c.active /\ c.msg_buffer = msg /\ c.curr_msg_len = Len(msg)
      BY <3>3 DEF Keeping
    <3>5. Entry(m, c) = <<a[f], msg>>
      BY <1>3, <3>2, <3>4, BytesOfMessage DEF Entry
    <3>6. bb = {x \in b : x[1] # a[f]} \cup {<<a[f], msg>>}
      BY <1>1, <2>3, <3>1, <3>2, <3>3, <3>4, <3>5, BoardWritten
    <3>7. Len(msg) \in 1 .. MAX_BUF_LEN
      BY <1>3, BufferType
    <3>8. reply'.data = msg /\ reply' = [status |-> "ok", n |-> Len(msg), data |-> msg]
      BY <2>3 DEF Ok
    <3> QED
      BY <1>1, <3>1, <3>2, <3>6, <3>7, <3>8 DEF Board!Write, Board!Transferred, BoardOf, AssocOf
  <2> QED
    BY <2>1, <2>2, <2>3 DEF WriteOutcome
<1> QED
  BY <1>2, <1>3, WriteCall

\* Loading and unloading clear the board; no file is open then.
LEMMA ResetStep ==
    ASSUME Inv, Unloaded, msg_slot_init \/ msg_slot_cleanup
    PROVE  Board!Reset
<1>1. \A f \in Files : f_minor[f] = NULL
  <2>1. CASE msg_slot_init
    BY <2>1 DEF msg_slot_init, Unloaded, Inv, TypeOK
  <2>2. CASE msg_slot_cleanup
    BY <2>2 DEF msg_slot_cleanup
  <2> QED
    BY <2>1, <2>2
<1>2. \A m \in Minors : g_msg_slots'[m] = NULL
  BY DEF msg_slot_init, msg_slot_cleanup, Unloaded
<1>3. BoardOf(g_msg_slots') = {}
  BY <1>2, BoardOfNothing
<1>4. UNCHANGED <<f_minor, private_data>> /\ Ok(0, <<>>)
  BY DEF msg_slot_init, msg_slot_cleanup
<1>5. AssocOf(f_minor, private_data) = [f \in Files |-> NULL]
  BY <1>1 DEF AssocOf
<1> QED
  BY <1>3, <1>4, <1>5 DEF Board!Reset, Board!Done, BoardOf, AssocOf, Ok

\* Opening, closing and choosing a channel.
LEMMA FileStep ==
    ASSUME Inv, NEW f \in Files,
           (\E m \in Minors : device_open(f, m)) \/ device_release(f) \/ device_ioctl(f)
    PROVE  Board!Refuse(f) \/ Board!Associate(f)
<1>0. /\ f_minor \in [Files -> Minors \cup {NULL}]
      /\ private_data \in [Files -> Channels \cup {NULL}]
  BY DEF Inv, TypeOK
<1>1. ASSUME NEW m \in Minors, device_open(f, m) PROVE Board!Refuse(f) \/ Board!Associate(f)
  <2>1. CASE OpenFile(f, m) /\ UNCHANGED g_msg_slots
    BY <2>1, AssociateStep DEF OpenFile
  <2>2. CASE /\ OpenFile(f, m) /\ g_msg_slots[m] = NULL
             /\ g_msg_slots' = [g_msg_slots EXCEPT ![m] = <<>>]
    BY <2>2, BoardOfNewSlot, AssociateStep DEF OpenFile
  <2>3. CASE Error("ENOMEM") /\ UNCHANGED <<g_msg_slots, f_minor, private_data>>
    BY <2>3, RefuseStep
  <2> QED
    BY <1>1, <2>1, <2>2, <2>3 DEF device_open, init_msg_slot
<1>2. CASE device_release(f)
  BY <1>2, AssociateStep DEF device_release
<1>3. CASE device_ioctl(f)
  <2>1. ASSUME NEW id \in Channels, private_data' = [private_data EXCEPT ![f] = id], Ok(0, <<>>),
               UNCHANGED <<g_msg_slots, f_minor>>
        PROVE  Board!Associate(f)
    <3>1. f_minor' = [f_minor EXCEPT ![f] = f_minor[f]] /\ f_minor[f] \in Minors \cup {NULL}
      BY <1>0, <2>1
    <3> QED
      BY <2>1, <3>1, AssociateStep
  <2>2. CASE Error("EINVAL") /\ UNCHANGED <<g_msg_slots, f_minor, private_data>>
    BY <2>2, RefuseStep
  <2> QED
    BY <1>3, <2>1, <2>2 DEF device_ioctl
<1> QED
  BY <1>1, <1>2, <1>3

\* Every step of the driver is a step of the board or leaves it alone.
LEMMA BoardSimulation ==
    ASSUME "krealloc" \notin Faults, "copy_from_user" \notin Faults, "channel" \notin Faults
    PROVE  Inv /\ Kept /\ Unloaded /\ [Next]_vars => [Board!Next]_(Board!vars)
<1> SUFFICES ASSUME Inv, Kept, Unloaded, [Next]_vars PROVE [Board!Next]_(Board!vars)
  OBVIOUS
<1>1. CASE msg_slot_init \/ msg_slot_cleanup
  <2>1. caller' = NULL
    BY <1>1 DEF msg_slot_init, msg_slot_cleanup
  <2> QED
    BY <1>1, <2>1, ResetStep DEF Board!Next
<1>2. ASSUME NEW f \in Files, Call(f) PROVE Board!Next
  <2>0. caller' = f
    BY <1>2 DEF Call, device_open, device_release, device_ioctl, device_read, device_write
  <2>1. CASE (\E m \in Minors : device_open(f, m)) \/ device_release(f) \/ device_ioctl(f)
    BY <2>0, <2>1, FileStep DEF Board!Next
  <2>2. CASE \E length \in 0 .. MAX_BUF_LEN + 1 : device_read(f, length)
    BY <2>0, <2>2, ReadStep DEF Board!Next
  <2>3. CASE \E msg \in UserMessages : device_write(f, msg)
    BY <2>0, <2>3, WriteStep DEF Board!Next
  <2> QED
    BY <1>2, <2>1, <2>2, <2>3 DEF Call
<1>3. CASE UNCHANGED vars
  BY <1>3 DEF vars, Board!vars
<1> QED
  BY <1>1, <1>2, <1>3 DEF Next

\* The driver implements the message board as long as no kmalloc of a channel, krealloc or
\* copy_from_user fails: with all other failures, a read returns the last message written
\* to its channel, whole, and a call that reports an error has changed no message.
THEOREM DriverImplementsBoard ==
    ASSUME "krealloc" \notin Faults, "copy_from_user" \notin Faults, "channel" \notin Faults
    PROVE  Spec => ImplementsBoard
<1>1. Init => Board!Init
  <2> SUFFICES ASSUME Init PROVE Board!Init
    OBVIOUS
  <2>1. BoardOf(g_msg_slots) = {}
    BY BoardOfNothing DEF Init
  <2>2. AssocOf(f_minor, private_data) = [f \in Files |-> NULL]
    BY DEF Init, AssocOf
  <2> QED
    BY <2>1, <2>2 DEF Init, Board!Init, Board!Done, BoardOf, AssocOf
<1> QED
  BY <1>1, BoardSimulation, InvAlways, KeptAlways, UnloadedAlways, PTL
     DEF Spec, ImplementsBoard, Board!Spec

\* So do the programs on top of it.
COROLLARY MessengerImplementsBoard ==
    ASSUME "krealloc" \notin Faults, "copy_from_user" \notin Faults, "channel" \notin Faults
    PROVE  MSpec => ImplementsBoard
BY MessengerUsesDriver, DriverImplementsBoard, PTL
=============================================================================
