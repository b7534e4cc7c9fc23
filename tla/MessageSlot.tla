---------------------------- MODULE MessageSlot ----------------------------
(***************************************************************************)
(* hw3_os/message_slot.c: a character device whose every minor number is a *)
(* slot, a linked list of channels, each of which keeps the last message   *)
(* written to it.                                                          *)
(*                                                                         *)
(* System calls on the device run one at a time (msgslot.pdf 3.1, item     *)
(* 11), so a call is one action; the calls of all open files interleave.   *)
(* The kernel's part (external): struct file starts with private_data NULL *)
(* and the module cannot be unloaded while a file is open, because fops    *)
(* names THIS_MODULE as owner.                                             *)
(***************************************************************************)
EXTENDS Integers, Sequences, FiniteSets, SequencesExt

CONSTANTS
    Minors,         \* 0 .. MAX_MINORS_AMOUNT - 1
    Channels,       \* channel ids other than 0
    MAX_BUF_LEN,
    Files,          \* struct file objects
    UserBytes,
    UserMessages,   \* what processes try to write: sequences of UserBytes
    Faults,         \* what the environment may do to this run
    MaxAllocated,   \* bound: krealloc only fails while fewer blocks are held
    NULL, GARBAGE,  \* no pointer; the content of fresh kmalloc memory
    ZERO            \* the byte copy_from_user fills the rest with

(***************************************************************************)
(* The first four are kmalloc or krealloc returning NULL at lines 71, 28,  *)
(* 182 and 175, then a user buffer that is not fully accessible, and       *)
(* register_chrdev refusing the major number.                              *)
(***************************************************************************)
FaultKinds == {"slot", "channel", "buffer", "krealloc",
               "copy_from_user", "copy_to_user", "register"}

Bytes == UserBytes \cup {ZERO, GARBAGE}
Buffers == UNION {[1 .. n -> Bytes] : n \in 1 .. MAX_BUF_LEN}

\* msg_slot_channel_t; its next field is its place in the list.
msg_slot_channel_t ==
    [id : Channels, active : BOOLEAN, msg_buffer : Buffers \cup {NULL},
     curr_msg_len : 1 .. MAX_BUF_LEN \cup {GARBAGE}]

ASSUME MessageSlotAssumption ==
    /\ MAX_BUF_LEN \in Nat \ {0}
    /\ MaxAllocated \in Nat
    /\ UserMessages \subseteq Seq(UserBytes)
    /\ Faults \subseteq FaultKinds
    /\ NULL \notin Minors \cup Channels \cup Buffers
    /\ NULL \notin Seq(msg_slot_channel_t) /\ NULL \notin Minors \X Channels
    /\ GARBAGE \notin 1 .. MAX_BUF_LEN

VARIABLES
    module,         \* "absent", "registered", "unregistered" or "oops"
    g_msg_slots,    \* per minor: NULL, or its list of channels, head first
    f_minor,        \* iminor(file->f_inode), NULL for a file that is not open
    private_data,   \* the channel id of an open file, NULL for none
    allocated,      \* history: blocks of memory held on behalf of a minor
    reply,          \* the result of the last system call
    caller          \* history: the file of that call, NULL for none

vars == <<module, g_msg_slots, f_minor, private_data, allocated, reply, caller>>

\* A result: the errno or "ok", the returned count, the bytes transferred.
Ok(n, data) == reply' = [status |-> "ok", n |-> n, data |-> data]
Error(e) == reply' = [status |-> e, n |-> -1, data |-> <<>>]

Init ==
    /\ module = "absent"
    /\ g_msg_slots = [m \in Minors |-> NULL]
    /\ f_minor = [f \in Files |-> NULL]
    /\ private_data = [f \in Files |-> NULL]
    /\ allocated = [m \in Minors |-> 0]
    /\ reply = [status |-> "ok", n |-> 0, data |-> <<>>]
    /\ caller = NULL

IsOpen(f) == module = "registered" /\ f_minor[f] # NULL

-----------------------------------------------------------------------------
(***************************************************************************)
(* The list of channels.  A pointer into it is a position, 0 is NULL.      *)
(***************************************************************************)
\* Mutation: the list is searched from its second element.
find_channel_SkipsHead(head, id) ==
    LET p == SelectInSeq(head, LAMBDA c : c.id = id) IN IF p = 1 THEN 0 ELSE p

find_channel(head, id) == SelectInSeq(head, LAMBDA c : c.id = id)

\* The list after a successful add_channel_to_msg_slot.
WithNewChannel(head, id) ==
    <<[id |-> id, active |-> FALSE, msg_buffer |-> NULL,
       curr_msg_len |-> GARBAGE]>> \o head

\* Mutation: the message buffers are not freed.
FreedBlocks_ChannelsOnly(head) == 1 + Len(head)

\* The number of blocks free_channel_lst and the kfree after it release.
FreedBlocks(head) ==
    1 + Len(head) + Cardinality({p \in DOMAIN head : head[p].active
                                                     /\ head[p].msg_buffer # NULL})

\* The first n bytes at a buffer, whatever lies behind its end.
BytesAt(buffer, n) == [i \in 1 .. n |-> IF i <= Len(buffer) THEN buffer[i] ELSE GARBAGE]

-----------------------------------------------------------------------------
(***************************************************************************)
(* Loading, unloading, opening and closing.                                *)
(***************************************************************************)
\* A failing register_chrdev is logged; the module is loaded all the same.
msg_slot_init ==
    /\ module = "absent"
    /\ \/ module' = "registered"
       \/ "register" \in Faults /\ module' = "unregistered"
    /\ Ok(0, <<>>) /\ caller' = NULL
    /\ UNCHANGED <<g_msg_slots, f_minor, private_data, allocated>>

\* Every slot is freed; the array itself goes with the module.
msg_slot_cleanup ==
    /\ module \in {"registered", "unregistered"}
    /\ \A f \in Files : f_minor[f] = NULL
    /\ module' = "absent"
    /\ allocated' = [m \in Minors |->
          IF g_msg_slots[m] # NULL THEN allocated[m] - FreedBlocks(g_msg_slots[m])
                                   ELSE allocated[m]]
    /\ g_msg_slots' = [m \in Minors |-> NULL]
    /\ Ok(0, <<>>) /\ caller' = NULL
    /\ UNCHANGED <<f_minor, private_data>>

OpenFile(f, m) ==
    /\ f_minor' = [f_minor EXCEPT ![f] = m]
    /\ private_data' = [private_data EXCEPT ![f] = NULL]
    /\ Ok(0, <<>>)

\* init_msg_slot: the slot is the result of kmalloc, NULL when it fails, and
\* then the file is not opened.
init_msg_slot(f, m) ==
    \/ /\ g_msg_slots' = [g_msg_slots EXCEPT ![m] = <<>>]
       /\ allocated' = [allocated EXCEPT ![m] = @ + 1]
       /\ OpenFile(f, m)
    \/ /\ "slot" \in Faults
       /\ Error("ENOMEM")
       /\ UNCHANGED <<g_msg_slots, f_minor, private_data, allocated>>

\* Mutation: a slot is initialised by every open.
device_open_Always(f, m) ==
    /\ module = "registered" /\ f_minor[f] = NULL
    /\ caller' = f
    /\ init_msg_slot(f, m)
    /\ UNCHANGED module

device_open(f, m) ==
    /\ module = "registered" /\ f_minor[f] = NULL
    /\ caller' = f
    /\ IF g_msg_slots[m] = NULL
       THEN init_msg_slot(f, m)
       ELSE OpenFile(f, m) /\ UNCHANGED <<g_msg_slots, allocated>>
    /\ UNCHANGED module

device_release(f) ==
    /\ IsOpen(f)
    /\ caller' = f
    /\ f_minor' = [f_minor EXCEPT ![f] = NULL]
    /\ private_data' = [private_data EXCEPT ![f] = NULL]
    /\ Ok(0, <<>>)
    /\ UNCHANGED <<module, g_msg_slots, allocated>>

-----------------------------------------------------------------------------
(***************************************************************************)
(* ioctl, read and write.                                                  *)
(***************************************************************************)
\* 0 is the invalid channel id; a foreign command is refused whatever it
\* carries.
device_ioctl(f) ==
    /\ IsOpen(f)
    /\ caller' = f
    /\ \/ \E id \in Channels : private_data' = [private_data EXCEPT ![f] = id] /\ Ok(0, <<>>)
       \/ Error("EINVAL") /\ UNCHANGED private_data
    /\ UNCHANGED <<module, g_msg_slots, f_minor, allocated>>

\* copy_to_user of len bytes.  A message buffer that a failed krealloc left
\* NULL is read all the same: the copy fails, or the kernel does.
CopyOut(c, len) ==
    \/ /\ c.msg_buffer # NULL
       /\ Ok(len, BytesAt(c.msg_buffer, len))
       /\ UNCHANGED module
    \/ /\ "copy_to_user" \in Faults \/ c.msg_buffer = NULL
       /\ Error("EFAULT")
       /\ UNCHANGED module
    \/ /\ c.msg_buffer = NULL
       /\ Error("EFAULT")
       /\ module' = "oops"

\* Mutation: a short buffer is served with what fits.
ReadChannel_Truncates(c, length) ==
    \E len \in IF c.curr_msg_len = GARBAGE THEN 0 .. MAX_BUF_LEN + 1 ELSE {c.curr_msg_len} :
        CopyOut(c, IF length < len THEN length ELSE len)

\* The length test and the copy; curr_msg_len is whatever kmalloc returned
\* until a write has succeeded.
ReadChannel(c, length) ==
    \E len \in IF c.curr_msg_len = GARBAGE THEN 0 .. MAX_BUF_LEN + 1 ELSE {c.curr_msg_len} :
        IF length < len
        THEN Error("ENOSPC") /\ UNCHANGED module
        ELSE CopyOut(c, len)

device_read(f, length) ==
    /\ IsOpen(f)
    /\ caller' = f
    /\ IF private_data[f] = NULL
       THEN Error("EINVAL") /\ UNCHANGED module
       ELSE LET head == g_msg_slots[f_minor[f]]
                p == find_channel(head, private_data[f])
            IN  IF p = 0 \/ ~head[p].active
                THEN Error("EWOULDBLOCK") /\ UNCHANGED module
                ELSE ReadChannel(head[p], length)
    /\ UNCHANGED <<g_msg_slots, f_minor, private_data, allocated>>

-----------------------------------------------------------------------------
SetChannel(m, head, p, c) == g_msg_slots' = [g_msg_slots EXCEPT ![m] = [head EXCEPT ![p] = c]]

\* The buffer copy_from_user leaves behind when it stops after k bytes.
TornCopy(msg, k) == [i \in 1 .. Len(msg) |-> IF i <= k THEN msg[i] ELSE ZERO]

\* Mutation: the length is only set by a channel's first write.
CopyIn_NoLength(m, head, p, c, msg) ==
    /\ SetChannel(m, head, p, [c EXCEPT !.msg_buffer = msg,
                                        !.curr_msg_len = IF @ = GARBAGE THEN Len(msg) ELSE @])
    /\ Ok(Len(msg), msg)

\* copy_from_user into the new buffer of channel c.  A failure comes too late
\* to keep the old message and too early to set the new length.
CopyIn(m, head, p, c, msg) ==
    \/ /\ SetChannel(m, head, p, [c EXCEPT !.msg_buffer = msg, !.curr_msg_len = Len(msg)])
       /\ Ok(Len(msg), msg)
    \/ /\ "copy_from_user" \in Faults
       /\ \E k \in 0 .. Len(msg) - 1 : SetChannel(m, head, p, [c EXCEPT !.msg_buffer = TornCopy(msg, k)])
       /\ Error("EFAULT")

\* Lines 172 to 197, with curr_channel at position p of the list head, of which
\* "new" blocks were allocated in this call.  A failing krealloc overwrites the
\* only pointer to the old buffer.
WriteChannel(m, head, p, new, msg) ==
    LET c == head[p]
        fresh == IF c.active /\ c.msg_buffer # NULL THEN 0 ELSE 1
    IN  \/ /\ allocated' = [allocated EXCEPT ![m] = @ + new + fresh]
           /\ CopyIn(m, head, p, [c EXCEPT !.active = TRUE], msg)
        \/ /\ IF c.active THEN "krealloc" \in Faults /\ allocated[m] < MaxAllocated
                          ELSE "buffer" \in Faults
           /\ allocated' = [allocated EXCEPT ![m] = @ + new]
           /\ SetChannel(m, head, p, [c EXCEPT !.msg_buffer = NULL])
           /\ Error("ENOMEM")

\* add_channel_to_msg_slot reports -ENOMEM, line 164 tests for -1: when it
\* fails, the write goes on with the channel at the head of the list.
WriteWithoutChannel(m, head, msg) ==
    /\ "channel" \in Faults
    /\ IF head = <<>>
       THEN Error("EFAULT") /\ module' = "oops" /\ UNCHANGED <<g_msg_slots, allocated>>
       ELSE WriteChannel(m, head, 1, 0, msg) /\ UNCHANGED module

\* The channel is found, or added at the head of the list.
WriteMessage(m, id, msg) ==
    LET head == g_msg_slots[m]
        p == find_channel(head, id)
    IN  IF p # 0
        THEN WriteChannel(m, head, p, 0, msg) /\ UNCHANGED module
        ELSE \/ WriteChannel(m, WithNewChannel(head, id), 1, 1, msg) /\ UNCHANGED module
             \/ WriteWithoutChannel(m, head, msg)

\* Mutation: the length test lets one byte too many pass.
device_write_OneMore(f, msg) ==
    /\ IsOpen(f)
    /\ caller' = f
    /\ CASE private_data[f] = NULL ->
              Error("EINVAL") /\ UNCHANGED <<module, g_msg_slots, allocated>>
         [] private_data[f] # NULL /\ (msg = <<>> \/ Len(msg) > MAX_BUF_LEN + 1) ->
              Error("EMSGSIZE") /\ UNCHANGED <<module, g_msg_slots, allocated>>
         [] OTHER -> WriteMessage(f_minor[f], private_data[f], msg)
    /\ UNCHANGED <<f_minor, private_data>>

device_write(f, msg) ==
    /\ IsOpen(f)
    /\ caller' = f
    /\ CASE private_data[f] = NULL ->
              Error("EINVAL") /\ UNCHANGED <<module, g_msg_slots, allocated>>
         [] private_data[f] # NULL /\ (msg = <<>> \/ Len(msg) > MAX_BUF_LEN) ->
              Error("EMSGSIZE") /\ UNCHANGED <<module, g_msg_slots, allocated>>
         [] OTHER -> WriteMessage(f_minor[f], private_data[f], msg)
    /\ UNCHANGED <<f_minor, private_data>>

-----------------------------------------------------------------------------
Call(f) == \/ \E m \in Minors : device_open(f, m)
           \/ device_release(f)
           \/ device_ioctl(f)
           \/ \E length \in 0 .. MAX_BUF_LEN + 1 : device_read(f, length)
           \/ \E msg \in UserMessages : device_write(f, msg)

Next == \/ msg_slot_init
        \/ msg_slot_cleanup
        \/ \E f \in Files : Call(f)

Spec == Init /\ [][Next]_vars

-----------------------------------------------------------------------------
\* The types of the driver's state; an open file has a slot, and a buffer never
\* exceeds MAX_BUF_LEN (line 152).
TypeOK ==
    /\ module \in {"absent", "registered", "unregistered", "oops"}
    /\ g_msg_slots \in [Minors -> Seq(msg_slot_channel_t) \cup {NULL}]
    /\ f_minor \in [Files -> Minors \cup {NULL}]
    /\ private_data \in [Files -> Channels \cup {NULL}]
    /\ allocated \in [Minors -> Int]
    /\ \A f \in Files : f_minor[f] # NULL => g_msg_slots[f_minor[f]] # NULL

\* The channels of a minor that exist so far.
Used(m) == IF g_msg_slots[m] = NULL THEN {} ELSE {c.id : c \in ToSet(g_msg_slots[m])}

\* What a reader of channel id of minor m gets.
Shown(m, id) ==
    LET head == g_msg_slots[m]
        p == IF head = NULL THEN 0 ELSE find_channel(head, id)
    IN  IF p = 0 \/ ~head[p].active THEN NULL
        ELSE BytesAt(head[p].msg_buffer, head[p].curr_msg_len)

UniqueIds(head) == \A i, j \in DOMAIN head : head[i].id = head[j].id => i = j

\* find_channel decides by the first entry it meets: a channel id must never
\* enter a slot's list twice, whatever fails on the way.
UniqueChannels ==
    \A m \in Minors : g_msg_slots[m] # NULL => UniqueIds(g_msg_slots[m])

\* device_read hands out curr_msg_len bytes at msg_buffer of every active
\* channel: they are exactly the bytes of one buffer of a legal length.
MessageWhole ==
    \A m \in Minors : g_msg_slots[m] # NULL =>
        \A c \in ToSet(g_msg_slots[m]) : c.active =>
            /\ c.msg_buffer # NULL
            /\ c.curr_msg_len = Len(c.msg_buffer)
            /\ c.curr_msg_len \in 1 .. MAX_BUF_LEN

\* "When unloaded, the module should free all memory that it allocated"
\* (msgslot.pdf 3.1, item 9): free_channel_lst reaches every block.
NoLeak == module = "absent" => \A m \in Minors : allocated[m] = 0

\* device_release keeps the data of the slot while the module is loaded (the
\* comment at lines 99-100), and so does every other call, failing ones
\* included: a slot or a channel that exists stays until the module is unloaded.
ChannelsKept ==
    [][module' # "absent" =>
         \A m \in Minors : /\ g_msg_slots[m] # NULL => g_msg_slots'[m] # NULL
                           /\ Used(m) \subseteq Used(m)']_vars

\* A message changes only when a file is set to its channel: line 168 promises
\* that the entry device_write goes on with is "the desired channel".
OwnChannelOnly ==
    [][\A m \in Minors, id \in Channels :
         module' # "absent" /\ Shown(m, id)' # Shown(m, id) =>
            \E f \in Files : f_minor[f] = m /\ private_data[f] = id]_vars

-----------------------------------------------------------------------------
\* The messages that the channels of the list head of minor m keep.
Messages(m, head) ==
    {<<<<m, c.id>>, BytesAt(c.msg_buffer, c.curr_msg_len)>> :
        c \in {d \in ToSet(head) : d.active}}

Board == INSTANCE MessageBoard WITH
    board <- UNION {IF g_msg_slots[m] = NULL THEN {} ELSE Messages(m, g_msg_slots[m])
                    : m \in Minors},
    assoc <- [f \in Files |-> IF f_minor[f] = NULL \/ private_data[f] = NULL
                              THEN NULL ELSE <<f_minor[f], private_data[f]>>]

\* The driver implements the message board: a read returns to its caller, whole,
\* the last message successfully written, by whichever file, to the minor and
\* channel of the caller; a write shows its message at the caller's place and
\* nowhere else, and a call that reports an error has changed no message.
ImplementsBoard == Board!Spec

=============================================================================
