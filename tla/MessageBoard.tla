---------------------------- MODULE MessageBoard ----------------------------
(***************************************************************************)
(* What a message slot promises the programs that use it.  A channel of a  *)
(* minor number shows the last message written to it, whole, until it is   *)
(* overwritten; a call that reports an error has changed no message.       *)
(***************************************************************************)
EXTENDS Naturals, Sequences

CONSTANTS Files, Minors, Channels, MAX_BUF_LEN, NULL

VARIABLES
    board,  \* the messages shown: pairs of a place and its message
    assoc,  \* the place a file reads and writes, NULL for none
    reply,  \* the result of the last system call
    caller  \* the file it was made on, NULL for none

vars == <<board, assoc, reply, caller>>

\* A place is a channel of a minor.
Places == Minors \X Channels
Taken(p) == \E shown \in board : shown[1] = p

\* The result of a call that transfers no message, and of one that does.
Done == [status |-> "ok", n |-> 0, data |-> <<>>]
Transferred(msg) == [status |-> "ok", n |-> Len(msg), data |-> msg]

Init ==
    /\ board = {}
    /\ assoc = [f \in Files |-> NULL]
    /\ reply = Done
    /\ caller = NULL

\* The module is loaded or unloaded: no message survives.
Reset ==
    /\ reply' = Done
    /\ board' = {}
    /\ assoc = [f \in Files |-> NULL]
    /\ UNCHANGED assoc

\* open, close or ioctl.
Associate(f) ==
    /\ reply' = Done
    /\ UNCHANGED board
    /\ assoc' = [assoc EXCEPT ![f] = assoc'[f]]
    /\ assoc'[f] \in Places \cup {NULL}

\* The bytes transferred are the message that the place shows from now on.
Write(f) ==
    /\ assoc[f] # NULL
    /\ Len(reply'.data) \in 1 .. MAX_BUF_LEN
    /\ reply' = Transferred(reply'.data)
    /\ board' = {shown \in board : shown[1] # assoc[f]} \cup {<<assoc[f], reply'.data>>}
    /\ UNCHANGED assoc

Read(f) ==
    /\ <<assoc[f], reply'.data>> \in board
    /\ reply' = Transferred(reply'.data)
    /\ UNCHANGED <<board, assoc>>

\* An error changes nothing, and these two are only reported for a reason.
Refuse(f) ==
    /\ reply'.status # "ok" /\ reply'.data = <<>>
    /\ reply'.status = "EWOULDBLOCK" => assoc[f] # NULL /\ ~Taken(assoc[f])
    /\ reply'.status = "ENOSPC" => Taken(assoc[f])
    /\ UNCHANGED <<board, assoc>>

\* A call touches the place of the file it is made on, and no other.
Next == \/ Reset /\ caller' = NULL
        \/ \E f \in Files : /\ Associate(f) \/ Read(f) \/ Write(f) \/ Refuse(f)
                          /\ caller' = f

Spec == Init /\ [][Next]_vars
=============================================================================
