----------------------------- MODULE Messenger -----------------------------
(***************************************************************************)
(* hw3_os/message_sender.c and message_reader.c on top of the driver.  The *)
(* files in ProgramFiles may be opened by one of them, every file by any   *)
(* other program.  A program may be killed at any time; exit() and the     *)
(* kernel close its file.                                                  *)
(***************************************************************************)
EXTENDS MessageSlot

CONSTANT ProgramFiles

ASSUME MessengerAssumption == ProgramFiles \subseteq Files

VARIABLES
    pc,         \* control point of the program of a file, "none" for another program
    buffer,     \* the MAX_BUF_LEN bytes the reader allocates
    ret_val     \* what its read has returned, and its write to stdout after it

programs == <<pc, buffer, ret_val>>
mvars == <<vars, programs>>

FreshBuffer == [i \in 1 .. MAX_BUF_LEN |-> GARBAGE]

MInit ==
    /\ Init
    /\ pc = [f \in Files |-> "none"]
    /\ buffer = [f \in ProgramFiles |-> FreshBuffer]
    /\ ret_val = [f \in ProgramFiles |-> 0]

\* The program goes on at "next" when its call succeeds, and exits otherwise.
Continue(f, next) ==
    pc' = [pc EXCEPT ![f] = IF reply'.status = "ok" THEN next ELSE
                            IF f_minor'[f] = NULL THEN "none" ELSE "close"]

Open(f) ==
    /\ pc[f] = "none"
    /\ \E m \in Minors : device_open(f, m)
    /\ Continue(f, "s_ioctl") \/ Continue(f, "r_ioctl")
    /\ UNCHANGED <<buffer, ret_val>>

SetDesiredChannel(f) ==
    /\ \/ pc[f] = "s_ioctl" /\ device_ioctl(f) /\ Continue(f, "s_write")
       \/ pc[f] = "r_ioctl" /\ device_ioctl(f) /\ Continue(f, "r_read")
    /\ UNCHANGED <<buffer, ret_val>>

SendMessage(f) ==
    /\ pc[f] = "s_write"
    /\ \E msg \in UserMessages : device_write(f, msg)
    /\ Continue(f, "close")
    /\ UNCHANGED <<buffer, ret_val>>

\* Mutation: the whole buffer is printed.
ReadMessage_WholeBuffer(f) ==
    /\ pc[f] = "r_read"
    /\ device_read(f, MAX_BUF_LEN)
    /\ Continue(f, "r_close")
    /\ IF reply'.status = "ok"
       THEN /\ buffer' = [buffer EXCEPT ![f] = BytesAt(reply'.data, MAX_BUF_LEN)]
            /\ ret_val' = [ret_val EXCEPT ![f] = MAX_BUF_LEN]
       ELSE UNCHANGED <<buffer, ret_val>>

\* Mutation: the buffer is allocated a byte too short.
ReadMessage_Short(f) ==
    /\ pc[f] = "r_read"
    /\ device_read(f, MAX_BUF_LEN - 1)
    /\ Continue(f, "r_close")
    /\ IF reply'.status = "ok"
       THEN /\ buffer' = [buffer EXCEPT ![f] = BytesAt(reply'.data, MAX_BUF_LEN)]
            /\ ret_val' = [ret_val EXCEPT ![f] = reply'.n]
       ELSE UNCHANGED <<buffer, ret_val>>

\* malloc, whose failure the kernel reports as EFAULT, and read.
ReadMessage(f) ==
    /\ pc[f] = "r_read"
    /\ device_read(f, MAX_BUF_LEN)
    /\ Continue(f, "r_close")
    /\ IF reply'.status = "ok"
       THEN /\ buffer' = [buffer EXCEPT ![f] = BytesAt(reply'.data, MAX_BUF_LEN)]
            /\ ret_val' = [ret_val EXCEPT ![f] = reply'.n]
       ELSE UNCHANGED <<buffer, ret_val>>

\* close; the sender, and a program that gives up, end with it.
Close(f) ==
    /\ pc[f] \in {"close", "r_close"}
    /\ device_release(f)
    /\ pc' = [pc EXCEPT ![f] = IF @ = "close" THEN "none" ELSE "print"]
    /\ UNCHANGED <<buffer, ret_val>>

Printed(f) == BytesAt(buffer[f], ret_val[f])

\* The write to stdout of Printed(f), which may fail or be short.
PrintMessage(f) ==
    /\ pc[f] = "print"
    /\ pc' = [pc EXCEPT ![f] = "exit"]
    /\ \E n \in {-1} \cup 1 .. ret_val[f] : ret_val' = [ret_val EXCEPT ![f] = n]
    /\ UNCHANGED <<vars, buffer>>

\* The reader ends, with SUCCESS unless the write has failed, and its memory with it.
Exit(f) ==
    /\ pc[f] = "exit"
    /\ pc' = [pc EXCEPT ![f] = "none"]
    /\ buffer' = [buffer EXCEPT ![f] = FreshBuffer]
    /\ ret_val' = [ret_val EXCEPT ![f] = 0]
    /\ UNCHANGED vars

\* The program is killed while its file is open.
Killed(f) ==
    /\ pc[f] # "none"
    /\ device_release(f)
    /\ pc' = [pc EXCEPT ![f] = "none"]
    /\ buffer' = [buffer EXCEPT ![f] = FreshBuffer]
    /\ ret_val' = [ret_val EXCEPT ![f] = 0]

Program(f) == \/ Open(f) \/ SetDesiredChannel(f) \/ SendMessage(f) \/ ReadMessage(f)
              \/ Close(f) \/ PrintMessage(f) \/ Exit(f) \/ Killed(f)

MNext == \/ (msg_slot_init \/ msg_slot_cleanup) /\ UNCHANGED programs
         \/ \E f \in Files : pc[f] = "none" /\ Call(f) /\ UNCHANGED programs
         \/ \E f \in ProgramFiles : Program(f)

MSpec == MInit /\ [][MNext]_mvars

-----------------------------------------------------------------------------
\* message_reader gives its write a whole message that some program wrote, and no
\* byte of its own uninitialised buffer, whoever writes and reads meanwhile.  What
\* reaches standard output is the beginning of such a message, or nothing when the
\* write fails: line 54 tests for an error, and a short write goes unnoticed.
PrintsMessage ==
    \A f \in ProgramFiles :
        /\ pc[f] = "print" => Printed(f) \in UserMessages \ {<<>>}
        /\ pc[f] = "exit" /\ ret_val[f] # -1 =>
              ret_val[f] > 0 /\ \E msg \in UserMessages : IsPrefix(Printed(f), msg)

\* MAX_BUF_LEN bytes are enough for every message the driver keeps: the read of
\* message_reader is only refused when nothing was written to its channel, or its
\* buffer is not accessible.
ReaderServed ==
    [][\A f \in ProgramFiles : pc[f] = "r_read" /\ pc'[f] = "close" =>
          \/ reply'.status = "EFAULT"
          \/ reply'.status = "EWOULDBLOCK" /\ Shown(f_minor[f], private_data[f]) = NULL]_mvars
=============================================================================
