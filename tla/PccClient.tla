----------------------------- MODULE PccClient -----------------------------
(***************************************************************************)
(* hw5_os/pcc_client.c: sends a file to the server and prints the answer.  *)
(* A file is the length that stat reports and the bytes that reads return. *)
(***************************************************************************)
EXTENDS Connection, Integers

CONSTANTS Files     \* the files a client may be started with

ASSUME ClientAssumption ==
    \A f \in Files : f.length \in Nat /\ f.data \in Seq(0 .. BASE - 1)

VARIABLES
    cpc,            \* control point of each client
    file,           \* its file
    buffer,         \* bytes to be written next
    file_read,      \* total_bytes_read of write_file_to_socket
    pcc_from_server \* bytes of the answer read so far

client_vars == <<cpc, file, buffer, file_read, pcc_from_server>>

ClientInit ==
    /\ cpc = [c \in Clients |-> "start"]
    /\ file \in [Clients -> Files]
    /\ buffer = [c \in Clients |-> <<>>]
    /\ file_read = [c \in Clients |-> 0]
    /\ pcc_from_server = [c \in Clients |-> <<>>]

CGoto(c, l) == cpc' = [cpc EXCEPT ![c] = l]

\* The off_t n, returned as a uint32_t (line 30), as an int (line 33).
ToInt(n) == LET u == uint32_t(n) IN IF u <= UINT_MAX \div 2 THEN u ELSE u - (UINT_MAX + 1)

\* open, stat and connect to a server that listens.
Connect(c) ==
    /\ cpc[c] = "start"
    /\ Establish(c)
    /\ buffer' = [buffer EXCEPT ![c] = htonl(file[c].length)]
    /\ CGoto(c, "size")
    /\ UNCHANGED <<file, file_read, pcc_from_server>>

\* write of the buffer.  It blocks until all is taken: the client handles no
\* signal that could cut it short, and its loops around write run once.
WriteBuffer(c) ==
    /\ ClientSend(c, buffer[c])
    /\ buffer' = [buffer EXCEPT ![c] = <<>>]
    /\ CGoto(c, "file")
    /\ UNCHANGED <<file, file_read, pcc_from_server>>

write_stream_size_to_server(c) == cpc[c] = "size" /\ WriteBuffer(c)

\* Mutation: the file is only read while a whole buffer is left.
ReadFile_WholeBuffers(c) ==
    /\ cpc[c] = "file" /\ buffer[c] = <<>>
    /\ LET left == SubSeq(file[c].data, file_read[c] + 1, Len(file[c].data))
       IN  IF file_read[c] + BUFFER_SZIE <= ToInt(file[c].length) /\ left # <<>>
           THEN /\ buffer' = [buffer EXCEPT ![c] = SubSeq(left, 1, BUFFER_SZIE)]
                /\ file_read' = [file_read EXCEPT ![c] = @ + BUFFER_SZIE]
                /\ UNCHANGED cpc
           ELSE CGoto(c, "result") /\ UNCHANGED <<buffer, file_read>>
    /\ UNCHANGED <<conn_vars, file, pcc_from_server>>

\* The outer loop of write_file_to_socket: the next part of the file, or its end.
ReadFile(c) ==
    /\ cpc[c] = "file" /\ buffer[c] = <<>>
    /\ LET left == SubSeq(file[c].data, file_read[c] + 1, Len(file[c].data))
           n == IF Len(left) < BUFFER_SZIE THEN Len(left) ELSE BUFFER_SZIE
       IN  IF file_read[c] < ToInt(file[c].length) /\ left # <<>>
           THEN /\ buffer' = [buffer EXCEPT ![c] = SubSeq(left, 1, n)]
                /\ file_read' = [file_read EXCEPT ![c] = @ + n]
                /\ UNCHANGED cpc
           ELSE CGoto(c, "result") /\ UNCHANGED <<buffer, file_read>>
    /\ UNCHANGED <<conn_vars, file, pcc_from_server>>

\* Its inner loop.
write_file_to_socket(c) == cpc[c] = "file" /\ buffer[c] # <<>> /\ WriteBuffer(c)

\* Once the server has closed its end and all is read, read returns 0 for ever,
\* and the loop makes no progress: there is no step for it.
read_result_from_server(c) ==
    /\ cpc[c] = "result"
    /\ \E bytes \in Arrived(down[c], SIZEOF - Len(pcc_from_server[c])) :
          /\ pcc_from_server' = [pcc_from_server EXCEPT ![c] = @ \o bytes]
          /\ IF Len(pcc_from_server'[c]) = SIZEOF
             THEN /\ CGoto(c, "done")
                  /\ c_open' = c_open \ {c}
                  /\ down' = [down EXCEPT ![c] = Rest(@, bytes)]
                  /\ UNCHANGED <<backlog, up, s_open, broken>>
             ELSE ClientRecv(c, bytes) /\ UNCHANGED cpc
    /\ UNCHANGED <<file, buffer, file_read>>

ClientEnd(c, how) ==
    /\ CGoto(c, how)
    /\ ClientClose(c)
    /\ UNCHANGED <<file, buffer, file_read, pcc_from_server>>

\* A system call fails: before the connection exists, reading the file, or
\* because the connection was reset (EPIPE comes with SIGPIPE).
ClientError(c) ==
    /\ \/ cpc[c] = "start"
       \/ cpc[c] = "file" /\ buffer[c] = <<>>
       \/ cpc[c] \in {"size", "file", "result"} /\ c \in broken
    /\ ClientEnd(c, "failed")

\* The user kills the client.
Kill(c) == cpc[c] \in {"size", "file", "result"} /\ ClientEnd(c, "killed")

Client(c) ==
    \/ write_stream_size_to_server(c) \/ ReadFile(c)
    \/ write_file_to_socket(c) \/ read_result_from_server(c)

ClientTypeOK ==
    /\ cpc \in [Clients -> {"start", "size", "file", "result", "done", "failed", "killed"}]
    /\ file \in [Clients -> Files]
    /\ buffer \in [Clients -> Seq(0 .. BASE - 1)]
    /\ file_read \in [Clients -> Nat]
    /\ pcc_from_server \in [Clients -> Seq(0 .. BASE - 1)]
=============================================================================
