----------------------------- MODULE PccServer -----------------------------
(***************************************************************************)
(* hw5_os/pcc_server.c: serves one client after the other, until SIGINT.   *)
(*                                                                         *)
(* Built as pcc.pdf says (-std=c11 -D_POSIX_C_SOURCE=200809), signal() has *)
(* System V semantics: the handler is removed when it is entered, and a    *)
(* system call that blocks when the signal comes fails with EINTR.         *)
(* SIGPIPE keeps its default action.                                       *)
(***************************************************************************)
EXTENDS Connection

CONSTANTS MaxSigint,    \* bound: SIGINTs sent to the server
          NULL

ASSUME ServerAssumption == NULL \notin Clients

Chars == 0 .. MAX_PRINTABLE_CHAR - MIN_PRINTABLE_CHAR
Zero == [k \in Chars |-> 0]

VARIABLES
    pcc_total, pcc_client,
    g_server_is_running, g_server_is_processing,
    disposition,        \* of SIGINT: "default" or "handler"
    spc,                \* control point
    connection_fd,      \* the client of the connection, or NULL
    size_bytes,         \* bytes of the stream's length read so far
    stream_byte_size, total_bytes_read, printable_counter,
    unsent,             \* bytes of the answer still to be written
    status,             \* "running", or how the process ended
    sigints,            \* history: SIGINTs delivered
    answered, failed    \* history: clients sent their answer, given up

flags == <<g_server_is_running, g_server_is_processing, disposition>>
counts == <<pcc_total, pcc_client>>
request == <<size_bytes, stream_byte_size, total_bytes_read, printable_counter, unsent>>
history == <<sigints, answered, failed>>
server_vars == <<counts, flags, request, history, spc, connection_fd, status>>

ServerInit ==
    /\ pcc_total = Zero /\ pcc_client = Zero
    /\ g_server_is_running = FALSE /\ g_server_is_processing = FALSE
    /\ disposition = "default"
    /\ spc = "setup" /\ status = "running"
    /\ connection_fd = NULL
    /\ size_bytes = <<>> /\ unsent = <<>>
    /\ stream_byte_size = 0 /\ total_bytes_read = 0 /\ printable_counter = 0
    /\ sigints = 0 /\ answered = {} /\ failed = {}

Listening == spc \notin {"setup", "ended"}

\* exit(), the return of main, or death by a signal.
ServerEnd(how) ==
    /\ spc' = "ended" /\ status' = how
    /\ connection_fd' = NULL
    /\ ServerCloseAll

\* socket, bind and listen; each may fail.
Setup ==
    /\ spc = "setup"
    /\ \/ spc' = "signal" /\ UNCHANGED <<conn_vars, connection_fd, status>>
       \/ ServerEnd("failure")
    /\ UNCHANGED <<counts, flags, request, history>>

InstallHandler ==
    /\ spc = "signal"
    /\ disposition' = "handler" /\ g_server_is_running' = TRUE
    /\ spc' = "test"
    /\ UNCHANGED <<conn_vars, counts, request, history, g_server_is_processing,
                   connection_fd, status>>

WhileRunning ==
    /\ spc = "test"
    /\ spc' = IF g_server_is_running THEN "accept" ELSE "print"
    /\ UNCHANGED <<conn_vars, counts, flags, request, history, connection_fd, status>>

Accept ==
    /\ spc = "accept" /\ backlog # <<>>
    /\ connection_fd' = Head(backlog) /\ backlog' = Tail(backlog)
    /\ spc' = "accepted"
    /\ UNCHANGED <<up, down, c_open, s_open, broken, counts, flags, request, history, status>>

\* accept fails for a reason other than a signal, such as a missing descriptor.
AcceptError ==
    /\ spc = "accept"
    /\ ServerEnd("failure")
    /\ UNCHANGED <<counts, flags, request, history>>

MarkProcessing ==
    /\ spc = "accepted"
    /\ g_server_is_processing' = TRUE
    /\ size_bytes' = <<>>
    /\ spc' = "size"
    /\ UNCHANGED <<conn_vars, counts, g_server_is_running, disposition, stream_byte_size,
                   total_bytes_read, printable_counter, unsent, history, connection_fd, status>>

\* Mutation: the counters of the client before are kept.
ReadSize_NoReset(bytes) ==
    /\ size_bytes' = size_bytes \o bytes
    /\ IF Len(size_bytes') = SIZEOF
       THEN stream_byte_size' = ntohl(size_bytes') /\ spc' = "stream"
       ELSE UNCHANGED <<stream_byte_size, spc>>
    /\ total_bytes_read' = 0 /\ printable_counter' = 0
    /\ UNCHANGED pcc_client

\* The rest of the loop of read_stream_size_from_client after a read, and
\* reset_pcc_client after the last one.
ReadSize(bytes) ==
    /\ size_bytes' = size_bytes \o bytes
    /\ IF Len(size_bytes') = SIZEOF
       THEN stream_byte_size' = ntohl(size_bytes') /\ spc' = "stream"
       ELSE UNCHANGED <<stream_byte_size, spc>>
    /\ total_bytes_read' = 0 /\ printable_counter' = 0
    /\ pcc_client' = IF Len(size_bytes') = SIZEOF THEN Zero ELSE pcc_client

\* Mutation: every read asks for all of the length.
read_stream_size_from_client_Greedy ==
    /\ spc = "size"
    /\ \E bytes \in Arrived(up[connection_fd], SIZEOF) :
          ServerRecv(connection_fd, bytes) /\ ReadSize(bytes)
    /\ UNCHANGED <<pcc_total, flags, unsent, history, connection_fd, status>>

read_stream_size_from_client ==
    /\ spc = "size"
    /\ \E bytes \in Arrived(up[connection_fd], SIZEOF - Len(size_bytes)) :
          ServerRecv(connection_fd, bytes) /\ ReadSize(bytes)
    /\ UNCHANGED <<pcc_total, flags, unsent, history, connection_fd, status>>

update_pcc_client(bytes) ==
    pcc_client' = [k \in Chars |->
        uint32_t(pcc_client[k] + Cardinality({i \in DOMAIN bytes : bytes[i] = k + MIN_PRINTABLE_CHAR}))]

read_stream_from_client ==
    /\ spc = "stream" /\ total_bytes_read < stream_byte_size
    /\ \E bytes \in Arrived(up[connection_fd], BUFFER_SZIE) :
          /\ ServerRecv(connection_fd, bytes)
          /\ total_bytes_read' = uint32_t(total_bytes_read + Len(bytes))
          /\ printable_counter' = uint32_t(printable_counter + Printables(bytes))
          /\ update_pcc_client(bytes)
    /\ UNCHANGED <<pcc_total, flags, size_bytes, stream_byte_size, unsent, history,
                   spc, connection_fd, status>>

StreamRead ==
    /\ spc = "stream" /\ total_bytes_read >= stream_byte_size
    /\ unsent' = htonl(printable_counter)
    /\ spc' = "send"
    /\ UNCHANGED <<conn_vars, counts, flags, history, connection_fd, status, size_bytes,
                   stream_byte_size, total_bytes_read, printable_counter>>

\* An error of the connection: the socket is closed and the loop continues,
\* with g_server_is_processing still set.
CloseClient ==
    /\ ServerClose(connection_fd)
    /\ failed' = failed \cup {connection_fd}
    /\ spc' = "test" /\ connection_fd' = NULL
    /\ UNCHANGED status

GiveUp == CloseClient /\ UNCHANGED <<counts, request, sigints, answered>>

ReadError ==
    /\ spc \in {"size", "stream"} /\ ReadFails(connection_fd)
    /\ spc = "stream" => total_bytes_read < stream_byte_size
    /\ GiveUp
    /\ UNCHANGED flags

send_printable_counter_to_client ==
    /\ spc = "send"
    /\ \E bytes \in Arrived(unsent, SIZEOF) :
          /\ ServerSend(connection_fd, bytes)
          /\ unsent' = Rest(unsent, bytes)
          /\ spc' = IF unsent' = <<>> THEN "update" ELSE "send"
          /\ answered' = IF unsent' = <<>> THEN answered \cup {connection_fd} ELSE answered
    /\ UNCHANGED <<counts, flags, size_bytes, stream_byte_size, total_bytes_read,
                   printable_counter, sigints, failed, connection_fd, status>>

\* write fails; when the client has closed its end too the error may be EPIPE,
\* which comes with SIGPIPE.
WriteError ==
    /\ spc = "send" /\ connection_fd \in broken
    /\ \/ GiveUp
       \/ /\ connection_fd \notin c_open
          /\ ServerEnd("killed")
          /\ UNCHANGED <<counts, request, history>>
    /\ UNCHANGED flags

update_pcc_total ==
    /\ spc = "update"
    /\ pcc_total' = [k \in Chars |-> uint32_t(pcc_total[k] + pcc_client[k])]
    /\ ServerClose(connection_fd)
    /\ connection_fd' = NULL
    /\ spc' = "clear"
    /\ UNCHANGED <<pcc_client, flags, request, history, status>>

\* Mutation: the flag is not cleared.
ClearProcessing_Forgotten ==
    /\ spc = "clear"
    /\ spc' = "test"
    /\ UNCHANGED <<conn_vars, counts, flags, request, history, connection_fd, status>>

ClearProcessing ==
    /\ spc = "clear"
    /\ g_server_is_processing' = FALSE
    /\ spc' = "test"
    /\ UNCHANGED <<conn_vars, counts, g_server_is_running, disposition, request, history,
                   connection_fd, status>>

\* print_pcc_total and the end of main.
PrintAndReturn ==
    /\ spc = "print"
    /\ ServerEnd("success")
    /\ UNCHANGED <<counts, flags, request, history>>

-----------------------------------------------------------------------------
\* The handler while a client is processed.  It comes between two steps; or it
\* interrupts an accept or a read that blocks, which then fails.
HandlerProcessing ==
    /\ g_server_is_running' = FALSE
    /\ UNCHANGED g_server_is_processing
    /\ \/ UNCHANGED <<conn_vars, spc, connection_fd, status, failed>>
       \/ /\ spc = "accept" /\ backlog = <<>>
          /\ ServerEnd("failure")
          /\ UNCHANGED failed
       \/ /\ spc \in {"size", "stream"} /\ ReadBlocks(connection_fd)
          /\ spc = "stream" => total_bytes_read < stream_byte_size
          /\ CloseClient

\* Mutation: the server is always told to finish its loop.
sig_int_handler_NoExit == HandlerProcessing

sig_int_handler ==
    IF g_server_is_processing
    THEN HandlerProcessing
    ELSE ServerEnd("success") /\ UNCHANGED <<g_server_is_running, g_server_is_processing, failed>>

Sigint ==
    /\ spc # "ended" /\ sigints < MaxSigint
    /\ sigints' = sigints + 1
    /\ disposition' = "default"
    /\ IF disposition = "handler" THEN sig_int_handler
       ELSE ServerEnd("killed") /\ UNCHANGED <<g_server_is_running, g_server_is_processing, failed>>
    /\ UNCHANGED <<counts, request, answered>>

Server ==
    \/ Setup \/ InstallHandler \/ WhileRunning \/ Accept \/ MarkProcessing
    \/ read_stream_size_from_client \/ read_stream_from_client \/ StreamRead \/ ReadError
    \/ send_printable_counter_to_client \/ WriteError
    \/ update_pcc_total \/ ClearProcessing \/ PrintAndReturn

ServerTypeOK ==
    /\ pcc_total \in [Chars -> 0 .. UINT_MAX] /\ pcc_client \in [Chars -> 0 .. UINT_MAX]
    /\ g_server_is_running \in BOOLEAN /\ g_server_is_processing \in BOOLEAN
    /\ disposition \in {"default", "handler"}
    /\ spc \in {"setup", "signal", "test", "accept", "accepted", "size", "stream", "send",
                "update", "clear", "print", "ended"}
    /\ connection_fd \in Clients \cup {NULL}
    /\ size_bytes \in Seq(0 .. BASE - 1) /\ Len(size_bytes) <= SIZEOF
    /\ {stream_byte_size, total_bytes_read, printable_counter} \subseteq 0 .. UINT_MAX
    /\ unsent \in Seq(0 .. BASE - 1)
    /\ status \in {"running", "success", "failure", "killed"}
    /\ sigints \in Nat /\ answered \subseteq Clients /\ failed \subseteq Clients
=============================================================================
