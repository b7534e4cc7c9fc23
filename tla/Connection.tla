----------------------------- MODULE Connection -----------------------------
(***************************************************************************)
(* What pcc_server.c and pcc_client.c use of TCP (external): a queue of    *)
(* connections that wait for accept, and per connection one byte stream in *)
(* each direction.  An end that is closed with unread bytes, or written to *)
(* after the other end was closed, resets the connection; the network may  *)
(* do so too.                                                              *)
(***************************************************************************)
EXTENDS Naturals, Sequences, FiniteSets, SequencesExt

CONSTANTS Clients, LISTEN_QUEUE_SIZE

ASSUME ConnectionAssumption == LISTEN_QUEUE_SIZE \in Nat

VARIABLES
    backlog,            \* connections that wait for accept
    up, down,           \* bytes on their way to the server and to the client
    c_open, s_open,     \* connections whose client end, server end is open
    broken              \* connections that were reset

conn_vars == <<backlog, up, down, c_open, s_open, broken>>

ConnInit ==
    /\ backlog = <<>>
    /\ up = [c \in Clients |-> <<>>] /\ down = [c \in Clients |-> <<>>]
    /\ c_open = {} /\ s_open = {} /\ broken = {}

Establish(c) ==
    /\ Len(backlog) < LISTEN_QUEUE_SIZE
    /\ backlog' = Append(backlog, c)
    /\ c_open' = c_open \cup {c} /\ s_open' = s_open \cup {c}
    /\ UNCHANGED <<up, down, broken>>

\* The client, or the server, writes bytes.
ClientSend(c, bytes) ==
    /\ c \notin broken
    /\ up' = [up EXCEPT ![c] = IF c \in s_open THEN @ \o bytes ELSE @]
    /\ broken' = IF c \in s_open THEN broken ELSE broken \cup {c}
    /\ UNCHANGED <<backlog, down, c_open, s_open>>

ServerSend(c, bytes) ==
    /\ c \notin broken
    /\ down' = [down EXCEPT ![c] = IF c \in c_open THEN @ \o bytes ELSE @]
    /\ broken' = IF c \in c_open THEN broken ELSE broken \cup {c}
    /\ UNCHANGED <<backlog, up, c_open, s_open>>

\* What a read of at most n bytes from the stream s may return: any part of
\* what has arrived.
Arrived(s, n) == {SubSeq(s, 1, k) : k \in 1 .. IF n < Len(s) THEN n ELSE Len(s)}
Rest(s, bytes) == SubSeq(s, Len(bytes) + 1, Len(s))

ServerRecv(c, bytes) ==
    /\ up' = [up EXCEPT ![c] = Rest(@, bytes)]
    /\ UNCHANGED <<backlog, down, c_open, s_open, broken>>

ClientRecv(c, bytes) ==
    /\ down' = [down EXCEPT ![c] = Rest(@, bytes)]
    /\ UNCHANGED <<backlog, up, c_open, s_open, broken>>

ClientClose(c) ==
    /\ c_open' = c_open \ {c}
    /\ broken' = IF down[c] # <<>> THEN broken \cup {c} ELSE broken
    /\ UNCHANGED <<backlog, up, down, s_open>>

ServerClose(c) ==
    /\ s_open' = s_open \ {c}
    /\ broken' = IF up[c] # <<>> THEN broken \cup {c} ELSE broken
    /\ UNCHANGED <<backlog, up, down, c_open>>

\* The server process ends: what it never accepted is reset.
ServerCloseAll ==
    /\ s_open' = {} /\ backlog' = <<>>
    /\ broken' = broken \cup {c \in s_open : up[c] # <<>> \/ c \in ToSet(backlog)}
    /\ UNCHANGED <<up, down, c_open>>

\* A TCP error.
Reset(c) ==
    /\ c \in c_open \cap s_open /\ c \notin broken
    /\ broken' = broken \cup {c}
    /\ UNCHANGED <<backlog, up, down, c_open, s_open>>

\* A read by the server would block; it fails, or reports the end of the stream.
ReadBlocks(c) == up[c] = <<>> /\ c \in c_open /\ c \notin broken
ReadFails(c) == c \in broken \/ (up[c] = <<>> /\ c \notin c_open)

-----------------------------------------------------------------------------
CONSTANTS
    BASE, SIZEOF,               \* values of a byte, bytes of a uint32_t: 256 and 4
    BUFFER_SZIE,
    MIN_PRINTABLE_CHAR, MAX_PRINTABLE_CHAR

ASSUME EncodingAssumption ==
    /\ BASE \in Nat \ {0, 1} /\ SIZEOF \in Nat \ {0} /\ BUFFER_SZIE \in Nat \ {0}
    /\ MIN_PRINTABLE_CHAR \in Nat /\ MAX_PRINTABLE_CHAR \in 0 .. BASE - 1

\* The weight of a byte with k bytes behind it.
Power[k \in 0 .. SIZEOF] == IF k = 0 THEN 1 ELSE BASE * Power[k - 1]

\* htonl and ntohl: the bytes of a number, the most significant first.
htonl(n) == [i \in 1 .. SIZEOF |-> (n \div Power[SIZEOF - i]) % BASE]
ntohl(bytes) ==
    LET value[i \in 0 .. SIZEOF] == IF i = 0 THEN 0 ELSE value[i - 1] * BASE + bytes[i]
    IN  value[SIZEOF]
UINT_MAX == Power[SIZEOF] - 1
\* The value of n as a uint32_t.
uint32_t(n) == n % (UINT_MAX + 1)

\* Mutation: the last printable character is left out.
is_printable_Short(b) == b >= MIN_PRINTABLE_CHAR /\ b < MAX_PRINTABLE_CHAR

is_printable(b) == b >= MIN_PRINTABLE_CHAR /\ b <= MAX_PRINTABLE_CHAR
Printables(bytes) == Cardinality({i \in DOMAIN bytes : is_printable(bytes[i])})
=============================================================================
