----------------------------- MODULE PccSystem -----------------------------
(***************************************************************************)
(* The server, its clients and the network between them.                   *)
(***************************************************************************)
EXTENDS PccServer, PccClient

CONSTANT MaxFaults  \* bound: clients killed, connections reset, accepts that fail

VARIABLE faults     \* their number so far

vars == <<conn_vars, server_vars, client_vars, faults>>

Init == ConnInit /\ ServerInit /\ ClientInit /\ faults = 0

Next ==
    \/ (Server \/ Sigint) /\ UNCHANGED <<client_vars, faults>>
    \/ \E c \in Clients :
          /\ (Listening /\ Connect(c)) \/ Client(c) \/ ClientError(c)
          /\ UNCHANGED <<server_vars, faults>>
    \/ /\ faults < MaxFaults
       /\ faults' = faults + 1
       /\ \/ AcceptError /\ UNCHANGED client_vars
          \/ \E c \in Clients : /\ Kill(c) \/ (Reset(c) /\ UNCHANGED client_vars)
                                /\ UNCHANGED server_vars

Spec == Init /\ [][Next]_vars

\* The server and every client run when they are not blocked; a client on a
\* connection that was reset sees the error.  Nothing is assumed of signals,
\* users, the network and accept.
FairSpec ==
    /\ Spec
    /\ WF_vars(Server /\ UNCHANGED <<client_vars, faults>>)
    /\ \A c \in Clients :
          WF_vars((Client(c) \/ (c \in broken /\ ClientError(c)))
                  /\ UNCHANGED <<server_vars, faults>>)

-----------------------------------------------------------------------------
\* The types of both programs and of the connections between them.
TypeOK ==
    /\ ServerTypeOK /\ ClientTypeOK
    /\ backlog \in Seq(Clients)
    /\ up \in [Clients -> Seq(0 .. BASE - 1)] /\ down \in [Clients -> Seq(0 .. BASE - 1)]
    /\ c_open \subseteq Clients /\ s_open \subseteq Clients /\ broken \subseteq Clients

\* Where character k of the statistics occurs in the files of clients C.
Occurrences(C, k) ==
    UNION {{<<c, i>> : i \in {j \in DOMAIN file[c].data :
                                file[c].data[j] = k + MIN_PRINTABLE_CHAR}} : c \in C}

\* pcc_total counts, whenever it may be printed, exactly the files of the clients
\* that were sent their answer: a client that fails in the middle leaves nothing
\* behind (the comment at lines 243-245), whatever was read of it and whoever came
\* before it, and no answered client is missing when SIGINT ends the server.
TotalsExact ==
    spc # "update" /\ status # "killed" =>
        \A k \in Chars : pcc_total[k] = uint32_t(Cardinality(Occurrences(answered, k)))

\* A client that prints a number prints the number of printable bytes in its
\* file, however the streams were cut into reads and writes.
AnswerExact ==
    \A c \in Clients :
        cpc[c] = "done" =>
            ntohl(pcc_from_server[c]) =
              Cardinality({i \in DOMAIN file[c].data :
                             file[c].data[i] \in MIN_PRINTABLE_CHAR .. MAX_PRINTABLE_CHAR})

\* "If SIGINT is delivered when no client is being processed, no new client
\* connection may be accept()ed" (pcc.pdf 2.2), nor is one after the client that
\* was being processed.  It holds as long as no client has failed: line 252 leaves
\* g_server_is_processing set.
NoAcceptAfterSigint ==
    [][spc = "accept" /\ spc' = "accepted" => sigints = 0 \/ failed # {}]_vars

\* SIGINT ends the server, under the same condition.
SigintEnds == sigints > 0 ~> (spc = "ended" \/ failed # {})

\* Every client that connects is served, whatever the clients before and after it
\* do, unless its own connection breaks, it is stopped by its user, or the server
\* is by a signal or by an accept that fails (line 235: every client still waiting
\* is dropped with it).
Served ==
    \A c \in Clients :
        cpc[c] = "size" ~> \/ cpc[c] \in {"done", "failed", "killed"}
                           \/ c \in broken \/ sigints > 0 \/ status \in {"killed", "failure"}
=============================================================================
