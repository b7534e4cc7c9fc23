\* Two clients, two SIGINTs, one client that is killed or loses its connection.
SPECIFICATION FairSpec
CONSTANTS
    Clients = {c1, c2}
    LISTEN_QUEUE_SIZE = 2
    BASE = 4
    SIZEOF = 2
    BUFFER_SZIE = 2
    MIN_PRINTABLE_CHAR = 1
    MAX_PRINTABLE_CHAR = 2
    Files <- SmallFiles
    MaxSigint = 2
    MaxFaults = 1
    NULL = NULL
CHECK_DEADLOCK FALSE
INVARIANTS
    TypeOK
    TotalsExact
    AnswerExact
PROPERTIES
    NoAcceptAfterSigint
    SigintEnds
    Served
