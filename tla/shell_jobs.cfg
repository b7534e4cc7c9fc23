\* Three children: a pipe beside a background command, or three commands.  One
\* SIGINT, one stopped child.
SPECIFICATION FairSpec
CONSTANTS
    MaxPid = 3
    MaxSigint = 1
    MaxStops = 1
CHECK_DEADLOCK FALSE
INVARIANTS
    TypeOK
    ZombieSignalled
    WaitKept
PROPERTIES
    SigintSpares
    PipeDrains
