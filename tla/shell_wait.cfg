\* Two commands or a pipe, no SIGINT.
SPECIFICATION FairSpec
CONSTANTS
    MaxPid = 2
    MaxSigint = 0
    MaxStops = 0
CHECK_DEADLOCK FALSE
PROPERTY ForegroundReturns
