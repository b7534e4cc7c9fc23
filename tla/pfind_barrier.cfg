\* Two threads, whose first malloc may fail.
SPECIFICATION FairSpec
CONSTANTS
    g_threads_num = 2
    root = root
    a = a
    b = b
    c = c
    x = x
    f1 = f1
    f2 = f2
    f3 = f3
    Dirs <- SmallDirs
    Files <- SmallFiles
    Root = root
    Parent <- SmallParent
    Matches <- SmallMatches
    Denied <- SmallDenied
    Faults = {"thread_entry"}
    NULL = NULL
    GARBAGE = GARBAGE
    MAIN = MAIN
    FREE = FREE
CHECK_DEADLOCK FALSE
PROPERTY Termination
