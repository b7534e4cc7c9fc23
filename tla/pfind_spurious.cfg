\* Three threads; pthread_cond_wait may return without a signal.
SPECIFICATION Spec
CONSTANTS
    g_threads_num = 3
    root = root
    a = a
    b = b
    c = c
    x = x
    f1 = f1
    f2 = f2
    f3 = f3
    Dirs <- SmallDirs
    Files <- SmallFiles
    Root = root
    Parent <- SmallParent
    Matches <- SmallMatches
    Denied <- SmallDenied
    Faults = {"spurious"}
    NULL = NULL
    GARBAGE = GARBAGE
    MAIN = MAIN
    FREE = FREE
INVARIANT NoEarlyStop
