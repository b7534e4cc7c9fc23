\* One thread, which wakes itself at the barrier, and every fault it can meet.
\* Some faults leave the program hanging.
SPECIFICATION FairSpec
CONSTANTS
    g_threads_num = 1
    root = root
    a = a
    b = b
    c = c
    x = x
    f1 = f1
    f2 = f2
    f3 = f3
    Dirs <- SmallDirs
    Files <- SmallFiles
    Root = root
    Parent <- SmallParent
    Matches <- SmallMatches
    Denied <- SmallDenied
    Faults = {"opendir", "stat", "create", "arrays", "dir_entry",
              "thread_entry", "spurious"}
    NULL = NULL
    GARBAGE = GARBAGE
    MAIN = MAIN
    FREE = FREE
CHECK_DEADLOCK FALSE
INVARIANTS
    CompleteSearch
    NoEarlyStop
PROPERTY
    EndsOrHung
