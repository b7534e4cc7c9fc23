\* Three threads, which may fail in opendir and stat; a hand-over may crash.
SPECIFICATION Spec
CONSTANTS
    g_threads_num = 3
    root = root
    a = a
    b = b
    c = c
    x = x
    f1 = f1
    f2 = f2
    f3 = f3
    Dirs <- SmallDirs
    Files <- SmallFiles
    Root = root
    Parent <- SmallParent
    Matches <- SmallMatches
    Denied <- SmallDenied
    Faults = {"opendir", "stat", "arrays", "new_dir"}
    NULL = NULL
    GARBAGE = GARBAGE
    MAIN = MAIN
    FREE = FREE
INVARIANTS
    TypeOK
    SearchedOnce
    CountExact
    CompleteSearch
    NoEarlyStop
    TakeHasWork
    NoIdleWhileQueued
    NoLockCycle
    CvInitialised
PROPERTIES
    FifoHandover
    ImplementsSearch
