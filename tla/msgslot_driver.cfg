\* The failures the driver handles; the programs use one of the two files.
SPECIFICATION MSpec
SYMMETRY PlaceSym
CONSTANTS
    m1 = m1
    m2 = m2
    c1 = c1
    c2 = c2
    b1 = b1
    b2 = b2
    Minors = {m1, m2}
    Channels = {c1, c2}
    MAX_BUF_LEN = 2
    Files = {f1, f2}
    f1 = f1
    f2 = f2
    ProgramFiles = {f2}
    UserBytes = {b1, b2}
    UserMessages <- SmallMessages
    Faults = {"slot", "buffer", "copy_to_user", "register"}
    MaxAllocated = 6
    NULL = NULL
    GARBAGE = GARBAGE
    ZERO = ZERO
INVARIANTS
    TypeOK
    MessageWhole
    NoLeak
    PrintsMessage
PROPERTIES
    ImplementsBoard
    ReaderServed
