\* Three levels; one full path in each of two tables, or most of one table.
\* The process may exit for want of memory.
SPECIFICATION Spec
CONSTANTS
    TRIE_DEPTH = 3
    Index = {0, 1}
    NPAGES = 6
    PpnBits = {0, 1, 2, 3}
    FrameBits = {0, 1, 2}
    Vpns <- ThreeVpns
    Ppns <- TwoPpns
    MaxTables = 2
    NULL = NULL
CHECK_DEADLOCK FALSE
INVARIANTS
    TypeOK
    NoSharing
    InvalidIsZero
PROPERTY ImplementsMap
