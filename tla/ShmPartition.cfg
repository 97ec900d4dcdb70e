SPECIFICATION Spec
CONSTANTS
    Node = {b1, b2, b3}
    Head = b1
    NULL = NULL
    Reserved = 1
    Total = 4
    MaxRequest = 3
    Sessions = {s1, s2, s3}
    Threads = {t1, t2}
    Exclusive = TRUE
    Interrupts = TRUE
SYMMETRY Symmetry
INVARIANTS
    TypeOK
    Partition
    OwnedIsAllocated
PROPERTIES
    WalkAdvances
    FailsOnlyWhenFull
