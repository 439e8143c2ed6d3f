SPECIFICATION Spec
CONSTANTS
    Procs = {p1, p2, p3}
    Files = {f, g, h}
    End = 1
    Fils = 2
    Recs <- MCRecs4
    Readers <- MCAllReaders
INVARIANTS
    FidsCounted
    RecordsOnce
    NoWaitCycle
PROPERTIES
    Implements
SYMMETRY MCSymmetry
CHECK_DEADLOCK FALSE
