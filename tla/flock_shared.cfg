SPECIFICATION Spec
CONSTANTS
    Procs = {p1, p2, p3}
    Files = {f}
    End = 3
    Fils = 1
    Recs <- MCRecs4
    Readers <- MCAllReaders
INVARIANTS
    NoConflict
CHECK_DEADLOCK FALSE
