SPECIFICATION LiveSpec
CONSTANTS
    Procs = {p1, p2}
    Files = {f}
    End = 4
    Fils = 1
    Recs <- MCRecs3
    Readers <- MCOneReader
INVARIANTS
    ListsInOrder
    AdjustExact
    SleeperBlocked
PROPERTIES
    WaitEnds
CHECK_DEADLOCK FALSE
