SPECIFICATION Spec
CONSTANTS
    Procs = {p1, p2}
    Bufs = {b1, b2}
    Blocks <- MCBlocks
    Mem = 6
    Ops = {"bread", "breada", "geteblk", "bdwait", "blkflush", "binval"}
    IOErrors = TRUE
    Nfs = FALSE
    Vio = TRUE
    GetmemSleeps = FALSE
SYMMETRY MCSymmetry
INVARIANTS
    TypeOK
    NoLostWakeup
    BdwaitWoken
    BiowaitPending
    Exclusive
    UniqueMapping
    DataSafe
    ReadsLatest
    AsyncCount
CHECK_DEADLOCK FALSE
