SPECIFICATION Spec
CONSTANTS
    Procs = {p1, p2}
    Bufs = {b1, b2}
    Blocks <- MCTwo
    Mem = 6
    Ops = {"getblk", "breada", "bflush", "binvalfree", "nfsinval"}
    IOErrors = FALSE
    Nfs = TRUE
    Vio = FALSE
    GetmemSleeps = FALSE
INVARIANTS
    NoDupBiodone
    GetblkReturns
SYMMETRY MCSymmetry
