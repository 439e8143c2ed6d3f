SPECIFICATION Spec
CONSTANTS
    Procs = {p1, p2}
    Bufs = {b1, b2}
    Blocks <- MCTwo
    Mem = 6
    Ops = {"bread", "binvalfree"}
    IOErrors = FALSE
    Nfs = TRUE
    Vio = FALSE
    GetmemSleeps = FALSE
SYMMETRY MCSymmetry
INVARIANTS
    DataSafe
