SPECIFICATION Spec
CONSTANTS
    Procs = {p1, p2}
    Bufs = {b1, b2, b3}
    Blocks <- MCApart
    Mem = 5
    Ops = {"getblk"}
    IOErrors = FALSE
    Nfs = FALSE
    Vio = FALSE
    GetmemSleeps = FALSE
SYMMETRY MCSymmetry
INVARIANTS
    UniqueMapping
CHECK_DEADLOCK FALSE
