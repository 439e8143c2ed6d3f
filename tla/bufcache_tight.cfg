SPECIFICATION LiveSpec
CONSTANTS
    Procs = {p1, p2}
    Bufs = {b1, b2}
    Blocks <- MCBlocks
    Mem = 3
    Ops = {"bread"}
    IOErrors = FALSE
    Nfs = FALSE
    Vio = FALSE
    GetmemSleeps = FALSE
INVARIANTS
    MemoryConserved
PROPERTIES
    SleepersWake
