SPECIFICATION InoSpec
CONSTANTS
    Procs = {p1, p2}
    Table = {i1, i2}
    Inos = {1, 2}
    Bad = {2}
    Names = {a, b}
    NcSize = 1
INVARIANTS
    InCoreOnce
SYMMETRY MCSymmetry
