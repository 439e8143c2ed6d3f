SPECIFICATION StrSpec
CONSTANTS
    Procs = {p1, p2}
    HiWat = 1
    MaxMsgs = 5
    Requests = {}
INVARIANTS
    WritersWoken
SYMMETRY MCSymmetry
