SPECIFICATION KernelSpec
CONSTANTS
    Procs = {p1, p2, p3}
    Slots = {1}
    MaxSeq = 1
    Hdrs = 2
    Segs = 3
    MapSize = 2
    MsgMnb = 1
    Limits = {4}
    Calls <- MCCalls
    Sets = {1}
    Nums = {1, 2}
    SemMaxSeq = 1
    SemVmx = 1
    SemAem = 1
    SemUme = 1
    SemMnu = 2
    OpLists <- MCOpLists
    Values = {0, 1}
    Vectors <- MCVectors
    Table = {i1, i2}
    Inos = {1, 2}
    Bad = {2}
    Names = {a, b}
    NcSize = 1
INVARIANTS
    NoLostWakeup
    PoolConserved
    SemTypeOK
    SemopWaits
    RefsExact
    LockOwned
    NamesFresh
    FilesLive
PROPERTIES
    ReceivesAtomically
    SemopAllOrNothing
SYMMETRY MCSymmetry
