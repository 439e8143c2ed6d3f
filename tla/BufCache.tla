------------------------------- MODULE BufCache -------------------------------
(***************************************************************************)
(* The block buffer cache of the kernel: COMMON/os/vfs_bio.c (getblk,      *)
(* bread, breada, bwrite, bdwrite, brelse, getnewbuf, brealloc, biodone,   *)
(* ...), PAGING/os/bio.c (allocbuf), the gather write of io/vio.c, and     *)
(* below it a disk driver or the NFS client (nfs_strategy, its daemons).   *)
(*                                                                         *)
(* The kernel is not preemptive: a process that runs in it keeps the       *)
(* processor until it sleeps or goes back to its caller (variable "cpu").  *)
(* Disk interrupts (IODone) come between any two actions: an action is a   *)
(* stretch of code in which the interrupt level is raised, or in which an  *)
(* interrupt makes no difference.                                          *)
(*                                                                         *)
(* One vnode is modelled, a block device or an NFS file, so b_vp is that   *)
(* vnode or NULL: blk[b] = NoBlk stands for b_vp = NULL.  The order inside *)
(* a free list and inside a hash chain is left open.                       *)
(***************************************************************************)
EXTENDS Integers, FiniteSets, Functions

CONSTANTS Procs,          \* the processes that use the cache
          Bufs,           \* the buffer headers (sbuf)
          Blocks,         \* the <<blkno, size>> that callers ask for
          Mem,            \* the units of memory in bufmap
          Ops,            \* the operations that callers make
          IOErrors,       \* may the device report an error?
          Nfs,            \* is the vnode an NFS file?
          Vio,            \* vio_okay(): may the device gather writes?
          GetmemSleeps    \* may getmem() sleep in vbwrite()?

AllOps == {"bread", "getblk", "geteblk", "breada", "bflush", "bdwait",
           "blkflush", "binvalfree", "nfsinval", "binval"}

Awake     == "awake"          \* wchan of a process that does not sleep
FreeList  == "bfreelist"      \* &bfreelist: wait for any buffer
AsyncDone == "basyncnt"       \* &basyncnt: wait for the asynchronous writes
NoBuf     == "nobuf"
Disk      == "disk"
NoProc    == "noproc"
NoBlk     == -1

ASSUME BufsAssumption  == /\ IsFiniteSet(Bufs)
                          /\ Bufs \cap {Awake, FreeList, AsyncDone, NoBuf, Disk} = {}
ASSUME ProcsAssumption == NoProc \notin Procs
ASSUME BlockAssumption == Blocks \subseteq Nat \X (Nat \ {0})
ASSUME ConfAssumption  == /\ Mem \in Nat
                          /\ Ops \subseteq AllOps
                          /\ {IOErrors, Nfs, Vio, GetmemSleeps} \subseteq BOOLEAN
                          /\ Nfs => ~Vio

Flags == {"BUSY", "DONE", "DELWRI", "ASYNC", "READ", "WANTED", "INVAL",
          "AGE", "ERROR", "NOCACHE"}
Queues == {"EMPTY", "AGE", "LRU"}
Units == UNION {w[1] .. (w[1] + w[2] - 1) : w \in Blocks}
Sizes == {w[2] : w \in Blocks}
Starts == {w[1] : w \in Blocks}
Chans == Bufs \cup {FreeList, AsyncDone}
NoWant == <<NoBlk, 0>>
Wants == (Starts \cup {NoBlk}) \X (Sizes \cup {0})

VARIABLES
    flags,       \* b_flags
    onq,         \* the free list a buffer is on, "none" if it is on none
    blk,         \* b_blkno, NoBlk when b_vp is NULL
    bcount,      \* b_bcount
    bufsize,     \* b_bufsize
    mem,         \* units free in bufmap
    freewanted,  \* B_WANTED in bfreelist[0]
    pend,        \* the buffers given to VOP_STRATEGY and not yet biodone
    ahead,       \* the overlapping requests queued before a pending one
    biodq,       \* async_bufhead: those that no NFS daemon has taken yet
    basyncnt, basynwait,
    pc,          \* where a process is
    call,        \* its local variables
    wchan,       \* what a process sleeps on
    cpu,         \* the process that runs in the kernel
    fresh,       \* history: where the latest contents of a unit are
    lost         \* history: units whose latest contents a device error lost

memVars  == <<bcount, bufsize, mem>>
bufVars  == <<flags, onq, blk, memVars, freewanted>>
ioVars   == <<pend, ahead, biodq, basyncnt, basynwait>>
histVars == <<fresh, lost>>
vars == <<bufVars, ioVars, pc, call, wchan, cpu, histVars>>

\* The local variables: the operation, the <<blkno, size>> it asks for, its
\* buffer, the buffer that bwrite writes and where it returns to, in breada the
\* other block and the first buffer, in vbwrite the blocks that go with ep
NoCall == [op |-> "none", want |-> NoWant, bp |-> NoBuf, ep |-> NoBuf, ret |-> "idle",
           next |-> NoWant, first |-> NoBuf, gset |-> {}]

-------------------------------------------------------------------------------
(* Buffers                                                                 *)

Extent(b) == IF blk[b] = NoBlk THEN {} ELSE blk[b] .. (blk[b] + bcount[b] - 1)
WantExtent(p) == call[p].want[1] .. (call[p].want[1] + call[p].want[2] - 1)
Has(b, f) == f \in flags[b]

\* The buffers that getblk and incore find for block n
Incore(n) == {b \in Bufs : blk[b] = n /\ ~Has(b, "INVAL")}

\* Mutant: the last unit is not looked at
OverlappingShort(p) == {b \in Bufs \ {call[p].bp} :
    /\ ~Has(b, "INVAL")
    /\ Extent(b) \cap (WantExtent(p) \ {call[p].want[1] + call[p].want[2] - 1}) # {}}

\* The other valid buffers of the vnode that overlap what p asks for
Overlapping(p) == {b \in Bufs \ {call[p].bp} : /\ ~Has(b, "INVAL")
                                               /\ Extent(b) \cap WantExtent(p) # {}}

OnQueue(q) == {b \in Bufs : onq[b] = q}

\* The sleepers on the channels of C become runnable
Awaken(C) == wchan' = [q \in Procs |-> IF wchan[q] \in C THEN Awake ELSE wchan[q]]

\* The contents of b are given up
Forget(b) == [u \in Units |-> fresh[u] \ {b}]

\* Mutant: the processes that wait for any buffer are forgotten
BrelseWakesBuf(b, F) == IF "WANTED" \in F THEN {b} ELSE {}

\* Whom brelse wakes: the waiters for b, and those for any buffer
BrelseWakes(b, F) == (IF "WANTED" \in F THEN {b} ELSE {})
                     \cup (IF freewanted THEN {FreeList} ELSE {})

\* Mutant: B_ASYNC is not reset
ReleasedAsync(F) == F \ {"WANTED", "BUSY", "AGE", "NOCACHE"}

\* The flags that a buffer keeps when it is released
Released(F) == F \ {"WANTED", "BUSY", "ASYNC", "AGE", "NOCACHE"}

\* brelse(b) of a buffer with flags F, b_bufsize n and the contents H
Brelse(b, F, n, H) ==
    LET G    == IF "NOCACHE" \in F THEN F \cup {"INVAL"} ELSE F
        dead == {"ERROR", "INVAL"} \cap G # {}
    IN  /\ freewanted' = FALSE
        /\ blk' = IF "ERROR" \in G THEN [blk EXCEPT ![b] = NoBlk] ELSE blk
        /\ onq' = [onq EXCEPT ![b] = IF n = 0 THEN "EMPTY"
                                     ELSE IF dead \/ "AGE" \in G THEN "AGE"
                                     ELSE "LRU"]
        /\ flags' = [flags EXCEPT ![b] = Released(G)]
        /\ fresh' = IF dead THEN [u \in Units |-> H[u] \ {b}] ELSE H
        /\ lost' = {u \in lost : H[u] = {}}
                   \cup {u \in Units : "ERROR" \in G /\ H[u] = {b}}

\* VOP_STRATEGY of the buffers of S.  The disk driver keeps overlapping requests
\* in order (disksort); nfs_strategy leaves asynchronous ones to a daemon, if one
\* is idle.
Strategy(S) ==
    /\ pend' = pend \cup S
    /\ ahead' = [b \in Bufs |->
                    IF b \in S /\ ~Nfs THEN {c \in pend : Extent(c) \cap Extent(b) # {}}
                    ELSE ahead[b]]
    /\ \/ biodq' = biodq
       \/ Nfs /\ biodq' = biodq \cup {b \in S : "ASYNC" \in flags'[b]}

\* Mutant: B_DONE is not reset
WritingDone(F) == (IF {"ASYNC", "DELWRI"} \subseteq F THEN F \cup {"AGE"} ELSE F)
                  \ {"READ", "ERROR", "DELWRI"}

\* The flags of a buffer that bwrite starts to write
Writing(F) == (IF {"ASYNC", "DELWRI"} \subseteq F THEN F \cup {"AGE"} ELSE F)
              \ {"READ", "DONE", "ERROR", "DELWRI"}

-------------------------------------------------------------------------------
(* Processes                                                               *)

\* p is at l, awake, and has or can have the processor
At(p, l) == pc[p] = l /\ wchan[p] = Awake /\ cpu \in {p, NoProc}

Goto(p, l) == pc' = [pc EXCEPT ![p] = l] /\ cpu' = p
Sleep(p, c) == wchan' = [wchan EXCEPT ![p] = c] /\ cpu' = NoProc
\* The caller has its buffer: it may do something else before it goes on
Hold(p) == pc' = [pc EXCEPT ![p] = "held"] /\ cpu' = NoProc
\* The operation is over
Return(p) == /\ pc' = [pc EXCEPT ![p] = "idle"]
             /\ call' = [call EXCEPT ![p] = NoCall]
             /\ cpu' = NoProc

SetBp(p, b) == call' = [call EXCEPT ![p].bp = b]

\* bwrite(b) is called, to go on at l
CallBwrite(p, b, l) == /\ call' = [call EXCEPT ![p] = [@ EXCEPT !.ep = b, !.ret = l]]
                       /\ Goto(p, "bwrite")

\* notavail(b): off its free list and busy, with flags F added
Notavail(b, F) == /\ onq' = [onq EXCEPT ![b] = "none"]
                  /\ flags' = [flags EXCEPT ![b] = @ \cup {"BUSY"} \cup F]

\* Mutant: B_WANTED is not set
WantUnmarked(p, b) == UNCHANGED flags /\ Sleep(p, b)

\* p sleeps until b is released
Want(p, b) == /\ flags' = [flags EXCEPT ![b] = @ \cup {"WANTED"}]
              /\ Sleep(p, b)

Init ==
    /\ flags = [b \in Bufs |-> {"INVAL"}]
    /\ onq = [b \in Bufs |-> "EMPTY"]
    /\ blk = [b \in Bufs |-> NoBlk]
    /\ bcount = [b \in Bufs |-> 0]
    /\ bufsize = [b \in Bufs |-> 0]
    /\ mem = Mem
    /\ freewanted = FALSE
    /\ pend = {}
    /\ ahead = [b \in Bufs |-> {}]
    /\ biodq = {}
    /\ basyncnt = 0
    /\ basynwait = FALSE
    /\ pc = [p \in Procs |-> "idle"]
    /\ call = [p \in Procs |-> NoCall]
    /\ wchan = [p \in Procs |-> Awake]
    /\ cpu = NoProc
    /\ fresh = [u \in Units |-> {Disk}]
    /\ lost = {}

-------------------------------------------------------------------------------
(* A process calls an operation of the cache                               *)

Call(p, o, w, n, l) == /\ At(p, "idle")
                       /\ o \in Ops
                       /\ call' = [call EXCEPT ![p] = [@ EXCEPT !.op = o, !.want = w, !.next = n]]
                       /\ Goto(p, l)
                       /\ UNCHANGED <<bufVars, ioVars, wchan, histVars>>

CallRead(p) == \E w \in Blocks :
                   \/ Call(p, "bread", w, NoWant, "getblk")
                   \/ Call(p, "getblk", w, NoWant, "getblk")
                   \/ Call(p, "geteblk", <<NoBlk, w[2]>>, NoWant, "newbuf")

\* breada: the block is looked for first, the read-ahead block only then
CallBreada(p) == \E w, r \in Blocks :
                     /\ r[1] >= w[1] + w[2]
                     /\ Call(p, "breada", w, r,
                             IF Incore(w[1]) = {} THEN "getblk" ELSE "rahead")

\* binvalfree has callers for NFS files only: nfs_lockctl, nfs_remove, ..., and
\* nfs_attrcache ("nfsinval"), which goes on with biodinvalfree.  Bound of the
\* model: basyncnt is not driven further down when it is negative (AsyncCount).
MinAsync == 0
CallFlush(p) == \/ Call(p, "bflush", NoWant, NoWant, "bflush")
                \/ Call(p, "bdwait", NoWant, NoWant, "bdwait")
                \/ \E o \in {"binvalfree", "nfsinval"} :
                       /\ Nfs
                       /\ o = "nfsinval" => basyncnt >= MinAsync
                       /\ Call(p, o, NoWant, NoWant, "binvalfree")
                \/ \E w \in Blocks : Call(p, "blkflush", w, NoWant, "blkflush")

\* binval "assumes that all the buffers have been written"; its callers close a
\* device that nobody uses any more
Binval(p) ==
    LET S == {b \in Bufs : blk[b] # NoBlk /\ flags[b] \cap {"INVAL", "DONE"} = {"DONE"}}
    IN  /\ At(p, "idle")
        /\ "binval" \in Ops
        /\ ~Nfs
        /\ \A b \in Bufs : flags[b] \cap {"BUSY", "DELWRI"} = {}
        /\ flags' = [b \in Bufs |-> IF b \in S THEN flags[b] \cup {"INVAL"} ELSE flags[b]]
        /\ blk' = [b \in Bufs |-> IF b \in S THEN NoBlk ELSE blk[b]]
        /\ fresh' = [u \in Units |-> fresh[u] \ S]
        /\ UNCHANGED <<onq, memVars, freewanted, ioVars, pc, call, wchan, cpu, lost>>

-------------------------------------------------------------------------------
(* getblk                                                                  *)

\* The search of the hash chain
GetblkFind(p) ==
    /\ At(p, "getblk")
    /\ \E b \in Incore(call[p].want[1]) : SetBp(p, b)
    /\ Goto(p, "hit")
    /\ UNCHANGED <<bufVars, ioVars, wchan, histVars>>

GetblkMiss(p) ==
    /\ At(p, "getblk")
    /\ Incore(call[p].want[1]) = {}
    /\ Goto(p, "newbuf")
    /\ UNCHANGED <<bufVars, ioVars, call, wchan, histVars>>

\* Mutant: the hash chain is not searched again after the sleep
GetblkBusyKeep(p) ==
    LET b == call[p].bp
    IN  /\ At(p, "hit")
        /\ Has(b, "BUSY")
        /\ Want(p, b)
        /\ UNCHANGED <<onq, blk, memVars, freewanted, ioVars, pc, call, histVars>>

\* B_BUSY is tested later, with interrupts off
GetblkBusy(p) ==
    LET b == call[p].bp
    IN  /\ At(p, "hit")
        /\ Has(b, "BUSY")
        /\ Want(p, b)
        /\ SetBp(p, NoBuf)
        /\ pc' = [pc EXCEPT ![p] = "getblk"]
        /\ UNCHANGED <<onq, blk, memVars, freewanted, ioVars, histVars>>

\* Mutant: B_BUSY is not tested
GetblkHitAny(p) ==
    LET b == call[p].bp
    IN  /\ At(p, "hit")
        /\ Notavail(b, {})
        /\ Goto(p, "brealloc")
        /\ UNCHANGED <<blk, memVars, freewanted, ioVars, call, wchan, histVars>>

GetblkHit(p) ==
    LET b == call[p].bp
    IN  /\ At(p, "hit")
        /\ ~Has(b, "BUSY")
        /\ Notavail(b, {})
        /\ Goto(p, "brealloc")
        /\ UNCHANGED <<blk, memVars, freewanted, ioVars, call, wchan, histVars>>

-------------------------------------------------------------------------------
(* getnewbuf, from getblk or geteblk ("newbuf") or from allocbuf ("steal") *)

AtGetnewbuf(p) == At(p, "newbuf") \/ At(p, "steal")

\* The first free list with a buffer on it, from where the scan starts
Scan(p) ==
    IF pc[p] = "newbuf" /\ OnQueue("EMPTY") # {} THEN OnQueue("EMPTY")
    ELSE IF OnQueue("AGE") # {} THEN OnQueue("AGE")
    ELSE OnQueue("LRU")

NoFreeBuf(p) ==
    /\ AtGetnewbuf(p)
    /\ Scan(p) = {}
    /\ freewanted' = TRUE
    /\ Sleep(p, FreeList)
    /\ UNCHANGED <<flags, onq, blk, memVars, ioVars, pc, call, histVars>>

\* Mutant: a delayed write is forgotten
ReusableAny(b) == TRUE

\* A free buffer that need not be written first
Reusable(b) == ~Has(b, "DELWRI")

\* The buffer becomes the one of the block wanted
NewBuf(p) ==
    /\ At(p, "newbuf")
    /\ \E b \in Scan(p) :
           /\ Reusable(b)
           /\ onq' = [onq EXCEPT ![b] = "none"]
           /\ flags' = [flags EXCEPT ![b] =
                  {"BUSY"} \cup (IF call[p].op = "geteblk" THEN {"INVAL"} ELSE {})]
           /\ blk' = [blk EXCEPT ![b] = call[p].want[1]]
           /\ bcount' = [bcount EXCEPT ![b] = 0]
           /\ fresh' = Forget(b)
           /\ SetBp(p, b)
    /\ Goto(p, "brealloc")
    /\ UNCHANGED <<bufsize, mem, freewanted, ioVars, wchan, lost>>

-------------------------------------------------------------------------------
(* brealloc and allocbuf: give bp the size wanted                          *)

Size(p) == call[p].want[2]

BreallocSame(p) ==
    /\ At(p, "brealloc")
    /\ bcount[call[p].bp] = Size(p)
    /\ Goto(p, "got")
    /\ UNCHANGED <<bufVars, ioVars, call, wchan, histVars>>

\* Mutant: on to allocbuf, as if nothing had been released
BreallocDirtyOn(p) ==
    /\ At(p, "brealloc")
    /\ bcount[call[p].bp] # Size(p)
    /\ Has(call[p].bp, "DELWRI")
    /\ CallBwrite(p, call[p].bp, "allocbuf")
    /\ UNCHANGED <<bufVars, ioVars, wchan, histVars>>

\* A delayed write of another size: write it, release it, and start again
BreallocDirty(p) ==
    LET b == call[p].bp
    IN  /\ At(p, "brealloc")
        /\ bcount[b] # Size(p)
        /\ Has(b, "DELWRI")
        /\ CallBwrite(p, b, "getblk")
        /\ UNCHANGED <<bufVars, ioVars, wchan, histVars>>

\* Mutant: the old space is not given back
FreedNone(p, b) == -Size(p)

Freed(p, b) == bufsize[b] - Size(p)

\* b gets the size wanted; what it has beyond that goes back to bufmap
Resize(p, b) ==
    /\ mem' = mem + Freed(p, b)
    /\ bufsize' = [bufsize EXCEPT ![b] = Size(p)]
    /\ bcount' = [bcount EXCEPT ![b] = Size(p)]
    /\ Goto(p, "got")
    /\ UNCHANGED <<flags, onq, blk, freewanted, ioVars, call, wchan, lost>>

BreallocShrink(p) ==
    LET b == call[p].bp
    IN  /\ At(p, "brealloc")
        /\ Size(p) < bcount[b]
        /\ ~Has(b, "DELWRI")
        /\ Resize(p, b)
        /\ fresh' = [u \in Units |-> fresh[u] \ (IF u \in WantExtent(p) THEN {} ELSE {b})]

\* Mutant: a part of the block is taken for the whole
OutgrownKept(F) == F

\* The flags of a buffer that is to grow: what it holds is not enough
Outgrown(F) == F \ {"DONE"}

BreallocGrow(p) ==
    LET b == call[p].bp
    IN  /\ At(p, "brealloc")
        /\ Size(p) > bcount[b]
        /\ ~Has(b, "DELWRI")
        /\ flags' = [flags EXCEPT ![b] = Outgrown(@)]
        /\ Goto(p, IF blk[b] = NoBlk THEN "allocbuf" ELSE "overlap")
        /\ UNCHANGED <<onq, blk, memVars, freewanted, ioVars, call, wchan, histVars>>

\* The buffers that overlap the extent wanted, here and in blkflush, are waited
\* for when they are busy, and written when they are delayed writes
OverlapBusy(p) ==
    /\ At(p, "overlap") \/ At(p, "blkflush")
    /\ \E b \in Overlapping(p) : Has(b, "BUSY") /\ Want(p, b)
    /\ UNCHANGED <<onq, blk, memVars, freewanted, ioVars, pc, call, histVars>>

OverlapDirty(p) ==
    /\ At(p, "overlap") \/ At(p, "blkflush")
    /\ \E b \in Overlapping(p) :
           /\ flags[b] \cap {"BUSY", "DELWRI"} = {"DELWRI"}
           /\ Notavail(b, {})
           /\ CallBwrite(p, b, pc[p])
    /\ UNCHANGED <<blk, memVars, freewanted, ioVars, wchan, histVars>>

\* brealloc makes the others invalid
OverlapClean(p) ==
    /\ At(p, "overlap")
    /\ \E b \in Overlapping(p) :
           /\ flags[b] \cap {"BUSY", "DELWRI"} = {}
           /\ Brelse(b, flags[b] \cup {"INVAL"}, bufsize[b], fresh)
           /\ Awaken(BrelseWakes(b, flags[b]))
    /\ Goto(p, "overlap")
    /\ UNCHANGED <<memVars, ioVars, call>>

OverlapNone(p) ==
    /\ At(p, "overlap")
    /\ Overlapping(p) = {}
    /\ Goto(p, "allocbuf")
    /\ UNCHANGED <<bufVars, ioVars, call, wchan, histVars>>

\* allocbuf: the memory is there already, or new memory replaces the old
Allocbuf(p) ==
    LET b == call[p].bp
    IN  /\ At(p, "allocbuf")
        /\ Size(p) <= bufsize[b] \/ Size(p) <= mem
        /\ Resize(p, b)
        /\ UNCHANGED fresh

AllocbufSteal(p) ==
    /\ At(p, "allocbuf")
    /\ Size(p) > bufsize[call[p].bp]
    /\ Size(p) > mem
    /\ Goto(p, "steal")
    /\ UNCHANGED <<bufVars, ioVars, call, wchan, histVars>>

\* The memory of another buffer is taken, which goes to the list of empty ones
Steal(p) ==
    /\ At(p, "steal")
    /\ \E b \in Scan(p) :
           /\ Reusable(b)
           /\ mem' = mem + bufsize[b]
           /\ bufsize' = [bufsize EXCEPT ![b] = 0]
           /\ bcount' = [bcount EXCEPT ![b] = 0]
           /\ flags' = [flags EXCEPT ![b] = {"INVAL"}]
           /\ onq' = [onq EXCEPT ![b] = "EMPTY"]
           /\ blk' = [blk EXCEPT ![b] = NoBlk]
           /\ fresh' = Forget(b)
    /\ Awaken(IF freewanted THEN {FreeList} ELSE {})
    /\ freewanted' = FALSE
    /\ Goto(p, "allocbuf")
    /\ UNCHANGED <<ioVars, call, lost>>

-------------------------------------------------------------------------------
(* bwrite and vbwrite                                                      *)

\* Mutant: synchronous writes are counted too
AsyncAny(b) == 1

\* 1 when b is written asynchronously
Async(b) == IF Has(b, "ASYNC") THEN 1 ELSE 0

\* bwrite returns to getnewbuf, brealloc, ..., or to the caller of the cache
AfterBwrite(p) == \/ call[p].ret = "idle" /\ Return(p)
                  \/ /\ call[p].ret # "idle"
                     /\ Goto(p, call[p].ret)
                     /\ call' = [call EXCEPT ![p] =
                            [@ EXCEPT !.ep = NoBuf, !.ret = "idle", !.gset = {},
                                      !.bp = IF call[p].ret = "getblk" THEN NoBuf ELSE call[p].bp]]

\* The write has been given to the driver
Written(p) == \/ Has(call[p].ep, "ASYNC") /\ AfterBwrite(p)
              \/ /\ ~Has(call[p].ep, "ASYNC")
                 /\ call' = [call EXCEPT ![p].gset = {}]
                 /\ Goto(p, "bwritewait")

BwriteStart(p) ==
    LET b == call[p].ep
    IN  /\ At(p, "bwrite")
        /\ flags' = [flags EXCEPT ![b] = Writing(@)]
        /\ Strategy({b})
        /\ basyncnt' = basyncnt + Async(b)
        /\ Written(p)
        /\ UNCHANGED <<onq, blk, memVars, freewanted, basynwait, wchan, histVars>>

\* vbwrite: the idle delayed writes that follow each other around b.  The
\* probing stops at maxwb, at MAXTRANSFER or at another block size.
Gatherable(b) ==
    LET idle == {c \in Bufs : flags[c] \cap {"DELWRI", "BUSY", "INVAL"} = {"DELWRI"}}
    IN  {S \in SUBSET idle :
            \E low \in S \cup {b} : \A c \in (S \cup {b}) \ {low} :
                \E d \in S \cup {b} : blk[d] + bcount[d] = blk[c]}

VbwriteGather(p) ==
    LET b == call[p].ep
    IN  /\ At(p, "bwrite")
        /\ Vio
        /\ blk[b] # NoBlk
        /\ \E S \in Gatherable(b) \ {{}} : call' = [call EXCEPT ![p].gset = S]
        /\ flags' = [flags EXCEPT ![b] = Writing(@)]
        /\ basyncnt' = basyncnt + Async(b)
        /\ pc' = [pc EXCEPT ![p] = "getmem"]
        /\ cpu' \in (IF GetmemSleeps THEN {p, NoProc} ELSE {p})
        /\ UNCHANGED <<onq, blk, memVars, freewanted, pend, ahead, biodq, basynwait, wchan, histVars>>

\* getmem has returned: the gathered buffers are taken and all are written
VbwriteStart(p) ==
    LET b == call[p].ep
        S == call[p].gset
    IN  /\ At(p, "getmem")
        /\ flags' = [c \in Bufs |->
               IF c \in S THEN Writing(flags[c] \cup {"BUSY", "ASYNC", "AGE"}) ELSE flags[c]]
        /\ onq' = [c \in Bufs |-> IF c \in S THEN "none" ELSE onq[c]]
        /\ basyncnt' = basyncnt + Cardinality(S)
        /\ Strategy(S \cup {b})
        /\ Written(p)
        /\ UNCHANGED <<blk, memVars, freewanted, basynwait, wchan, histVars>>

\* biowait: of bread and breada, or of a synchronous bwrite
BiowaitSleep(p) ==
    LET b == IF pc[p] = "biowait" THEN call[p].bp ELSE call[p].ep
    IN  /\ At(p, "biowait") \/ At(p, "bwritewait")
        /\ ~Has(b, "DONE")
        /\ Sleep(p, b)
        /\ UNCHANGED <<bufVars, ioVars, pc, call, histVars>>

\* The end of a synchronous bwrite
BwriteDone(p) ==
    LET b == call[p].ep
    IN  /\ At(p, "bwritewait")
        /\ Has(b, "DONE")
        /\ Brelse(b, flags[b], bufsize[b], fresh)
        /\ Awaken(BrelseWakes(b, flags[b]))
        /\ AfterBwrite(p)
        /\ UNCHANGED <<memVars, ioVars>>

-------------------------------------------------------------------------------
(* bread, breada: the buffer that getblk has found is read unless valid    *)

StartRead(b, F) == /\ flags' = [flags EXCEPT ![b] = @ \cup {"READ"} \cup F]
                   /\ Strategy({b})

GotBlk(p) ==
    /\ At(p, "got")
    /\ \/ call[p].op \in {"getblk", "geteblk"}
       \/ call[p].op = "bread" /\ Has(call[p].bp, "DONE")
    /\ Hold(p)
    /\ UNCHANGED <<bufVars, ioVars, call, wchan, histVars>>

BreadStart(p) ==
    /\ At(p, "got")
    /\ call[p].op = "bread"
    /\ ~Has(call[p].bp, "DONE")
    /\ StartRead(call[p].bp, {})
    /\ Goto(p, "biowait")
    /\ UNCHANGED <<onq, blk, memVars, freewanted, basyncnt, basynwait, call, wchan, histVars>>

BreadaStart(p) ==
    LET b == call[p].bp
    IN  /\ At(p, "got")
        /\ call[p].op = "breada"
        /\ \/ Has(b, "DONE") /\ UNCHANGED <<flags, pend, ahead, biodq>>
           \/ ~Has(b, "DONE") /\ StartRead(b, {})
        /\ call' = [call EXCEPT ![p] = [@ EXCEPT !.first = b, !.bp = NoBuf]]
        /\ pc' = [pc EXCEPT ![p] = "rahead"]
        /\ cpu' = IF Nfs THEN NoProc ELSE p
        /\ UNCHANGED <<onq, blk, memVars, freewanted, basyncnt, basynwait, wchan, histVars>>

\* nfs_strategy returns when do_bio has read the block
AtRahead(p) == At(p, "rahead") /\ (Nfs => call[p].first \notin pend)

\* The last part of breada, for block w: biowait, or bread when it was in core
FinishBreada(p, w) ==
    /\ call' = [call EXCEPT ![p] = [NoCall EXCEPT !.op = "bread", !.want = w,
                                                  !.bp = call[p].first]]
    /\ Goto(p, IF call[p].first = NoBuf THEN "getblk" ELSE "biowait")

BreadaIncore(p) ==
    /\ AtRahead(p)
    /\ Incore(call[p].next[1]) # {}
    /\ FinishBreada(p, call[p].want)
    /\ UNCHANGED <<bufVars, ioVars, wchan, histVars>>

BreadaGetblk(p) ==
    /\ AtRahead(p)
    /\ Incore(call[p].next[1]) = {}
    /\ call' = [call EXCEPT ![p] = [@ EXCEPT !.op = "rahead", !.want = call[p].next, !.next = call[p].want]]
    /\ Goto(p, "getblk")
    /\ UNCHANGED <<bufVars, ioVars, wchan, histVars>>

BreadaAhead(p) ==
    LET b == call[p].bp
    IN  /\ At(p, "got")
        /\ call[p].op = "rahead"
        /\ \/ /\ Has(b, "DONE")
              /\ Brelse(b, flags[b], bufsize[b], fresh)
              /\ Awaken(BrelseWakes(b, flags[b]))
              /\ UNCHANGED <<pend, ahead, biodq>>
           \/ /\ ~Has(b, "DONE")
              /\ StartRead(b, {"ASYNC"})
              /\ UNCHANGED <<onq, blk, freewanted, wchan, histVars>>
        /\ FinishBreada(p, call[p].next)
        /\ UNCHANGED <<memVars, basyncnt, basynwait>>

BiowaitDone(p) ==
    /\ At(p, "biowait")
    /\ Has(call[p].bp, "DONE")
    /\ Hold(p)
    /\ UNCHANGED <<bufVars, ioVars, call, wchan, histVars>>

-------------------------------------------------------------------------------
(* The caller has the buffer, and gives it back                            *)

\* Callers do not set B_NOCACHE in a delayed write
Release(p) ==
    LET b == call[p].bp
    IN  /\ At(p, "held")
        /\ \E F \in {{}, {"AGE"}, {"NOCACHE"}} :
               /\ "NOCACHE" \in F => ~Has(b, "DELWRI")
               /\ Brelse(b, flags[b] \cup F, bufsize[b], fresh)
        /\ Awaken(BrelseWakes(b, flags[b]))
        /\ Return(p)
        /\ UNCHANGED <<memVars, ioVars>>

\* What bread returned is modified, or the block from getblk is filled
Modified(p) == [u \in Units |-> IF u \in Extent(call[p].bp) THEN {call[p].bp} ELSE fresh[u]]
MayModify(p) == /\ At(p, "held")
                /\ call[p].op \in {"bread", "getblk"}
                /\ ~Has(call[p].bp, "ERROR")

Bdwrite(p) ==
    LET b == call[p].bp
    IN  /\ MayModify(p)
        /\ Brelse(b, flags[b] \cup {"DELWRI", "DONE"}, bufsize[b], Modified(p))
        /\ Awaken(BrelseWakes(b, flags[b]))
        /\ Return(p)
        /\ UNCHANGED <<memVars, ioVars>>

\* bwrite, or bawrite, which sets B_ASYNC
CallWrite(p) ==
    LET b == call[p].bp
    IN  /\ MayModify(p)
        /\ \E F \in {{}, {"ASYNC"}} : flags' = [flags EXCEPT ![b] = @ \cup F]
        /\ fresh' = Modified(p)
        /\ lost' = lost \ Extent(b)
        /\ CallBwrite(p, b, "idle")
        /\ UNCHANGED <<onq, blk, memVars, freewanted, ioVars, wchan>>

-------------------------------------------------------------------------------
(* bflush, bdwait, blkflush, binvalfree                                    *)

Idle(b) == onq[b] \in {"AGE", "LRU"}

\* Mutant: basynwait is not set
BdwaitSleepUnmarked(p) ==
    /\ At(p, "bdwait")
    /\ basyncnt # 0
    /\ Sleep(p, AsyncDone)
    /\ UNCHANGED <<bufVars, ioVars, pc, call, histVars>>

BdwaitSleep(p) ==
    /\ At(p, "bdwait")
    /\ basyncnt # 0
    /\ basynwait' = TRUE
    /\ Sleep(p, AsyncDone)
    /\ UNCHANGED <<bufVars, pend, ahead, biodq, basyncnt, pc, call, histVars>>

\* Mutant: a busy buffer is not passed over
DroppableBusy(b) == flags[b] \cap {"INVAL", "DONE"} = {"DONE"}

\* What binvalfree takes: an idle buffer of the vnode with valid contents
Droppable(b) == Idle(b) /\ flags[b] \cap {"INVAL", "DONE"} = {"DONE"}

\* The delayed writes that p has to start, not to wait for: the free buffers
\* that getnewbuf meets, and those that bflush looks for
Behind(p) == {b \in Bufs : /\ Has(b, "DELWRI")
                           /\ \/ AtGetnewbuf(p) /\ b \in Scan(p)
                              \/ At(p, "bflush") /\ Idle(b)}

WriteBehind(p) ==
    /\ \E b \in Behind(p) : Notavail(b, {"ASYNC"}) /\ CallBwrite(p, b, pc[p])
    /\ UNCHANGED <<blk, memVars, freewanted, ioVars, wchan, histVars>>

Finish(b) == /\ pend' = pend \ {b}
             /\ ahead' = [c \in Bufs |-> ahead[c] \ {b}]

\* biodone of an asynchronous request, which counts n in basyncnt: the buffer is
\* released, with flags F and the contents H
BiodoneAsync(b, n, F, H) ==
    LET lastone == basynwait /\ basyncnt = n
    IN  /\ Finish(b)
        /\ basyncnt' = basyncnt - n
        /\ basynwait' = (basynwait /\ ~lastone)
        /\ Awaken(BrelseWakes(b, flags[b]) \cup (IF lastone THEN {AsyncDone} ELSE {}))
        /\ Brelse(b, F, bufsize[b], H)

\* binvalfree of a delayed write: bwrite, and nfs_strategy, which calls biodone
\* at once because of B_INVAL; basyncnt goes up and down again
BinvalfreeWrite(p) ==
    /\ At(p, "binvalfree")
    /\ \E b \in Bufs :
           /\ Droppable(b) /\ Has(b, "DELWRI")
           /\ BiodoneAsync(b, 0, Writing(flags[b] \cup {"ASYNC", "INVAL"}) \cup {"DONE"}, fresh)
    /\ Goto(p, "binvalfree")
    /\ UNCHANGED <<memVars, biodq, call>>

BinvalfreeDrop(p) ==
    /\ At(p, "binvalfree")
    /\ \E b \in Bufs : /\ Droppable(b) /\ ~Has(b, "DELWRI")
                       /\ flags' = [flags EXCEPT ![b] = @ \cup {"INVAL"}]
                       /\ blk' = [blk EXCEPT ![b] = NoBlk]
                       /\ fresh' = Forget(b)
    /\ Goto(p, "binvalfree")
    /\ UNCHANGED <<onq, memVars, freewanted, ioVars, call, wchan, lost>>

NoneDroppable(p) == At(p, "binvalfree") /\ \A b \in Bufs : ~Droppable(b)

\* biodinvalfree: a request that waits for a daemon is dropped.  B_READ is reset
\* before biodone sees it
BiodDrop(p) ==
    /\ NoneDroppable(p)
    /\ call[p].op = "nfsinval"
    /\ \E b \in biodq :
           /\ BiodoneAsync(b, 1, (flags[b] \ {"READ", "ERROR", "DELWRI"})
                                   \cup {"ASYNC", "INVAL", "DONE"}, fresh)
           /\ biodq' = biodq \ {b}
    /\ Goto(p, "binvalfree")
    /\ UNCHANGED <<memVars, call>>

\* Nothing is left to flush, to wait for or to invalidate
FlushReturn(p) ==
    /\ \/ At(p, "bflush") /\ \A b \in Bufs : Idle(b) => ~Has(b, "DELWRI")
       \/ At(p, "bdwait") /\ basyncnt = 0
       \/ NoneDroppable(p) /\ (call[p].op = "nfsinval" => biodq = {})
       \/ At(p, "blkflush") /\ \A b \in Overlapping(p) : flags[b] \cap {"BUSY", "DELWRI"} = {}
    /\ Return(p)
    /\ UNCHANGED <<bufVars, ioVars, wchan, histVars>>

-------------------------------------------------------------------------------
(* The end of a request: the disk interrupt, or do_bio of NFS              *)

Transferred(b) ==
    [u \in Units |->
        IF u \notin Extent(b) THEN fresh[u]
        ELSE IF Has(b, "READ")
             THEN IF Disk \in fresh[u] THEN fresh[u] \cup {b} ELSE fresh[u] \ {b}
             ELSE IF b \in fresh[u] THEN fresh[u] \cup {Disk} ELSE fresh[u] \ {Disk}]

\* A read that fails leaves nothing in the buffer, a write nothing on the disk
Failed(b) == IF Has(b, "READ") THEN Forget(b) ELSE fresh

\* do_bio runs in a process, which needs the processor
Completes(b) == /\ b \in pend \ biodq
                /\ Nfs => cpu = NoProc
                /\ ahead[b] = {}
                /\ ~Has(b, "DONE")      \* or panic("dup biodone")

\* What the end of an asynchronous transfer takes from basyncnt
Counted(b) == IF Has(b, "READ") THEN 0 ELSE 1

\* async_daemon: a request is taken from the queue
BiodTake(b) ==
    /\ b \in biodq
    /\ cpu = NoProc
    /\ biodq' = biodq \ {b}
    /\ UNCHANGED <<bufVars, pend, ahead, basyncnt, basynwait, pc, call, wchan, cpu, histVars>>

\* Asynchronous: the buffer is released here
IODoneAsync(b) ==
    /\ Completes(b)
    /\ Has(b, "ASYNC")
    /\ \/ BiodoneAsync(b, Counted(b), flags[b] \cup {"DONE"}, Transferred(b))
       \/ IOErrors /\ BiodoneAsync(b, Counted(b), flags[b] \cup {"DONE", "ERROR"}, Failed(b))
    /\ UNCHANGED <<memVars, biodq, pc, call, cpu>>

\* Synchronous: the process in biowait is woken, and whoever wants the buffer
IODoneSync(b) ==
    /\ Completes(b)
    /\ ~Has(b, "ASYNC")
    /\ Finish(b)
    /\ \/ /\ flags' = [flags EXCEPT ![b] = (@ \cup {"DONE"}) \ {"WANTED"}]
          /\ fresh' = Transferred(b)
       \/ /\ IOErrors
          /\ flags' = [flags EXCEPT ![b] = (@ \cup {"DONE", "ERROR"}) \ {"WANTED"}]
          /\ fresh' = Failed(b)
    /\ Awaken({b})
    /\ UNCHANGED <<onq, blk, memVars, freewanted, biodq, basyncnt, basynwait, pc,
                   call, cpu, lost>>

-------------------------------------------------------------------------------

CallOp(p) == \/ CallRead(p) \/ CallBreada(p) \/ CallFlush(p) \/ Binval(p)

Step(p) ==
    \/ GetblkFind(p) \/ GetblkMiss(p) \/ GetblkBusy(p) \/ GetblkHit(p)
    \/ NoFreeBuf(p) \/ NewBuf(p) \/ WriteBehind(p)
    \/ BreallocSame(p) \/ BreallocDirty(p) \/ BreallocShrink(p) \/ BreallocGrow(p)
    \/ OverlapBusy(p) \/ OverlapDirty(p) \/ OverlapClean(p) \/ OverlapNone(p)
    \/ Allocbuf(p) \/ AllocbufSteal(p) \/ Steal(p)
    \/ BwriteStart(p) \/ VbwriteGather(p) \/ VbwriteStart(p) \/ BwriteDone(p)
    \/ BiowaitSleep(p) \/ BiowaitDone(p)
    \/ GotBlk(p) \/ BreadStart(p)
    \/ BreadaStart(p) \/ BreadaIncore(p) \/ BreadaGetblk(p) \/ BreadaAhead(p)
    \/ Release(p) \/ Bdwrite(p) \/ CallWrite(p)
    \/ BdwaitSleep(p) \/ BinvalfreeWrite(p) \/ BinvalfreeDrop(p) \/ BiodDrop(p)
    \/ FlushReturn(p)

IODone(b) == BiodTake(b) \/ IODoneAsync(b) \/ IODoneSync(b)

Next == \/ \E p \in Procs : CallOp(p) \/ Step(p)
        \/ \E b \in Bufs : IODone(b)

Spec == Init /\ [][Next]_vars

\* Disks answer.  A process that can have the processor again and again gets it:
\* swtch takes the best priority, and one that waited in the kernel has it
Fairness == /\ \A p \in Procs : SF_vars(Step(p))
            /\ \A b \in Bufs : WF_vars(IODone(b))

LiveSpec == Spec /\ Fairness

-------------------------------------------------------------------------------

Labels == {"idle", "getblk", "hit", "newbuf", "brealloc", "overlap", "allocbuf", "steal",
           "got", "bwrite", "getmem", "bwritewait", "rahead", "biowait", "held",
           "bflush", "bdwait", "blkflush", "binvalfree"}
Returns == {"idle", "getblk", "overlap", "newbuf", "steal", "bflush", "blkflush", "binvalfree"}
CallType == [op : AllOps \cup {"none", "rahead"}, want : Wants, next : Wants,
             bp : Bufs \cup {NoBuf}, ep : Bufs \cup {NoBuf}, first : Bufs \cup {NoBuf},
             ret : Returns, gset : SUBSET Bufs]

BufTypes  == /\ flags \in [Bufs -> SUBSET Flags]
             /\ onq \in [Bufs -> Queues \cup {"none"}]
             /\ blk \in [Bufs -> Starts \cup {NoBlk}]
             /\ freewanted \in BOOLEAN
MemTypes  == bcount \in [Bufs -> Nat] /\ bufsize \in [Bufs -> Nat] /\ mem \in Int
IOTypes   == /\ pend \in SUBSET Bufs
             /\ ahead \in [Bufs -> SUBSET Bufs]
             /\ biodq \in SUBSET Bufs
             /\ basyncnt \in Int
             /\ basynwait \in BOOLEAN
ProcTypes == /\ pc \in [Procs -> Labels]
             /\ call \in [Procs -> CallType]
             /\ cpu \in Procs \cup {NoProc}
WaitTypes == wchan \in [Procs -> Chans \cup {Awake}]
HistType  == [Units -> SUBSET (Bufs \cup {Disk})]
HistTypes == fresh \in HistType /\ lost \in SUBSET Units

\* The types of the variables
TypeOK == BufTypes /\ MemTypes /\ IOTypes /\ ProcTypes /\ WaitTypes /\ HistTypes

InBwrite(p) == pc[p] \in {"bwrite", "getmem", "bwritewait"}
InBiowait(p) == pc[p] \in {"biowait", "bwritewait"}

\* Nobody sleeps on something that has happened already (brelse).  A sleeper on
\* a buffer in getblk, brealloc or blkflush has left B_WANTED in a busy buffer;
\* one in getnewbuf has left B_WANTED in the head of the free lists, and there
\* is nothing on them.
NoLostWakeup ==
    \A p \in Procs :
        /\ wchan[p] \in Bufs /\ ~InBiowait(p) => {"BUSY", "WANTED"} \subseteq flags[wchan[p]]
        /\ wchan[p] = FreeList => freewanted /\ \A b \in Bufs : onq[b] \notin {"AGE", "LRU"}

\* The same of bdwait and biodone: a sleeper in bdwait has left basynwait, and
\* asynchronous writes are under way
BdwaitWoken == \A p \in Procs : wchan[p] = AsyncDone => basynwait /\ basyncnt > 0

\* A sleeper in biowait waits for a synchronous transfer that is under way: its
\* end will wake the sleeper, and nobody has set B_DONE before that
BiowaitPending ==
    \A p \in Procs :
        wchan[p] \in Bufs /\ InBiowait(p) =>
            wchan[p] \in pend /\ flags[wchan[p]] \cap {"DONE", "ASYNC"} = {}

\* A buffer is on a free list exactly when it is not busy, and a busy one is
\* held by one process (or more exactly one place of one) or by the device
Holds(p) == {b \in Bufs : \/ b = call[p].bp /\ pc[p] # "hit"
                          \/ b = call[p].first
                          \/ b = call[p].ep /\ InBwrite(p)}
Exclusive ==
    /\ \A b \in Bufs : Has(b, "BUSY") <=> onq[b] = "none"
    /\ \A p \in Procs : \A b \in Holds(p) : Has(b, "BUSY")
    /\ \A p, q \in Procs : p # q => Holds(p) \cap Holds(q) = {}
    /\ \A b \in Bufs : Has(b, "BUSY") => b \in pend \/ \E p \in Procs : b \in Holds(p)

\* The comment of brealloc: "A disk block must be mapped by at most one buffer
\* at any point in time": of the valid buffers, no two overlap
UniqueMapping ==
    \A b, c \in Bufs :
        b # c /\ ~Has(b, "INVAL") /\ ~Has(c, "INVAL") => Extent(b) \cap Extent(c) = {}

\* The latest contents of a unit are never dropped: they are on the disk, or in
\* a buffer that is being written, that somebody holds, or that is marked as a
\* delayed write -- unless the device failed to write them
DataSafe ==
    \A u \in Units \ lost :
        Disk \in fresh[u] \/ \E b \in Bufs \cap fresh[u] : flags[b] \cap {"BUSY", "DELWRI"} # {}

\* What bread returns is what was last written
ReadsLatest ==
    \A p \in Procs :
        pc[p] = "held" /\ Has(call[p].bp, "DONE") /\ ~Has(call[p].bp, "ERROR") =>
            \A u \in Extent(call[p].bp) \ lost : call[p].bp \in fresh[u]

\* basyncnt counts the asynchronous writes under way
AsyncCount ==
    basyncnt = Cardinality({b \in pend : Has(b, "ASYNC") /\ ~Has(b, "READ")})
               + Cardinality({p \in Procs : pc[p] = "getmem" /\ Has(call[p].ep, "ASYNC")})

\* The units of memory are in bufmap or in a buffer, none twice, and a buffer
\* does not hold more than it has memory for
MemoryConserved ==
    /\ mem >= 0
    /\ mem + FoldFunction(+, 0, bufsize) = Mem
    /\ \A b \in Bufs : bcount[b] <= bufsize[b]

\* biodone is called once for each request: it panics with "dup biodone" when
\* the buffer is done already
NoDupBiodone == \A b \in pend : ~Has(b, "DONE")

\* The comment of getblk: "Assign a buffer for the given block.  If the
\* appropriate block is already associated, return it": what it returns is
\* associated with the block
GetblkReturns ==
    \A p \in Procs : pc[p] = "got" /\ call[p].op # "geteblk" => blk[call[p].bp] = call[p].want[1]

\* Whoever sleeps on a buffer, or for any buffer, is woken.  (Not so in bdwait,
\* which waits for a moment without a write under way: processes that write
\* all the time can put that off for ever.)
SleepersWake ==
    \A p \in Procs : wchan[p] \in Bufs \cup {FreeList} ~> wchan[p] \notin Bufs \cup {FreeList}
===============================================================================
