--------------------------- MODULE BufCacheData ----------------------------
(***************************************************************************)
(* Proofs about the buffer cache, for any number of processes, buffers and *)
(* blocks: which block a buffer holds, and where the latest contents of    *)
(* the device are.                                                         *)
(*                                                                         *)
(* getblk returns the block that was asked for, and no block of a device   *)
(* is in two buffers as long as allocbuf finds the memory that it wants.   *)
(* (Of an NFS file nfs_strategy may sleep in do_bio within allocbuf, which *)
(* Strategy leaves out: UniqueMappingHolds says nothing of it.)  No        *)
(* contents are dropped, unless the device fails to write them, and bread  *)
(* returns the latest. This too is proved of a device, as binvalfree drops *)
(* delayed writes of an NFS file, and under the hypotheses of OwnersKept   *)
(* and UniqueMappingHolds: a block that is in two buffers has two          *)
(* contents.                                                               *)
(***************************************************************************)
EXTENDS BufCacheProofs

-----------------------------------------------------------------------------
(* The invariant of getblk                                                 *)

\* b is the buffer of block n; a device error may come between the search of the hash chain and
\* the test of B_BUSY, and take the block from it
Mapped(b, n) == blk[b] = n \/ (IOErrors /\ ~Nfs /\ blk[b] = NoBlk)

\* From the search on, the buffer that p has is the one of the block that p wants
BlkKept(p) ==
    \/ pc[p] \in {"hit", "brealloc", "overlap", "allocbuf", "steal", "got"}
    \/ InBwrite(p) /\ call[p].ret \in {"overlap", "steal"}
    => Mapped(call[p].bp, call[p].want[1])
Finding(p) == pc[p] = "hit" => cpu = p
ErrorFree(b) == ~IOErrors => ~Has(b, "ERROR")

MapInv == /\ \A p \in Procs : BlkKept(p) /\ Finding(p)
          /\ \A b \in Bufs : ErrorFree(b)

\* A buffer that is released keeps its flags, and the others their blocks
LEMMA BrelseMap ==
    ASSUME BufTypes, NEW b \in Bufs, NEW F, NEW n, NEW H, Brelse(b, F, n, H)
    PROVE  /\ \A c \in Bufs \ {b} : flags'[c] = flags[c] /\ blk'[c] = blk[c]
           /\ "ERROR" \in flags'[b] => "ERROR" \in F
           /\ blk'[b] = blk[b] \/ ("ERROR" \in F /\ blk'[b] = NoBlk)
BY DEF Brelse, Released, BufTypes

\* bwrite has kept the buffer that its caller has in getblk
LEMMA AfterBwriteMap ==
    ASSUME TypeOK, Located, NEW p \in Procs, ProcKept(p), BlkKept(p), InBwrite(p), AfterBwrite(p),
           \A b \in Bufs \ {call[p].ep} : blk'[b] = blk[b]
    PROVE  BlkKept(p)' /\ Finding(p)'
<1>t. /\ pc \in [Procs -> Labels] /\ call \in [Procs -> CallType] /\ call[p].ret \in Returns
      /\ call[p] \in CallType /\ NoBuf \notin Bufs
    BY BufsAssumption DEF TypeOK, ProcTypes, CallType
<1>1. CASE call[p].ret = "idle" /\ Return(p)
    BY <1>t, <1>1 DEF Return, BlkKept, Finding, InBwrite
<1>2. CASE /\ call[p].ret # "idle"
           /\ Goto(p, call[p].ret)
           /\ call' = [call EXCEPT ![p] =
                  [@ EXCEPT !.ep = NoBuf, !.ret = "idle", !.gset = {},
                            !.bp = IF call[p].ret = "getblk" THEN NoBuf ELSE call[p].bp]]
    <2>1. /\ pc'[p] = call[p].ret /\ call'[p].want = call[p].want
          /\ call[p].ret # "getblk" => call'[p].bp = call[p].bp
        BY <1>2, <1>t DEF Goto, CallType
    <2>2. CASE call[p].ret \in {"overlap", "steal"}
        <3>1. call[p].bp \in Bufs \ {call[p].ep}
            BY <2>2 DEF Located, ProcKept, Places
        <3> QED
            BY <2>1, <2>2, <3>1 DEF BlkKept, Finding, Mapped
    <2>3. CASE call[p].ret \notin {"overlap", "steal"}
        BY <1>t, <2>1, <2>3 DEF Returns, BlkKept, Finding, InBwrite
    <2> QED
        BY <2>2, <2>3
<1> QED
    BY <1>1, <1>2 DEF AfterBwrite

\* The same when bwrite has given the request to the driver
LEMMA WrittenMap ==
    ASSUME TypeOK, Located, NEW p \in Procs, ProcKept(p), BlkKept(p), InBwrite(p), Written(p),
           blk' = blk
    PROVE  BlkKept(p)' /\ Finding(p)'
<1>1. CASE AfterBwrite(p)
    BY <1>1, AfterBwriteMap
<1>2. CASE call' = [call EXCEPT ![p].gset = {}] /\ Goto(p, "bwritewait")
    BY <1>2 DEF TypeOK, ProcTypes, CallType, Goto, BlkKept, Finding, Mapped, InBwrite
<1> QED
    BY <1>1, <1>2 DEF Written

\* A step of p that takes blocks only from its own buffers, from nobody's or from the device's
LEMMA MapFrame ==
    ASSUME TypeOK, Located, OwnInv, MapInv, NEW p \in Procs, cpu \in {p, NoProc}, OthersStay(p),
           \A b \in Bufs : blk'[b] = blk[b] \/ b \in Holds(p) \/ ~Has(b, "BUSY") \/ OnDevice(b),
           \A b \in Bufs : ErrorFree(b)', BlkKept(p)', Finding(p)'
    PROVE  MapInv'
<1>1. ASSUME NEW q \in Procs \ {p} PROVE BlkKept(q)' /\ Finding(q)'
    <2>1. pc[q] # "hit" /\ pc'[q] = pc[q] /\ call'[q] = call[q]
        BY ProcsAssumption DEF MapInv, Finding, OthersStay
    <2>2. SUFFICES ASSUME \/ pc[q] \in {"brealloc", "overlap", "allocbuf", "steal", "got"}
                          \/ InBwrite(q) /\ call[q].ret \in {"overlap", "steal"}
                   PROVE  BlkKept(q)'
        BY <2>1 DEF BlkKept, Finding, InBwrite
    <2>3. call[q].bp \in Holds(q)
        BY <2>1, <2>2 DEF Located, Holds, InBwrite
    <2>4. /\ call[q].bp \in Bufs /\ Has(call[q].bp, "BUSY") /\ ~OnDevice(call[q].bp)
          /\ call[q].bp \notin Holds(p)
        BY <2>3, HeldBusy DEF OwnInv
    <2>5. blk'[call[q].bp] = blk[call[q].bp]
        BY <2>4
    <2> QED
        BY <2>1, <2>2, <2>5 DEF MapInv, BlkKept, Mapped
<1> QED
    BY <1>1 DEF MapInv

\* A step of a process keeps it
LEMMA MapStep ==
    ASSUME TypeOK, Located, OwnInv, MapInv, NEW p \in Procs, Step(p) PROVE MapInv'
<1>t. /\ BufTypes /\ WaitTypes /\ pc \in [Procs -> Labels] /\ call \in [Procs -> CallType]
      /\ call[p] \in CallType /\ call[p].ret \in Returns /\ NoBuf \notin Bufs
      /\ BlkKept(p) /\ \A b \in Bufs : ErrorFree(b)
    BY BufsAssumption DEF TypeOK, ProcTypes, CallType, MapInv
<1>o. ProcKept(p) /\ \A b \in Bufs : BufferKept(b)
    BY DEF OwnInv
<1> USE <1>t
<1>GetblkFind. CASE GetblkFind(p)
    <2> USE <1>GetblkFind DEF GetblkFind, At, Goto, SetBp
    <2>1. OthersStay(p) /\ cpu \in {p, NoProc}
        BY DEF OthersStay
    <2>2. \A c \in Bufs : blk'[c] = blk[c] \/ c \in Holds(p) \/ ~Has(c, "BUSY") \/ OnDevice(c)
        BY DEF bufVars
    <2>3. \A c \in Bufs : ErrorFree(c)'
        BY DEF ErrorFree, Has, bufVars
    <2>4. BlkKept(p)' /\ Finding(p)'
        BY DEF BlkKept, Finding, Mapped, InBwrite, bufVars, Incore, CallType
    <2> QED
        BY <2>1, <2>2, <2>3, <2>4, MapFrame
<1>GetblkMiss. CASE GetblkMiss(p)
    <2> USE <1>GetblkMiss DEF GetblkMiss, At, Goto
    <2>1. OthersStay(p) /\ cpu \in {p, NoProc}
        BY DEF OthersStay
    <2>2. \A c \in Bufs : blk'[c] = blk[c] \/ c \in Holds(p) \/ ~Has(c, "BUSY") \/ OnDevice(c)
        BY DEF bufVars
    <2>3. \A c \in Bufs : ErrorFree(c)'
        BY DEF ErrorFree, Has, bufVars
    <2>4. BlkKept(p)' /\ Finding(p)'
        BY DEF BlkKept, Finding, Mapped, InBwrite, bufVars
    <2> QED
        BY <2>1, <2>2, <2>3, <2>4, MapFrame
<1>GetblkBusy. CASE GetblkBusy(p)
    <2> USE <1>GetblkBusy DEF GetblkBusy, At, Want, Sleep, SetBp
    <2>1. OthersStay(p) /\ cpu \in {p, NoProc}
        BY DEF OthersStay
    <2>2. \A c \in Bufs : blk'[c] = blk[c] \/ c \in Holds(p) \/ ~Has(c, "BUSY") \/ OnDevice(c)
        OBVIOUS
    <2>3. \A c \in Bufs : ErrorFree(c)'
        BY DEF ErrorFree, Has, BufTypes, Located
    <2>4. BlkKept(p)' /\ Finding(p)'
        BY DEF BlkKept, Finding, Mapped, InBwrite
    <2> QED
        BY <2>1, <2>2, <2>3, <2>4, MapFrame
<1>GetblkHit. CASE GetblkHit(p)
    <2> USE <1>GetblkHit DEF GetblkHit, At, Goto, Notavail
    <2>1. OthersStay(p) /\ cpu \in {p, NoProc}
        BY DEF OthersStay
    <2>2. \A c \in Bufs : blk'[c] = blk[c] \/ c \in Holds(p) \/ ~Has(c, "BUSY") \/ OnDevice(c)
        OBVIOUS
    <2>3. \A c \in Bufs : ErrorFree(c)'
        BY DEF ErrorFree, Has, BufTypes, Located
    <2>4. BlkKept(p)' /\ Finding(p)'
        BY DEF BlkKept, Finding, Mapped, InBwrite
    <2> QED
        BY <2>1, <2>2, <2>3, <2>4, MapFrame
<1>NoFreeBuf. CASE NoFreeBuf(p)
    <2> USE <1>NoFreeBuf DEF NoFreeBuf, AtGetnewbuf, At, Sleep
    <2>1. OthersStay(p) /\ cpu \in {p, NoProc}
        BY DEF OthersStay
    <2>2. \A c \in Bufs : blk'[c] = blk[c] \/ c \in Holds(p) \/ ~Has(c, "BUSY") \/ OnDevice(c)
        BY DEF bufVars
    <2>3. \A c \in Bufs : ErrorFree(c)'
        BY DEF ErrorFree, Has, bufVars
    <2>4. BlkKept(p)' /\ Finding(p)'
        BY DEF BlkKept, Finding, Mapped, InBwrite, bufVars
    <2> QED
        BY <2>1, <2>2, <2>3, <2>4, MapFrame
<1>NewBuf. CASE NewBuf(p)
    <2> USE <1>NewBuf DEF NewBuf, At, Goto, SetBp
    <2>1. OthersStay(p) /\ cpu \in {p, NoProc}
        BY DEF OthersStay
    <2>2. \A c \in Bufs : blk'[c] = blk[c] \/ c \in Holds(p) \/ ~Has(c, "BUSY") \/ OnDevice(c)
        BY <1>o DEF BufferKept, Scan, OnQueue, BufTypes
    <2>3. \A c \in Bufs : ErrorFree(c)'
        BY DEF ErrorFree, Has, BufTypes
    <2>4. BlkKept(p)' /\ Finding(p)'
        BY DEF BlkKept, Finding, Mapped, InBwrite, BufTypes, Scan, OnQueue, CallType
    <2> QED
        BY <2>1, <2>2, <2>3, <2>4, MapFrame
<1>WriteBehind. CASE WriteBehind(p)
    <2> USE <1>WriteBehind DEF WriteBehind, Behind, AtGetnewbuf, At, Goto, CallBwrite, Notavail
    <2>1. OthersStay(p) /\ cpu \in {p, NoProc}
        BY DEF OthersStay
    <2>2. \A c \in Bufs : blk'[c] = blk[c] \/ c \in Holds(p) \/ ~Has(c, "BUSY") \/ OnDevice(c)
        OBVIOUS
    <2>3. \A c \in Bufs : ErrorFree(c)'
        BY DEF ErrorFree, Has, BufTypes
    <2>4. BlkKept(p)' /\ Finding(p)'
        BY DEF BlkKept, Finding, Mapped, InBwrite, CallType
    <2> QED
        BY <2>1, <2>2, <2>3, <2>4, MapFrame
<1>BreallocSame. CASE BreallocSame(p)
    <2> USE <1>BreallocSame DEF BreallocSame, At, Goto
    <2>1. OthersStay(p) /\ cpu \in {p, NoProc}
        BY DEF OthersStay
    <2>2. \A c \in Bufs : blk'[c] = blk[c] \/ c \in Holds(p) \/ ~Has(c, "BUSY") \/ OnDevice(c)
        BY DEF bufVars
    <2>3. \A c \in Bufs : ErrorFree(c)'
        BY DEF ErrorFree, Has, bufVars
    <2>4. BlkKept(p)' /\ Finding(p)'
        BY DEF BlkKept, Finding, Mapped, InBwrite, bufVars
    <2> QED
        BY <2>1, <2>2, <2>3, <2>4, MapFrame
<1>BreallocDirty. CASE BreallocDirty(p)
    <2> USE <1>BreallocDirty DEF BreallocDirty, At, Goto, CallBwrite
    <2>1. OthersStay(p) /\ cpu \in {p, NoProc}
        BY DEF OthersStay
    <2>2. \A c \in Bufs : blk'[c] = blk[c] \/ c \in Holds(p) \/ ~Has(c, "BUSY") \/ OnDevice(c)
        BY DEF bufVars
    <2>3. \A c \in Bufs : ErrorFree(c)'
        BY DEF ErrorFree, Has, bufVars
    <2>4. BlkKept(p)' /\ Finding(p)'
        BY DEF BlkKept, Finding, Mapped, InBwrite, bufVars, CallType
    <2> QED
        BY <2>1, <2>2, <2>3, <2>4, MapFrame
<1>BreallocShrink. CASE BreallocShrink(p)
    <2> USE <1>BreallocShrink DEF BreallocShrink, At, Goto, Resize
    <2>1. OthersStay(p) /\ cpu \in {p, NoProc}
        BY DEF OthersStay
    <2>2. \A c \in Bufs : blk'[c] = blk[c] \/ c \in Holds(p) \/ ~Has(c, "BUSY") \/ OnDevice(c)
        BY DEF bufVars
    <2>3. \A c \in Bufs : ErrorFree(c)'
        BY DEF ErrorFree, Has, bufVars
    <2>4. BlkKept(p)' /\ Finding(p)'
        BY DEF BlkKept, Finding, Mapped, InBwrite, bufVars
    <2> QED
        BY <2>1, <2>2, <2>3, <2>4, MapFrame
<1>BreallocGrow. CASE BreallocGrow(p)
    <2> USE <1>BreallocGrow DEF BreallocGrow, At, Goto
    <2>1. OthersStay(p) /\ cpu \in {p, NoProc}
        BY DEF OthersStay
    <2>2. \A c \in Bufs : blk'[c] = blk[c] \/ c \in Holds(p) \/ ~Has(c, "BUSY") \/ OnDevice(c)
        OBVIOUS
    <2>3. \A c \in Bufs : ErrorFree(c)'
        BY DEF ErrorFree, Has, BufTypes, Outgrown
    <2>4. BlkKept(p)' /\ Finding(p)'
        BY DEF BlkKept, Finding, Mapped, InBwrite
    <2> QED
        BY <2>1, <2>2, <2>3, <2>4, MapFrame
<1>OverlapBusy. CASE OverlapBusy(p)
    <2> USE <1>OverlapBusy DEF OverlapBusy, At, Want, Sleep
    <2>1. OthersStay(p) /\ cpu \in {p, NoProc}
        BY DEF OthersStay
    <2>2. \A c \in Bufs : blk'[c] = blk[c] \/ c \in Holds(p) \/ ~Has(c, "BUSY") \/ OnDevice(c)
        OBVIOUS
    <2>3. \A c \in Bufs : ErrorFree(c)'
        BY DEF ErrorFree, Has, BufTypes, Overlapping
    <2>4. BlkKept(p)' /\ Finding(p)'
        BY DEF BlkKept, Finding, Mapped, InBwrite
    <2> QED
        BY <2>1, <2>2, <2>3, <2>4, MapFrame
<1>OverlapDirty. CASE OverlapDirty(p)
    <2> USE <1>OverlapDirty DEF OverlapDirty, At, Goto, CallBwrite, Notavail
    <2>1. OthersStay(p) /\ cpu \in {p, NoProc}
        BY DEF OthersStay
    <2>2. \A c \in Bufs : blk'[c] = blk[c] \/ c \in Holds(p) \/ ~Has(c, "BUSY") \/ OnDevice(c)
        OBVIOUS
    <2>3. \A c \in Bufs : ErrorFree(c)'
        BY DEF ErrorFree, Has, BufTypes
    <2>4. BlkKept(p)' /\ Finding(p)'
        BY DEF BlkKept, Finding, Mapped, InBwrite, CallType
    <2> QED
        BY <2>1, <2>2, <2>3, <2>4, MapFrame
<1>OverlapClean. CASE OverlapClean(p)
    <2> USE <1>OverlapClean DEF OverlapClean, At, Goto
    <2>b. PICK b \in Bufs : /\ b # call[p].bp /\ ~Has(b, "BUSY")
                            /\ \A c \in Bufs \ {b} : flags'[c] = flags[c] /\ blk'[c] = blk[c]
                            /\ "ERROR" \in flags'[b] => "ERROR" \in flags[b]
        BY BrelseMap DEF Overlapping, Has
    <2>1. OthersStay(p) /\ cpu \in {p, NoProc}
        BY AwakenStays DEF OthersStay
    <2>2. \A c \in Bufs : blk'[c] = blk[c] \/ c \in Holds(p) \/ ~Has(c, "BUSY") \/ OnDevice(c)
        BY <2>b
    <2>3. \A c \in Bufs : ErrorFree(c)'
        BY <2>b DEF ErrorFree, Has
    <2>4. BlkKept(p)' /\ Finding(p)'
        BY <2>b DEF BlkKept, Finding, Mapped, InBwrite, Located
    <2> QED
        BY <2>1, <2>2, <2>3, <2>4, MapFrame
<1>OverlapNone. CASE OverlapNone(p)
    <2> USE <1>OverlapNone DEF OverlapNone, At, Goto
    <2>1. OthersStay(p) /\ cpu \in {p, NoProc}
        BY DEF OthersStay
    <2>2. \A c \in Bufs : blk'[c] = blk[c] \/ c \in Holds(p) \/ ~Has(c, "BUSY") \/ OnDevice(c)
        BY DEF bufVars
    <2>3. \A c \in Bufs : ErrorFree(c)'
        BY DEF ErrorFree, Has, bufVars
    <2>4. BlkKept(p)' /\ Finding(p)'
        BY DEF BlkKept, Finding, Mapped, InBwrite, bufVars
    <2> QED
        BY <2>1, <2>2, <2>3, <2>4, MapFrame
<1>Allocbuf. CASE Allocbuf(p)
    <2> USE <1>Allocbuf DEF Allocbuf, At, Goto, Resize
    <2>1. OthersStay(p) /\ cpu \in {p, NoProc}
        BY DEF OthersStay
    <2>2. \A c \in Bufs : blk'[c] = blk[c] \/ c \in Holds(p) \/ ~Has(c, "BUSY") \/ OnDevice(c)
        BY DEF bufVars
    <2>3. \A c \in Bufs : ErrorFree(c)'
        BY DEF ErrorFree, Has, bufVars
    <2>4. BlkKept(p)' /\ Finding(p)'
        BY DEF BlkKept, Finding, Mapped, InBwrite, bufVars
    <2> QED
        BY <2>1, <2>2, <2>3, <2>4, MapFrame
<1>AllocbufSteal. CASE AllocbufSteal(p)
    <2> USE <1>AllocbufSteal DEF AllocbufSteal, At, Goto
    <2>1. OthersStay(p) /\ cpu \in {p, NoProc}
        BY DEF OthersStay
    <2>2. \A c \in Bufs : blk'[c] = blk[c] \/ c \in Holds(p) \/ ~Has(c, "BUSY") \/ OnDevice(c)
        BY DEF bufVars
    <2>3. \A c \in Bufs : ErrorFree(c)'
        BY DEF ErrorFree, Has, bufVars
    <2>4. BlkKept(p)' /\ Finding(p)'
        BY DEF BlkKept, Finding, Mapped, InBwrite, bufVars
    <2> QED
        BY <2>1, <2>2, <2>3, <2>4, MapFrame
<1>Steal. CASE Steal(p)
    <2> USE <1>Steal DEF Steal, At, Goto
    <2>b. PICK b \in Bufs : /\ ~Has(b, "BUSY")
                            /\ flags' = [flags EXCEPT ![b] = {"INVAL"}]
                            /\ blk' = [blk EXCEPT ![b] = NoBlk]
        BY <1>o DEF Scan, OnQueue, BufferKept
    <2>h. call[p].bp \in Bufs /\ Has(call[p].bp, "BUSY")
        BY <1>o DEF Located, ProcKept, BpKept, Settled
    <2>1. OthersStay(p) /\ cpu \in {p, NoProc}
        BY AwakenStays DEF OthersStay
    <2>2. \A c \in Bufs : blk'[c] = blk[c] \/ c \in Holds(p) \/ ~Has(c, "BUSY") \/ OnDevice(c)
        BY <2>b DEF BufTypes
    <2>3. \A c \in Bufs : ErrorFree(c)'
        BY <2>b DEF ErrorFree, Has, BufTypes
    <2>4. BlkKept(p)' /\ Finding(p)'
        BY <2>b, <2>h DEF BlkKept, Finding, Mapped, InBwrite
    <2> QED
        BY <2>1, <2>2, <2>3, <2>4, MapFrame
<1>BwriteStart. CASE BwriteStart(p)
    <2> USE <1>BwriteStart DEF BwriteStart, At
    <2>1. OthersStay(p) /\ cpu \in {p, NoProc}
        BY DEF OthersStay, Written, AfterBwrite, Return, Goto
    <2>2. \A c \in Bufs : blk'[c] = blk[c] \/ c \in Holds(p) \/ ~Has(c, "BUSY") \/ OnDevice(c)
        OBVIOUS
    <2>3. \A c \in Bufs : ErrorFree(c)'
        BY DEF ErrorFree, Has, BufTypes, Writing
    <2>4. BlkKept(p)' /\ Finding(p)'
        BY <1>o, WrittenMap DEF InBwrite
    <2> QED
        BY <2>1, <2>2, <2>3, <2>4, MapFrame
<1>VbwriteGather. CASE VbwriteGather(p)
    <2> USE <1>VbwriteGather DEF VbwriteGather, At
    <2>1. OthersStay(p) /\ cpu \in {p, NoProc}
        BY DEF OthersStay
    <2>2. \A c \in Bufs : blk'[c] = blk[c] \/ c \in Holds(p) \/ ~Has(c, "BUSY") \/ OnDevice(c)
        OBVIOUS
    <2>3. \A c \in Bufs : ErrorFree(c)'
        BY DEF ErrorFree, Has, BufTypes, Writing
    <2>4. BlkKept(p)' /\ Finding(p)'
        BY DEF BlkKept, Finding, Mapped, InBwrite, CallType
    <2> QED
        BY <2>1, <2>2, <2>3, <2>4, MapFrame
<1>VbwriteStart. CASE VbwriteStart(p)
    <2> USE <1>VbwriteStart DEF VbwriteStart, At
    <2>1. OthersStay(p) /\ cpu \in {p, NoProc}
        BY DEF OthersStay, Written, AfterBwrite, Return, Goto
    <2>2. \A c \in Bufs : blk'[c] = blk[c] \/ c \in Holds(p) \/ ~Has(c, "BUSY") \/ OnDevice(c)
        OBVIOUS
    <2>3. \A c \in Bufs : ErrorFree(c)'
        BY DEF ErrorFree, Has, BufTypes, Writing
    <2>4. BlkKept(p)' /\ Finding(p)'
        BY <1>o, WrittenMap DEF InBwrite
    <2> QED
        BY <2>1, <2>2, <2>3, <2>4, MapFrame
<1>BwriteDone. CASE BwriteDone(p)
    <2> USE <1>BwriteDone DEF BwriteDone, At
    <2>b. PICK b \in Bufs : /\ b = call[p].ep /\ b \in Holds(p)
                            /\ \A c \in Bufs \ {b} : flags'[c] = flags[c] /\ blk'[c] = blk[c]
                            /\ "ERROR" \in flags'[b] => "ERROR" \in flags[b]
        BY BrelseMap DEF Located, Holds, InBwrite
    <2>1. OthersStay(p) /\ cpu \in {p, NoProc}
        BY AwakenStays DEF OthersStay, AfterBwrite, Return, Goto
    <2>2. \A c \in Bufs : blk'[c] = blk[c] \/ c \in Holds(p) \/ ~Has(c, "BUSY") \/ OnDevice(c)
        BY <2>b
    <2>3. \A c \in Bufs : ErrorFree(c)'
        BY <2>b DEF ErrorFree, Has
    <2>4. BlkKept(p)' /\ Finding(p)'
        BY <1>o, <2>b, AfterBwriteMap DEF InBwrite
    <2> QED
        BY <2>1, <2>2, <2>3, <2>4, MapFrame
<1>BiowaitSleep. CASE BiowaitSleep(p)
    <2> USE <1>BiowaitSleep DEF BiowaitSleep, At, Sleep
    <2>1. OthersStay(p) /\ cpu \in {p, NoProc}
        BY DEF OthersStay
    <2>2. \A c \in Bufs : blk'[c] = blk[c] \/ c \in Holds(p) \/ ~Has(c, "BUSY") \/ OnDevice(c)
        BY DEF bufVars
    <2>3. \A c \in Bufs : ErrorFree(c)'
        BY DEF ErrorFree, Has, bufVars
    <2>4. BlkKept(p)' /\ Finding(p)'
        BY DEF BlkKept, Finding, Mapped, InBwrite, bufVars
    <2> QED
        BY <2>1, <2>2, <2>3, <2>4, MapFrame
<1>BiowaitDone. CASE BiowaitDone(p)
    <2> USE <1>BiowaitDone DEF BiowaitDone, At, Hold
    <2>1. OthersStay(p) /\ cpu \in {p, NoProc}
        BY DEF OthersStay
    <2>2. \A c \in Bufs : blk'[c] = blk[c] \/ c \in Holds(p) \/ ~Has(c, "BUSY") \/ OnDevice(c)
        BY DEF bufVars
    <2>3. \A c \in Bufs : ErrorFree(c)'
        BY DEF ErrorFree, Has, bufVars
    <2>4. BlkKept(p)' /\ Finding(p)'
        BY DEF BlkKept, Finding, Mapped, InBwrite, bufVars
    <2> QED
        BY <2>1, <2>2, <2>3, <2>4, MapFrame
<1>GotBlk. CASE GotBlk(p)
    <2> USE <1>GotBlk DEF GotBlk, At, Hold
    <2>1. OthersStay(p) /\ cpu \in {p, NoProc}
        BY DEF OthersStay
    <2>2. \A c \in Bufs : blk'[c] = blk[c] \/ c \in Holds(p) \/ ~Has(c, "BUSY") \/ OnDevice(c)
        BY DEF bufVars
    <2>3. \A c \in Bufs : ErrorFree(c)'
        BY DEF ErrorFree, Has, bufVars
    <2>4. BlkKept(p)' /\ Finding(p)'
        BY DEF BlkKept, Finding, Mapped, InBwrite, bufVars
    <2> QED
        BY <2>1, <2>2, <2>3, <2>4, MapFrame
<1>BreadStart. CASE BreadStart(p)
    <2> USE <1>BreadStart DEF BreadStart, At, Goto
    <2>1. OthersStay(p) /\ cpu \in {p, NoProc}
        BY DEF OthersStay
    <2>2. \A c \in Bufs : blk'[c] = blk[c] \/ c \in Holds(p) \/ ~Has(c, "BUSY") \/ OnDevice(c)
        OBVIOUS
    <2>3. \A c \in Bufs : ErrorFree(c)'
        BY DEF ErrorFree, Has, BufTypes, StartRead
    <2>4. BlkKept(p)' /\ Finding(p)'
        BY DEF BlkKept, Finding, Mapped, InBwrite
    <2> QED
        BY <2>1, <2>2, <2>3, <2>4, MapFrame
<1>BreadaStart. CASE BreadaStart(p)
    <2> USE <1>BreadaStart DEF BreadaStart, At
    <2>1. OthersStay(p) /\ cpu \in {p, NoProc}
        BY DEF OthersStay
    <2>2. \A c \in Bufs : blk'[c] = blk[c] \/ c \in Holds(p) \/ ~Has(c, "BUSY") \/ OnDevice(c)
        OBVIOUS
    <2>3. \A c \in Bufs : ErrorFree(c)'
        BY DEF ErrorFree, Has, BufTypes, StartRead
    <2>4. BlkKept(p)' /\ Finding(p)'
        BY DEF BlkKept, Finding, Mapped, InBwrite
    <2> QED
        BY <2>1, <2>2, <2>3, <2>4, MapFrame
<1>BreadaIncore. CASE BreadaIncore(p)
    <2> USE <1>BreadaIncore DEF BreadaIncore, AtRahead, At, Goto, FinishBreada
    <2>1. OthersStay(p) /\ cpu \in {p, NoProc}
        BY DEF OthersStay
    <2>2. \A c \in Bufs : blk'[c] = blk[c] \/ c \in Holds(p) \/ ~Has(c, "BUSY") \/ OnDevice(c)
        BY DEF bufVars
    <2>3. \A c \in Bufs : ErrorFree(c)'
        BY DEF ErrorFree, Has, bufVars
    <2>4. BlkKept(p)' /\ Finding(p)'
        BY DEF BlkKept, Finding, Mapped, InBwrite, bufVars
    <2> QED
        BY <2>1, <2>2, <2>3, <2>4, MapFrame
<1>BreadaGetblk. CASE BreadaGetblk(p)
    <2> USE <1>BreadaGetblk DEF BreadaGetblk, AtRahead, At, Goto
    <2>1. OthersStay(p) /\ cpu \in {p, NoProc}
        BY DEF OthersStay
    <2>2. \A c \in Bufs : blk'[c] = blk[c] \/ c \in Holds(p) \/ ~Has(c, "BUSY") \/ OnDevice(c)
        BY DEF bufVars
    <2>3. \A c \in Bufs : ErrorFree(c)'
        BY DEF ErrorFree, Has, bufVars
    <2>4. BlkKept(p)' /\ Finding(p)'
        BY DEF BlkKept, Finding, Mapped, InBwrite, bufVars
    <2> QED
        BY <2>1, <2>2, <2>3, <2>4, MapFrame
<1>BreadaAhead. CASE BreadaAhead(p)
    <2> USE <1>BreadaAhead DEF BreadaAhead, At, FinishBreada, Goto
    <2>b. PICK b \in Bufs : /\ b \in Holds(p)
                            /\ \A c \in Bufs \ {b} : flags'[c] = flags[c] /\ blk'[c] = blk[c]
                            /\ "ERROR" \in flags'[b] => "ERROR" \in flags[b]
        BY BrelseMap DEF Located, Holds, StartRead, BufTypes
    <2>1. OthersStay(p) /\ cpu \in {p, NoProc}
        BY AwakenStays DEF OthersStay
    <2>2. \A c \in Bufs : blk'[c] = blk[c] \/ c \in Holds(p) \/ ~Has(c, "BUSY") \/ OnDevice(c)
        BY <2>b
    <2>3. \A c \in Bufs : ErrorFree(c)'
        BY <2>b DEF ErrorFree, Has
    <2>4. BlkKept(p)' /\ Finding(p)'
        BY DEF BlkKept, Finding, Mapped, InBwrite
    <2> QED
        BY <2>1, <2>2, <2>3, <2>4, MapFrame
<1>Release. CASE Release(p)
    <2> USE <1>Release DEF Release, At, Return
    <2>b. PICK b \in Bufs : /\ b \in Holds(p)
                            /\ \A c \in Bufs \ {b} : flags'[c] = flags[c] /\ blk'[c] = blk[c]
                            /\ "ERROR" \in flags'[b] => "ERROR" \in flags[b]
        BY BrelseMap DEF Located, Holds
    <2>1. OthersStay(p) /\ cpu \in {p, NoProc}
        BY AwakenStays DEF OthersStay
    <2>2. \A c \in Bufs : blk'[c] = blk[c] \/ c \in Holds(p) \/ ~Has(c, "BUSY") \/ OnDevice(c)
        BY <2>b
    <2>3. \A c \in Bufs : ErrorFree(c)'
        BY <2>b DEF ErrorFree, Has
    <2>4. BlkKept(p)' /\ Finding(p)'
        BY DEF BlkKept, Finding, Mapped, InBwrite
    <2> QED
        BY <2>1, <2>2, <2>3, <2>4, MapFrame
<1>Bdwrite. CASE Bdwrite(p)
    <2> USE <1>Bdwrite DEF Bdwrite, MayModify, At, Return
    <2>b. PICK b \in Bufs : /\ b \in Holds(p)
                            /\ \A c \in Bufs \ {b} : flags'[c] = flags[c] /\ blk'[c] = blk[c]
                            /\ "ERROR" \in flags'[b] => "ERROR" \in flags[b]
        BY BrelseMap DEF Located, Holds
    <2>1. OthersStay(p) /\ cpu \in {p, NoProc}
        BY AwakenStays DEF OthersStay
    <2>2. \A c \in Bufs : blk'[c] = blk[c] \/ c \in Holds(p) \/ ~Has(c, "BUSY") \/ OnDevice(c)
        BY <2>b
    <2>3. \A c \in Bufs : ErrorFree(c)'
        BY <2>b DEF ErrorFree, Has
    <2>4. BlkKept(p)' /\ Finding(p)'
        BY DEF BlkKept, Finding, Mapped, InBwrite
    <2> QED
        BY <2>1, <2>2, <2>3, <2>4, MapFrame
<1>CallWrite. CASE CallWrite(p)
    <2> USE <1>CallWrite DEF CallWrite, MayModify, At, Goto, CallBwrite
    <2>1. OthersStay(p) /\ cpu \in {p, NoProc}
        BY DEF OthersStay
    <2>2. \A c \in Bufs : blk'[c] = blk[c] \/ c \in Holds(p) \/ ~Has(c, "BUSY") \/ OnDevice(c)
        OBVIOUS
    <2>3. \A c \in Bufs : ErrorFree(c)'
        BY DEF ErrorFree, Has, BufTypes
    <2>4. BlkKept(p)' /\ Finding(p)'
        BY DEF BlkKept, Finding, Mapped, InBwrite, CallType
    <2> QED
        BY <2>1, <2>2, <2>3, <2>4, MapFrame
<1>BdwaitSleep. CASE BdwaitSleep(p)
    <2> USE <1>BdwaitSleep DEF BdwaitSleep, At, Sleep
    <2>1. OthersStay(p) /\ cpu \in {p, NoProc}
        BY DEF OthersStay
    <2>2. \A c \in Bufs : blk'[c] = blk[c] \/ c \in Holds(p) \/ ~Has(c, "BUSY") \/ OnDevice(c)
        BY DEF bufVars
    <2>3. \A c \in Bufs : ErrorFree(c)'
        BY DEF ErrorFree, Has, bufVars
    <2>4. BlkKept(p)' /\ Finding(p)'
        BY DEF BlkKept, Finding, Mapped, InBwrite, bufVars
    <2> QED
        BY <2>1, <2>2, <2>3, <2>4, MapFrame
<1>BinvalfreeWrite. CASE BinvalfreeWrite(p)
    <2> USE <1>BinvalfreeWrite DEF BinvalfreeWrite, At, Goto
    <2>b. PICK b \in Bufs : /\ ~Has(b, "BUSY")
                            /\ \A c \in Bufs \ {b} : flags'[c] = flags[c] /\ blk'[c] = blk[c]
                            /\ "ERROR" \in flags'[b] => "ERROR" \in flags[b]
        BY <1>o, BrelseMap DEF Droppable, Idle, BufferKept, BiodoneAsync, Writing
    <2>1. OthersStay(p) /\ cpu \in {p, NoProc}
        BY AwakenStays DEF OthersStay, BiodoneAsync
    <2>2. \A c \in Bufs : blk'[c] = blk[c] \/ c \in Holds(p) \/ ~Has(c, "BUSY") \/ OnDevice(c)
        BY <2>b
    <2>3. \A c \in Bufs : ErrorFree(c)'
        BY <2>b DEF ErrorFree, Has
    <2>4. BlkKept(p)' /\ Finding(p)'
        BY DEF BlkKept, Finding, Mapped, InBwrite
    <2> QED
        BY <2>1, <2>2, <2>3, <2>4, MapFrame
<1>BinvalfreeDrop. CASE BinvalfreeDrop(p)
    <2> USE <1>BinvalfreeDrop DEF BinvalfreeDrop, At, Goto
    <2>1. OthersStay(p) /\ cpu \in {p, NoProc}
        BY DEF OthersStay
    <2>2. \A c \in Bufs : blk'[c] = blk[c] \/ c \in Holds(p) \/ ~Has(c, "BUSY") \/ OnDevice(c)
        BY <1>o DEF BufTypes, Droppable, Idle, BufferKept
    <2>3. \A c \in Bufs : ErrorFree(c)'
        BY DEF ErrorFree, Has, BufTypes
    <2>4. BlkKept(p)' /\ Finding(p)'
        BY DEF BlkKept, Finding, Mapped, InBwrite
    <2> QED
        BY <2>1, <2>2, <2>3, <2>4, MapFrame
<1>BiodDrop. CASE BiodDrop(p)
    <2> USE <1>BiodDrop DEF BiodDrop, NoneDroppable, At, Goto
    <2>c. \A c \in biodq : c \in Bufs /\ OnDevice(c)
        BY <1>o DEF TypeOK, IOTypes, BufferKept, OnDevice
    <2>b. PICK b \in Bufs : /\ OnDevice(b)
                            /\ \A c \in Bufs \ {b} : flags'[c] = flags[c] /\ blk'[c] = blk[c]
                            /\ "ERROR" \in flags'[b] => "ERROR" \in flags[b]
        BY <2>c, BrelseMap DEF BiodoneAsync
    <2>1. OthersStay(p) /\ cpu \in {p, NoProc}
        BY AwakenStays DEF OthersStay, BiodoneAsync
    <2>2. \A c \in Bufs : blk'[c] = blk[c] \/ c \in Holds(p) \/ ~Has(c, "BUSY") \/ OnDevice(c)
        BY <2>b
    <2>3. \A c \in Bufs : ErrorFree(c)'
        BY <2>b DEF ErrorFree, Has
    <2>4. BlkKept(p)' /\ Finding(p)'
        BY DEF BlkKept, Finding, Mapped, InBwrite
    <2> QED
        BY <2>1, <2>2, <2>3, <2>4, MapFrame
<1>FlushReturn. CASE FlushReturn(p)
    <2> USE <1>FlushReturn DEF FlushReturn, NoneDroppable, At, Return
    <2>1. OthersStay(p) /\ cpu \in {p, NoProc}
        BY DEF OthersStay
    <2>2. \A c \in Bufs : blk'[c] = blk[c] \/ c \in Holds(p) \/ ~Has(c, "BUSY") \/ OnDevice(c)
        BY DEF bufVars
    <2>3. \A c \in Bufs : ErrorFree(c)'
        BY DEF ErrorFree, Has, bufVars
    <2>4. BlkKept(p)' /\ Finding(p)'
        BY DEF BlkKept, Finding, Mapped, InBwrite, bufVars
    <2> QED
        BY <2>1, <2>2, <2>3, <2>4, MapFrame
<1> QED
    BY <1>GetblkFind, <1>GetblkMiss, <1>GetblkBusy, <1>GetblkHit, <1>NoFreeBuf, <1>NewBuf,
       <1>WriteBehind, <1>BreallocSame, <1>BreallocDirty, <1>BreallocShrink,
       <1>BreallocGrow, <1>OverlapBusy, <1>OverlapDirty, <1>OverlapClean, <1>OverlapNone,
       <1>Allocbuf, <1>AllocbufSteal, <1>Steal, <1>BwriteStart, <1>VbwriteGather,
       <1>VbwriteStart, <1>BwriteDone, <1>BiowaitSleep, <1>BiowaitDone, <1>GotBlk,
       <1>BreadStart, <1>BreadaStart, <1>BreadaIncore, <1>BreadaGetblk, <1>BreadaAhead,
       <1>Release, <1>Bdwrite, <1>CallWrite, <1>BdwaitSleep, <1>BinvalfreeWrite,
       <1>BinvalfreeDrop, <1>BiodDrop, <1>FlushReturn DEF Step

\* Nor does a call change what the others have
LEMMA MapCall ==
    ASSUME TypeOK, Located, OwnInv, MapInv, NEW p \in Procs, CallOp(p) PROVE MapInv'
<1>t. /\ BufTypes /\ pc \in [Procs -> Labels] /\ call \in [Procs -> CallType]
      /\ \A b \in Bufs : ErrorFree(b)
    BY DEF TypeOK, ProcTypes, MapInv
<1>1. ASSUME NEW o, NEW w, NEW n, NEW l \in {"getblk", "newbuf", "rahead", "bflush", "bdwait",
                                             "blkflush", "binvalfree"},
             Call(p, o, w, n, l)
      PROVE  MapInv'
    <2> USE <1>t, <1>1 DEF Call, At, Goto, bufVars
    <2>1. OthersStay(p) /\ BlkKept(p)' /\ Finding(p)'
        BY DEF OthersStay, BlkKept, Finding, InBwrite
    <2>2. \A b \in Bufs : ErrorFree(b)'
        BY DEF ErrorFree, Has
    <2> QED
        BY <2>1, <2>2, MapFrame
<1>2. CASE CallBreada(p)
    BY <1>1, <1>2 DEF CallBreada
<1>3. CASE CallRead(p) \/ CallFlush(p)
    BY <1>1, <1>3 DEF CallRead, CallFlush
<1>4. CASE Binval(p)
    <2> USE <1>t, <1>4 DEF Binval, At
    <2>1. OthersStay(p) /\ BlkKept(p)' /\ Finding(p)'
        BY DEF OthersStay, BlkKept, Finding, InBwrite
    <2>2. \A b \in Bufs : ErrorFree(b)' /\ ~Has(b, "BUSY")
        BY DEF ErrorFree, Has, BufTypes
    <2>3. cpu \in {p, NoProc}
        OBVIOUS
    <2> QED
        BY <2>1, <2>2, <2>3, MapFrame
<1> QED
    BY <1>2, <1>3, <1>4 DEF CallOp

\* A request that fails takes the block from its buffer, which nobody has but a process between
\* the search and the test of B_BUSY
LEMMA MapDone ==
    ASSUME TypeOK, Located, OwnInv, MapInv, NEW b \in Bufs, IODone(b) PROVE MapInv'
<1>t. BufTypes /\ (\A p \in Procs : BlkKept(p) /\ Finding(p)) /\ \A c \in Bufs : ErrorFree(c)
    BY DEF TypeOK, MapInv
<1>p. pc' = pc /\ call' = call /\ cpu' = cpu
    BY DEF IODone, BiodTake, IODoneAsync, IODoneSync
<1>1. /\ \A c \in Bufs \ {b} : blk'[c] = blk[c]
      /\ \/ blk'[b] = blk[b]
         \/ IOErrors /\ blk'[b] = NoBlk /\ OnDevice(b) /\ (Nfs => cpu = NoProc)
      /\ \A c \in Bufs : ErrorFree(c)'
    <2>1. CASE BiodTake(b)
        BY <1>t, <2>1 DEF BiodTake, bufVars, ErrorFree, Has
    <2>2. CASE IODoneSync(b)
        BY <1>t, <2>2 DEF IODoneSync, ErrorFree, Has, BufTypes
    <2>3. CASE IODoneAsync(b)
        <3>1. PICK F \in {flags[b] \cup {"DONE"}, flags[b] \cup {"DONE", "ERROR"}},
                   H \in {Transferred(b), Failed(b)} :
                  /\ "ERROR" \in F => IOErrors
                  /\ Brelse(b, F, bufsize[b], H)
            BY <1>t, <2>3 DEF IODoneAsync, BiodoneAsync, ErrorFree, Has
        <3>2. OnDevice(b) /\ (Nfs => cpu = NoProc)
            BY <2>3 DEF IODoneAsync, Completes, OnDevice
        <3> QED
            BY <1>t, <3>1, <3>2, BrelseMap DEF ErrorFree, Has
    <2> QED
        BY <2>1, <2>2, <2>3 DEF IODone
<1>2. ASSUME NEW q \in Procs PROVE BlkKept(q)' /\ Finding(q)'
    <2>1. CASE pc[q] = "hit"
        <3>1. cpu = q /\ NoProc # q
            BY <1>t, <2>1, ProcsAssumption DEF Finding
        <3>2. call[q].bp \in Bufs
            BY <2>1 DEF Located
        <3> QED
            BY <1>t, <1>p, <1>1, <2>1, <3>1, <3>2 DEF BlkKept, Finding, Mapped, InBwrite
    <2>2. CASE \/ pc[q] \in {"brealloc", "overlap", "allocbuf", "steal", "got"}
               \/ InBwrite(q) /\ call[q].ret \in {"overlap", "steal"}
        <3>1. call[q].bp \in Holds(q) /\ pc[q] # "hit"
            BY <2>2 DEF Located, Holds, InBwrite
        <3>2. call[q].bp \in Bufs /\ ~OnDevice(call[q].bp)
            BY <3>1, HeldBusy DEF OwnInv
        <3>3. blk'[call[q].bp] = blk[call[q].bp]
            BY <1>1, <3>2
        <3> QED
            BY <1>t, <1>p, <2>2, <3>1, <3>3 DEF BlkKept, Finding, Mapped
    <2> QED
        BY <1>p, <2>1, <2>2 DEF BlkKept, Finding, InBwrite
<1> QED
    BY <1>1, <1>2 DEF MapInv

\* The buffer that a process has in getblk is the one of its block
LEMMA MapKept == ASSUME Vio => ~GetmemSleeps PROVE Spec => []MapInv
<1>1. Init => MapInv
    BY DEF Init, MapInv, BlkKept, Finding, ErrorFree, InBwrite, Has
<1>2. TypeOK /\ Located /\ OwnInv /\ MapInv /\ [Next]_vars => MapInv'
    <2> SUFFICES ASSUME TypeOK, Located, OwnInv, MapInv, [Next]_vars PROVE MapInv'
        OBVIOUS
    <2>1. CASE UNCHANGED vars
        BY <2>1 DEF vars, bufVars, MapInv, BlkKept, Finding, ErrorFree, Mapped, InBwrite, Has
    <2>2. CASE Next
        BY <2>2, MapStep, MapCall, MapDone DEF Next
    <2> QED
        BY <2>1, <2>2
<1> QED
    BY <1>1, <1>2, OwnersKept, TypeCorrect, PTL DEF Spec

\* getblk returns a buffer of the block that it was asked for, whoever took, wrote, stole or
\* invalidated buffers while it slept, unless a disk error comes just after the search
THEOREM GetblkReturnsHolds ==
    ASSUME Vio => ~GetmemSleeps, Nfs \/ ~IOErrors PROVE Spec => []GetblkReturns
<1>1. MapInv => GetblkReturns
    BY DEF MapInv, BlkKept, Mapped, GetblkReturns
<1> QED
    BY <1>1, MapKept, PTL

-----------------------------------------------------------------------------
(* No block is in two buffers                                              *)

\* The units that b maps, when it is valid
Covers(b) == IF Has(b, "INVAL") THEN {} ELSE Extent(b)

\* From the check of brealloc on, p keeps the processor until its buffer has the size wanted:
\* what it writes in getnewbuf is asynchronous
InAllocbuf(p) == pc[p] \in {"allocbuf", "steal"} \/ (InBwrite(p) /\ call[p].ret = "steal")
Unshared(p) == blk[call[p].bp] = NoBlk \/ Overlapping(p) = {}
Clear(p) == InAllocbuf(p) => /\ cpu = p
                             /\ Unshared(p)
                             /\ InBwrite(p) => pc[p] # "bwritewait" /\ Has(call[p].ep, "ASYNC")

\* allocbuf finds a buffer whose memory it can take, when it needs one
NoSleepInAllocbuf == \A p \in Procs : pc[p] = "steal" => wchan[p] # FreeList

UniqInv == UniqueMapping /\ \A p \in Procs : Clear(p)

\* b does not change, or is given up
Remains(b) == /\ blk'[b] \in {blk[b], NoBlk}
              /\ bcount'[b] \in {bcount[b], 0}
              /\ Has(b, "INVAL") => Has(b, "INVAL")'

\* Such a buffer maps nothing new
LEMMA RemainsCovers ==
    ASSUME TypeOK, NEW b \in Bufs, Remains(b) PROVE Covers(b)' \subseteq Covers(b)
<1>1. Has(b, "INVAL") => Covers(b)' = {}
    BY DEF Remains, Covers, Has
<1>2. CASE blk'[b] = NoBlk
    BY <1>2 DEF Covers, Extent
<1>3. CASE blk'[b] = blk[b] /\ blk[b] # NoBlk /\ bcount'[b] = 0
    <2>1. blk[b] \in Nat
        BY <1>3, BlockAssumption DEF TypeOK, BufTypes, Starts
    <2>2. Extent(b)' = {}
        BY <1>3, <2>1 DEF Extent
    <2> QED
        BY <2>2 DEF Covers
<1>4. CASE blk'[b] = blk[b] /\ bcount'[b] = bcount[b]
    BY <1>1, <1>4 DEF Covers, Extent
<1> QED
    BY <1>2, <1>3, <1>4 DEF Remains

\* The invariant in terms of Covers
LEMMA MappedOnce ==
    /\ UniqueMapping <=> \A b, c \in Bufs : b # c => Covers(b) \cap Covers(c) = {}
    /\ \A p : Overlapping(p) = {}
              <=> \A b \in Bufs \ {call[p].bp} : Covers(b) \cap WantExtent(p) = {}
BY DEF UniqueMapping, Covers, Overlapping

LEMMA UniqueStays ==
    ASSUME UniqueMapping, \A b \in Bufs : Covers(b)' \subseteq Covers(b) PROVE UniqueMapping'
<1>1. \A b, c \in Bufs : b # c => Covers(b)' \cap Covers(c)' = {}
    BY MappedOnce
<1> QED
    BY <1>1 DEF UniqueMapping, Covers

\* What is alone stays alone, where buffers map nothing new
LEMMA UnsharedStays ==
    ASSUME TypeOK, NEW p \in Procs, Unshared(p), \A b \in Bufs : Remains(b), call[p].bp \in Bufs,
           call'[p].bp = call[p].bp, call'[p].want = call[p].want
    PROVE  Unshared(p)'
<1>1. \A b \in Bufs : Covers(b)' \subseteq Covers(b)
    BY RemainsCovers
<1>2. CASE blk[call[p].bp] = NoBlk
    BY <1>2 DEF Remains, Unshared
<1>3. CASE Overlapping(p) = {}
    <2>1. \A b \in Bufs \ {call[p].bp} : Covers(b)' \cap WantExtent(p) = {}
        BY <1>1, <1>3, MappedOnce
    <2>2. WantExtent(p)' = WantExtent(p)
        BY DEF WantExtent
    <2>3. Overlapping(p)' = {}
        BY <2>1, <2>2 DEF Overlapping, Covers
    <2> QED
        BY <2>3 DEF Unshared
<1> QED
    BY <1>2, <1>3 DEF Unshared

\* A step of p after which no buffer maps more
LEMMA UniqFrame ==
    ASSUME UniqInv, NEW p \in Procs, cpu \in {p, NoProc}, OthersStay(p),
           \A b \in Bufs : Covers(b)' \subseteq Covers(b), Clear(p)'
    PROVE  UniqInv'
<1>1. ASSUME NEW q \in Procs \ {p} PROVE Clear(q)'
    BY ProcsAssumption DEF UniqInv, Clear, OthersStay, InAllocbuf, InBwrite
<1> QED
    BY <1>1, UniqueStays DEF UniqInv

\* The blocks of a buffer that is released stay the same, or it has none
LEMMA BrelseRemains ==
    ASSUME TypeOK, NEW b \in Bufs, NEW F, NEW n, NEW H, Brelse(b, F, n, H), bcount' = bcount,
           Has(b, "INVAL") => "INVAL" \in F
    PROVE  \A c \in Bufs : Remains(c)
BY DEF Brelse, Released, TypeOK, BufTypes, Remains, Has

\* bwrite returns to getnewbuf, called by allocbuf, without a pause
LEMMA AfterBwriteClear ==
    ASSUME TypeOK, Located, NEW p \in Procs, Clear(p), InBwrite(p), AfterBwrite(p),
           \A b \in Bufs : Remains(b)
    PROVE  Clear(p)'
<1>t. /\ pc \in [Procs -> Labels] /\ call \in [Procs -> CallType] /\ call[p].ret \in Returns
      /\ call[p] \in CallType
    BY DEF TypeOK, ProcTypes, CallType
<1>1. CASE call[p].ret = "idle" /\ Return(p)
    BY <1>t, <1>1 DEF Return, Clear, InAllocbuf, InBwrite
<1>2. CASE /\ call[p].ret # "idle"
           /\ Goto(p, call[p].ret)
           /\ call' = [call EXCEPT ![p] =
                  [@ EXCEPT !.ep = NoBuf, !.ret = "idle", !.gset = {},
                            !.bp = IF call[p].ret = "getblk" THEN NoBuf ELSE call[p].bp]]
    <2>1. /\ pc'[p] = call[p].ret /\ call'[p].want = call[p].want /\ cpu' = p
          /\ call[p].ret # "getblk" => call'[p].bp = call[p].bp
        BY <1>2, <1>t DEF Goto, CallType
    <2>2. CASE call[p].ret = "steal"
        <3>1. Unshared(p)'
            BY <2>1, <2>2, UnsharedStays DEF Clear, InAllocbuf, Located
        <3> QED
            BY <2>1, <2>2, <3>1 DEF Clear, InBwrite
    <2>3. CASE call[p].ret # "steal"
        BY <1>t, <2>1, <2>3 DEF Returns, Clear, InAllocbuf, InBwrite
    <2> QED
        BY <2>2, <2>3
<1> QED
    BY <1>1, <1>2 DEF AfterBwrite

\* The same when bwrite has given the request to the driver
LEMMA WrittenClear ==
    ASSUME TypeOK, Located, NEW p \in Procs, Clear(p), InBwrite(p), Written(p),
           \A b \in Bufs : Remains(b)
    PROVE  Clear(p)'
<1>1. CASE AfterBwrite(p)
    BY <1>1, AfterBwriteClear
<1>2. CASE /\ ~Has(call[p].ep, "ASYNC")
           /\ call' = [call EXCEPT ![p].gset = {}]
           /\ Goto(p, "bwritewait")
    BY <1>2 DEF TypeOK, ProcTypes, CallType, Goto, Clear, InAllocbuf, InBwrite
<1> QED
    BY <1>1, <1>2 DEF Written

\* A step of a process keeps it, unless the process goes to sleep in allocbuf
LEMMA UniqStep ==
    ASSUME TypeOK, Located, OwnInv, MapInv, UniqInv, Vio => ~GetmemSleeps, NoSleepInAllocbuf',
           NEW p \in Procs, Step(p)
    PROVE  UniqInv'
<1>t. /\ BufTypes /\ MemTypes /\ WaitTypes /\ pc \in [Procs -> Labels]
      /\ call \in [Procs -> CallType] /\ call[p] \in CallType /\ call[p].ret \in Returns
      /\ NoBuf \notin Bufs
    BY BufsAssumption DEF TypeOK, ProcTypes, CallType
<1>c. /\ Clear(p)
      /\ \/ pc[p] \in {"hit", "brealloc", "overlap", "allocbuf", "steal", "got", "biowait", "held"}
         \/ InBwrite(p) /\ call[p].ret \in {"overlap", "steal"}
         => call[p].bp \in Bufs
      /\ InBwrite(p) => call[p].ep \in Bufs
    BY DEF UniqInv, Located
<1> USE <1>t
<1>GetblkFind. CASE GetblkFind(p)
    <2> USE <1>GetblkFind DEF GetblkFind, At, Goto, SetBp
    <2>1. OthersStay(p) /\ cpu \in {p, NoProc}
        BY DEF OthersStay
    <2>2. \A c \in Bufs : Remains(c)
        BY DEF Remains, Has, bufVars, memVars
    <2>3. Clear(p)'
        BY DEF Clear, InAllocbuf, InBwrite
    <2> QED
        BY <2>1, <2>2, <2>3, RemainsCovers, UniqFrame
<1>GetblkMiss. CASE GetblkMiss(p)
    <2> USE <1>GetblkMiss DEF GetblkMiss, At, Goto
    <2>1. OthersStay(p) /\ cpu \in {p, NoProc}
        BY DEF OthersStay
    <2>2. \A c \in Bufs : Remains(c)
        BY DEF Remains, Has, bufVars, memVars
    <2>3. Clear(p)'
        BY DEF Clear, InAllocbuf, InBwrite
    <2> QED
        BY <2>1, <2>2, <2>3, RemainsCovers, UniqFrame
<1>GetblkBusy. CASE GetblkBusy(p)
    <2> USE <1>GetblkBusy DEF GetblkBusy, At, Want, Sleep, SetBp
    <2>1. OthersStay(p) /\ cpu \in {p, NoProc}
        BY DEF OthersStay
    <2>2. \A c \in Bufs : Remains(c)
        BY DEF Remains, Has, BufTypes, memVars
    <2>3. Clear(p)'
        BY DEF Clear, InAllocbuf, InBwrite
    <2> QED
        BY <2>1, <2>2, <2>3, RemainsCovers, UniqFrame
<1>GetblkHit. CASE GetblkHit(p)
    <2> USE <1>GetblkHit DEF GetblkHit, At, Goto, Notavail
    <2>1. OthersStay(p) /\ cpu \in {p, NoProc}
        BY DEF OthersStay
    <2>2. \A c \in Bufs : Remains(c)
        BY DEF Remains, Has, BufTypes, memVars
    <2>3. Clear(p)'
        BY DEF Clear, InAllocbuf, InBwrite
    <2> QED
        BY <2>1, <2>2, <2>3, RemainsCovers, UniqFrame
<1>NoFreeBuf. CASE NoFreeBuf(p)
    <2> USE <1>NoFreeBuf DEF NoFreeBuf, AtGetnewbuf, At, Sleep
    <2>s. pc[p] = "newbuf"
        BY DEF NoSleepInAllocbuf, WaitTypes
    <2>1. OthersStay(p) /\ cpu \in {p, NoProc}
        BY DEF OthersStay
    <2>2. \A c \in Bufs : Remains(c)
        BY DEF Remains, Has, bufVars, memVars
    <2>3. Clear(p)'
        BY <2>s DEF Clear, InAllocbuf, InBwrite
    <2> QED
        BY <2>1, <2>2, <2>3, RemainsCovers, UniqFrame
<1>NewBuf. CASE NewBuf(p)
    <2> USE <1>NewBuf DEF NewBuf, At, Goto, SetBp
    <2>1. OthersStay(p) /\ cpu \in {p, NoProc}
        BY DEF OthersStay
    <2>2. ASSUME NEW b \in Bufs PROVE Covers(b)' \subseteq Covers(b)
        <3>1. PICK d \in Bufs : /\ blk'[d] = call[p].want[1] /\ bcount'[d] = 0
                                /\ \A c \in Bufs \ {d} : Remains(c)
            BY DEF Scan, OnQueue, BufTypes, MemTypes, Remains, Has
        <3>2. call[p].want[1] \in Int
            BY BlockAssumption DEF CallType, Wants, Starts, NoBlk
        <3>3. Extent(d)' = {}
            BY <3>1, <3>2 DEF Extent
        <3>4. CASE b = d
            BY <3>3, <3>4 DEF Covers
        <3>5. CASE b # d
            BY <3>1, <3>5, RemainsCovers
        <3> QED
            BY <3>4, <3>5
    <2>3. Clear(p)'
        BY DEF Clear, InAllocbuf, InBwrite
    <2> QED
        BY <2>1, <2>2, <2>3, UniqFrame
<1>WriteBehind. CASE WriteBehind(p)
    <2> USE <1>WriteBehind DEF WriteBehind, Behind, AtGetnewbuf, At, Goto, CallBwrite, Notavail
    <2>1. OthersStay(p) /\ cpu \in {p, NoProc}
        BY DEF OthersStay
    <2>2. \A c \in Bufs : Remains(c)
        BY DEF Remains, Has, BufTypes, memVars
    <2>a. pc[p] = "steal" => Unshared(p)'
        BY <1>c, <2>2, UnsharedStays DEF Clear, InAllocbuf, InBwrite, CallType
    <2>3. Clear(p)'
        BY <2>a DEF Clear, InAllocbuf, InBwrite, CallType, BufTypes, Has
    <2> QED
        BY <2>1, <2>2, <2>3, RemainsCovers, UniqFrame
<1>BreallocSame. CASE BreallocSame(p)
    <2> USE <1>BreallocSame DEF BreallocSame, At, Goto
    <2>1. OthersStay(p) /\ cpu \in {p, NoProc}
        BY DEF OthersStay
    <2>2. \A c \in Bufs : Remains(c)
        BY DEF Remains, Has, bufVars, memVars
    <2>3. Clear(p)'
        BY DEF Clear, InAllocbuf, InBwrite
    <2> QED
        BY <2>1, <2>2, <2>3, RemainsCovers, UniqFrame
<1>BreallocDirty. CASE BreallocDirty(p)
    <2> USE <1>BreallocDirty DEF BreallocDirty, At, Goto, CallBwrite
    <2>1. OthersStay(p) /\ cpu \in {p, NoProc}
        BY DEF OthersStay
    <2>2. \A c \in Bufs : Remains(c)
        BY DEF Remains, Has, bufVars, memVars
    <2>3. Clear(p)'
        BY DEF Clear, InAllocbuf, InBwrite, CallType
    <2> QED
        BY <2>1, <2>2, <2>3, RemainsCovers, UniqFrame
<1>BreallocShrink. CASE BreallocShrink(p)
    <2> USE <1>BreallocShrink DEF BreallocShrink, At, Goto, Resize
    <2>1. OthersStay(p) /\ cpu \in {p, NoProc}
        BY DEF OthersStay
    <2>2. ASSUME NEW b \in Bufs PROVE Covers(b)' \subseteq Covers(b)
        <3>1. CASE b = call[p].bp
            <4>1. /\ blk'[b] = blk[b] /\ bcount'[b] = Size(p) /\ flags'[b] = flags[b]
                  /\ blk[b] \in Int /\ bcount[b] \in Nat /\ Size(p) \in Nat /\ Size(p) < bcount[b]
                BY <3>1, BlockAssumption DEF BufTypes, MemTypes, Starts, NoBlk, Size, CallType, Wants,
                   Sizes
            <4>2. Extent(b)' \subseteq Extent(b)
                BY <4>1 DEF Extent
            <4> QED
                BY <4>1, <4>2 DEF Covers, Has
        <3>2. CASE b # call[p].bp
            BY <3>2 DEF Covers, Extent, Has, MemTypes
        <3> QED
            BY <3>1, <3>2
    <2>3. Clear(p)'
        BY DEF Clear, InAllocbuf, InBwrite
    <2> QED
        BY <2>1, <2>2, <2>3, UniqFrame
<1>BreallocGrow. CASE BreallocGrow(p)
    <2> USE <1>BreallocGrow DEF BreallocGrow, At, Goto
    <2>1. OthersStay(p) /\ cpu \in {p, NoProc}
        BY DEF OthersStay
    <2>2. \A c \in Bufs : Remains(c)
        BY DEF Remains, Has, BufTypes, memVars, Outgrown
    <2>3. Clear(p)'
        BY DEF Clear, InAllocbuf, InBwrite, Unshared
    <2> QED
        BY <2>1, <2>2, <2>3, RemainsCovers, UniqFrame
<1>OverlapBusy. CASE OverlapBusy(p)
    <2> USE <1>OverlapBusy DEF OverlapBusy, At, Want, Sleep
    <2>1. OthersStay(p) /\ cpu \in {p, NoProc}
        BY DEF OthersStay
    <2>2. \A c \in Bufs : Remains(c)
        BY DEF Remains, Has, BufTypes, memVars, Overlapping
    <2>3. Clear(p)'
        BY DEF Clear, InAllocbuf, InBwrite
    <2> QED
        BY <2>1, <2>2, <2>3, RemainsCovers, UniqFrame
<1>OverlapDirty. CASE OverlapDirty(p)
    <2> USE <1>OverlapDirty DEF OverlapDirty, At, Goto, CallBwrite, Notavail
    <2>1. OthersStay(p) /\ cpu \in {p, NoProc}
        BY DEF OthersStay
    <2>2. \A c \in Bufs : Remains(c)
        BY DEF Remains, Has, BufTypes, memVars
    <2>3. Clear(p)'
        BY DEF Clear, InAllocbuf, InBwrite, CallType
    <2> QED
        BY <2>1, <2>2, <2>3, RemainsCovers, UniqFrame
<1>OverlapClean. CASE OverlapClean(p)
    <2> USE <1>OverlapClean DEF OverlapClean, At, Goto
    <2>1. OthersStay(p) /\ cpu \in {p, NoProc}
        BY AwakenStays DEF OthersStay
    <2>2. \A c \in Bufs : Remains(c)
        BY <1>c, BrelseRemains DEF Remains, Has, memVars, Overlapping
    <2>3. Clear(p)'
        BY DEF Clear, InAllocbuf, InBwrite
    <2> QED
        BY <2>1, <2>2, <2>3, RemainsCovers, UniqFrame
<1>OverlapNone. CASE OverlapNone(p)
    <2> USE <1>OverlapNone DEF OverlapNone, At, Goto
    <2>1. OthersStay(p) /\ cpu \in {p, NoProc}
        BY DEF OthersStay
    <2>2. \A c \in Bufs : Remains(c)
        BY DEF Remains, Has, bufVars, memVars
    <2>3. Clear(p)'
        BY DEF Clear, InAllocbuf, InBwrite, Unshared, Overlapping, WantExtent, Has,
           Extent, bufVars, memVars
    <2> QED
        BY <2>1, <2>2, <2>3, RemainsCovers, UniqFrame
<1>Allocbuf. CASE Allocbuf(p)
    <2> USE <1>Allocbuf DEF Allocbuf, At, Goto, Resize
    <2>1. /\ call[p].bp \in Bufs /\ Unshared(p) /\ Mapped(call[p].bp, call[p].want[1])
          /\ cpu \in {p, NoProc}
        BY <1>c DEF Clear, InAllocbuf, MapInv, BlkKept
    <2>2. \A c \in Bufs \ {call[p].bp} : Covers(c)' = Covers(c)
        BY DEF Covers, Has, Extent, MemTypes
    <2>3. Covers(call[p].bp)' \subseteq IF blk[call[p].bp] = NoBlk THEN {} ELSE WantExtent(p)
        <3>1. PICK b \in Bufs : b = call[p].bp
            BY <2>1
        <3>2. blk'[b] = blk[b] /\ bcount'[b] = call[p].want[2] /\ call'[p] = call[p]
            BY <3>1 DEF MemTypes, Size
        <3>3. Covers(b)' \subseteq IF blk[b] = NoBlk THEN {} ELSE WantExtent(p)
            BY <2>1, <3>1, <3>2 DEF Covers, Extent, Mapped, WantExtent
        <3> QED
            BY <3>1, <3>3
    <2>4. \A b, c \in Bufs : b # c => Covers(b)' \cap Covers(c)' = {}
        <3>1. \A c \in Bufs \ {call[p].bp} : Covers(call[p].bp)' \cap Covers(c)' = {}
            BY <2>1, <2>2, <2>3, MappedOnce DEF Unshared
        <3>2. UniqueMapping
            BY DEF UniqInv
        <3> QED
            BY <2>2, <3>1, <3>2, MappedOnce
    <2>5. UniqueMapping'
        BY <2>4 DEF UniqueMapping, Covers
    <2>6. \A q \in Procs : Clear(q)'
        BY <2>1, ProcsAssumption DEF UniqInv, Clear, InAllocbuf, InBwrite
    <2> QED
        BY <2>5, <2>6 DEF UniqInv
<1>AllocbufSteal. CASE AllocbufSteal(p)
    <2> USE <1>AllocbufSteal DEF AllocbufSteal, At, Goto
    <2>1. OthersStay(p) /\ cpu \in {p, NoProc}
        BY DEF OthersStay
    <2>2. \A c \in Bufs : Remains(c)
        BY DEF Remains, Has, bufVars, memVars
    <2>a. InAllocbuf(p) => Unshared(p)'
        BY <1>c, <2>2, UnsharedStays DEF Clear, InAllocbuf, InBwrite
    <2>3. Clear(p)'
        BY <2>a DEF Clear, InAllocbuf, InBwrite
    <2> QED
        BY <2>1, <2>2, <2>3, RemainsCovers, UniqFrame
<1>Steal. CASE Steal(p)
    <2> USE <1>Steal DEF Steal, At, Goto
    <2>1. OthersStay(p) /\ cpu \in {p, NoProc}
        BY AwakenStays DEF OthersStay
    <2>2. \A c \in Bufs : Remains(c)
        BY DEF Remains, Has, BufTypes, MemTypes
    <2>a. InAllocbuf(p) => Unshared(p)'
        BY <1>c, <2>2, UnsharedStays DEF Clear, InAllocbuf, InBwrite
    <2>3. Clear(p)'
        BY <2>a DEF Clear, InAllocbuf, InBwrite
    <2> QED
        BY <2>1, <2>2, <2>3, RemainsCovers, UniqFrame
<1>BwriteStart. CASE BwriteStart(p)
    <2> USE <1>BwriteStart DEF BwriteStart, At
    <2>1. OthersStay(p) /\ cpu \in {p, NoProc}
        BY DEF OthersStay, Written, AfterBwrite, Return, Goto
    <2>2. \A c \in Bufs : Remains(c)
        BY DEF Remains, Has, BufTypes, memVars, Writing
    <2>3. Clear(p)'
        BY <1>c, <2>2, WrittenClear DEF Clear, InAllocbuf, InBwrite
    <2> QED
        BY <2>1, <2>2, <2>3, RemainsCovers, UniqFrame
<1>VbwriteGather. CASE VbwriteGather(p)
    <2> USE <1>VbwriteGather DEF VbwriteGather, At
    <2>1. OthersStay(p) /\ cpu \in {p, NoProc}
        BY DEF OthersStay
    <2>2. \A c \in Bufs : Remains(c)
        BY DEF Remains, Has, BufTypes, memVars, Writing
    <2>a. InAllocbuf(p) => Unshared(p)'
        BY <1>c, <2>2, UnsharedStays DEF Clear, InAllocbuf, InBwrite, CallType
    <2>3. Clear(p)'
        BY <1>c, <2>a DEF Clear, InAllocbuf, InBwrite, CallType, BufTypes, Has, Writing
    <2> QED
        BY <2>1, <2>2, <2>3, RemainsCovers, UniqFrame
<1>VbwriteStart. CASE VbwriteStart(p)
    <2> USE <1>VbwriteStart DEF VbwriteStart, At
    <2>1. OthersStay(p) /\ cpu \in {p, NoProc}
        BY DEF OthersStay, Written, AfterBwrite, Return, Goto
    <2>2. \A c \in Bufs : Remains(c)
        BY DEF Remains, Has, BufTypes, memVars, Writing
    <2>3. Clear(p)'
        BY <1>c, <2>2, WrittenClear DEF Clear, InAllocbuf, InBwrite
    <2> QED
        BY <2>1, <2>2, <2>3, RemainsCovers, UniqFrame
<1>BwriteDone. CASE BwriteDone(p)
    <2> USE <1>BwriteDone DEF BwriteDone, At
    <2>1. OthersStay(p) /\ cpu \in {p, NoProc}
        BY AwakenStays DEF OthersStay, AfterBwrite, Return, Goto
    <2>2. \A c \in Bufs : Remains(c)
        BY <1>c, BrelseRemains DEF Remains, Has, InBwrite, memVars
    <2>3. Clear(p)'
        BY <1>c, <2>2, AfterBwriteClear DEF Clear, InAllocbuf, InBwrite
    <2> QED
        BY <2>1, <2>2, <2>3, RemainsCovers, UniqFrame
<1>BiowaitSleep. CASE BiowaitSleep(p)
    <2> USE <1>BiowaitSleep DEF BiowaitSleep, At, Sleep
    <2>1. OthersStay(p) /\ cpu \in {p, NoProc}
        BY DEF OthersStay
    <2>2. \A c \in Bufs : Remains(c)
        BY DEF Remains, Has, bufVars, memVars
    <2>3. Clear(p)'
        BY <1>c DEF Clear, InAllocbuf, InBwrite
    <2> QED
        BY <2>1, <2>2, <2>3, RemainsCovers, UniqFrame
<1>BiowaitDone. CASE BiowaitDone(p)
    <2> USE <1>BiowaitDone DEF BiowaitDone, At, Hold
    <2>1. OthersStay(p) /\ cpu \in {p, NoProc}
        BY DEF OthersStay
    <2>2. \A c \in Bufs : Remains(c)
        BY DEF Remains, Has, bufVars, memVars
    <2>3. Clear(p)'
        BY DEF Clear, InAllocbuf, InBwrite
    <2> QED
        BY <2>1, <2>2, <2>3, RemainsCovers, UniqFrame
<1>GotBlk. CASE GotBlk(p)
    <2> USE <1>GotBlk DEF GotBlk, At, Hold
    <2>1. OthersStay(p) /\ cpu \in {p, NoProc}
        BY DEF OthersStay
    <2>2. \A c \in Bufs : Remains(c)
        BY DEF Remains, Has, bufVars, memVars
    <2>3. Clear(p)'
        BY DEF Clear, InAllocbuf, InBwrite
    <2> QED
        BY <2>1, <2>2, <2>3, RemainsCovers, UniqFrame
<1>BreadStart. CASE BreadStart(p)
    <2> USE <1>BreadStart DEF BreadStart, At, Goto
    <2>1. OthersStay(p) /\ cpu \in {p, NoProc}
        BY DEF OthersStay
    <2>2. \A c \in Bufs : Remains(c)
        BY DEF Remains, Has, BufTypes, memVars, StartRead
    <2>3. Clear(p)'
        BY DEF Clear, InAllocbuf, InBwrite
    <2> QED
        BY <2>1, <2>2, <2>3, RemainsCovers, UniqFrame
<1>BreadaStart. CASE BreadaStart(p)
    <2> USE <1>BreadaStart DEF BreadaStart, At
    <2>1. OthersStay(p) /\ cpu \in {p, NoProc}
        BY DEF OthersStay
    <2>2. \A c \in Bufs : Remains(c)
        BY DEF Remains, Has, BufTypes, memVars, StartRead
    <2>3. Clear(p)'
        BY DEF Clear, InAllocbuf, InBwrite
    <2> QED
        BY <2>1, <2>2, <2>3, RemainsCovers, UniqFrame
<1>BreadaIncore. CASE BreadaIncore(p)
    <2> USE <1>BreadaIncore DEF BreadaIncore, AtRahead, At, Goto, FinishBreada
    <2>1. OthersStay(p) /\ cpu \in {p, NoProc}
        BY DEF OthersStay
    <2>2. \A c \in Bufs : Remains(c)
        BY DEF Remains, Has, bufVars, memVars
    <2>3. Clear(p)'
        BY DEF Clear, InAllocbuf, InBwrite
    <2> QED
        BY <2>1, <2>2, <2>3, RemainsCovers, UniqFrame
<1>BreadaGetblk. CASE BreadaGetblk(p)
    <2> USE <1>BreadaGetblk DEF BreadaGetblk, AtRahead, At, Goto
    <2>1. OthersStay(p) /\ cpu \in {p, NoProc}
        BY DEF OthersStay
    <2>2. \A c \in Bufs : Remains(c)
        BY DEF Remains, Has, bufVars, memVars
    <2>3. Clear(p)'
        BY DEF Clear, InAllocbuf, InBwrite
    <2> QED
        BY <2>1, <2>2, <2>3, RemainsCovers, UniqFrame
<1>BreadaAhead. CASE BreadaAhead(p)
    <2> USE <1>BreadaAhead DEF BreadaAhead, At, FinishBreada, Goto
    <2>1. OthersStay(p) /\ cpu \in {p, NoProc}
        BY AwakenStays DEF OthersStay
    <2>2. \A c \in Bufs : Remains(c)
        BY <1>c, BrelseRemains DEF Remains, Has, StartRead, BufTypes, memVars
    <2>3. Clear(p)'
        BY DEF Clear, InAllocbuf, InBwrite
    <2> QED
        BY <2>1, <2>2, <2>3, RemainsCovers, UniqFrame
<1>Release. CASE Release(p)
    <2> USE <1>Release DEF Release, At, Return
    <2>1. OthersStay(p) /\ cpu \in {p, NoProc}
        BY AwakenStays DEF OthersStay
    <2>2. \A c \in Bufs : Remains(c)
        BY <1>c, BrelseRemains DEF Remains, Has, memVars
    <2>3. Clear(p)'
        BY DEF Clear, InAllocbuf, InBwrite
    <2> QED
        BY <2>1, <2>2, <2>3, RemainsCovers, UniqFrame
<1>Bdwrite. CASE Bdwrite(p)
    <2> USE <1>Bdwrite DEF Bdwrite, MayModify, At, Return
    <2>1. OthersStay(p) /\ cpu \in {p, NoProc}
        BY AwakenStays DEF OthersStay
    <2>2. \A c \in Bufs : Remains(c)
        BY <1>c, BrelseRemains DEF Remains, Has, memVars
    <2>3. Clear(p)'
        BY DEF Clear, InAllocbuf, InBwrite
    <2> QED
        BY <2>1, <2>2, <2>3, RemainsCovers, UniqFrame
<1>CallWrite. CASE CallWrite(p)
    <2> USE <1>CallWrite DEF CallWrite, MayModify, At, Goto, CallBwrite
    <2>1. OthersStay(p) /\ cpu \in {p, NoProc}
        BY DEF OthersStay
    <2>2. \A c \in Bufs : Remains(c)
        BY DEF Remains, Has, BufTypes, memVars
    <2>3. Clear(p)'
        BY DEF Clear, InAllocbuf, InBwrite, CallType
    <2> QED
        BY <2>1, <2>2, <2>3, RemainsCovers, UniqFrame
<1>BdwaitSleep. CASE BdwaitSleep(p)
    <2> USE <1>BdwaitSleep DEF BdwaitSleep, At, Sleep
    <2>1. OthersStay(p) /\ cpu \in {p, NoProc}
        BY DEF OthersStay
    <2>2. \A c \in Bufs : Remains(c)
        BY DEF Remains, Has, bufVars, memVars
    <2>3. Clear(p)'
        BY DEF Clear, InAllocbuf, InBwrite
    <2> QED
        BY <2>1, <2>2, <2>3, RemainsCovers, UniqFrame
<1>BinvalfreeWrite. CASE BinvalfreeWrite(p)
    <2> USE <1>BinvalfreeWrite DEF BinvalfreeWrite, At, Goto
    <2>1. OthersStay(p) /\ cpu \in {p, NoProc}
        BY AwakenStays DEF OthersStay, BiodoneAsync
    <2>2. \A c \in Bufs : Remains(c)
        BY BrelseRemains DEF Remains, Has, memVars, BiodoneAsync, Writing, TypeOK, IOTypes
    <2>3. Clear(p)'
        BY DEF Clear, InAllocbuf, InBwrite
    <2> QED
        BY <2>1, <2>2, <2>3, RemainsCovers, UniqFrame
<1>BinvalfreeDrop. CASE BinvalfreeDrop(p)
    <2> USE <1>BinvalfreeDrop DEF BinvalfreeDrop, At, Goto
    <2>1. OthersStay(p) /\ cpu \in {p, NoProc}
        BY DEF OthersStay
    <2>2. \A c \in Bufs : Remains(c)
        BY DEF Remains, Has, BufTypes, memVars
    <2>3. Clear(p)'
        BY DEF Clear, InAllocbuf, InBwrite
    <2> QED
        BY <2>1, <2>2, <2>3, RemainsCovers, UniqFrame
<1>BiodDrop. CASE BiodDrop(p)
    <2> USE <1>BiodDrop DEF BiodDrop, NoneDroppable, At, Goto
    <2>1. OthersStay(p) /\ cpu \in {p, NoProc}
        BY AwakenStays DEF OthersStay, BiodoneAsync
    <2>2. \A c \in Bufs : Remains(c)
        BY BrelseRemains DEF Remains, Has, memVars, BiodoneAsync, Writing, TypeOK, IOTypes
    <2>3. Clear(p)'
        BY DEF Clear, InAllocbuf, InBwrite
    <2> QED
        BY <2>1, <2>2, <2>3, RemainsCovers, UniqFrame
<1>FlushReturn. CASE FlushReturn(p)
    <2> USE <1>FlushReturn DEF FlushReturn, NoneDroppable, At, Return
    <2>1. OthersStay(p) /\ cpu \in {p, NoProc}
        BY DEF OthersStay
    <2>2. \A c \in Bufs : Remains(c)
        BY DEF Remains, Has, bufVars, memVars
    <2>3. Clear(p)'
        BY DEF Clear, InAllocbuf, InBwrite
    <2> QED
        BY <2>1, <2>2, <2>3, RemainsCovers, UniqFrame
<1> QED
    BY <1>GetblkFind, <1>GetblkMiss, <1>GetblkBusy, <1>GetblkHit, <1>NoFreeBuf, <1>NewBuf,
       <1>WriteBehind, <1>BreallocSame, <1>BreallocDirty, <1>BreallocShrink,
       <1>BreallocGrow, <1>OverlapBusy, <1>OverlapDirty, <1>OverlapClean, <1>OverlapNone,
       <1>Allocbuf, <1>AllocbufSteal, <1>Steal, <1>BwriteStart, <1>VbwriteGather,
       <1>VbwriteStart, <1>BwriteDone, <1>BiowaitSleep, <1>BiowaitDone, <1>GotBlk,
       <1>BreadStart, <1>BreadaStart, <1>BreadaIncore, <1>BreadaGetblk, <1>BreadaAhead,
       <1>Release, <1>Bdwrite, <1>CallWrite, <1>BdwaitSleep, <1>BinvalfreeWrite,
       <1>BinvalfreeDrop, <1>BiodDrop, <1>FlushReturn DEF Step

\* Nor does a call map anything
LEMMA UniqCall ==
    ASSUME TypeOK, UniqInv, NEW p \in Procs, CallOp(p) PROVE UniqInv'
<1>t. /\ BufTypes /\ MemTypes /\ pc \in [Procs -> Labels] /\ call \in [Procs -> CallType]
    BY DEF TypeOK, ProcTypes
<1>1. ASSUME NEW o, NEW w, NEW n, NEW l \in {"getblk", "newbuf", "rahead", "bflush", "bdwait",
                                             "blkflush", "binvalfree"},
             Call(p, o, w, n, l)
      PROVE  UniqInv'
    <2> USE <1>t, <1>1 DEF Call, At, Goto, bufVars, memVars
    <2>1. OthersStay(p) /\ Clear(p)' /\ cpu \in {p, NoProc}
        BY DEF OthersStay, Clear, InAllocbuf, InBwrite
    <2>2. \A b \in Bufs : Remains(b)
        BY DEF Remains, Has
    <2> QED
        BY <2>1, <2>2, RemainsCovers, UniqFrame
<1>2. CASE CallBreada(p)
    BY <1>1, <1>2 DEF CallBreada
<1>3. CASE CallRead(p) \/ CallFlush(p)
    BY <1>1, <1>3 DEF CallRead, CallFlush
<1>4. CASE Binval(p)
    <2> USE <1>t, <1>4 DEF Binval, At
    <2>1. OthersStay(p) /\ Clear(p)' /\ cpu \in {p, NoProc}
        BY DEF OthersStay, Clear, InAllocbuf, InBwrite
    <2>2. \A b \in Bufs : Remains(b)
        BY DEF Remains, Has, BufTypes, memVars
    <2> QED
        BY <2>1, <2>2, RemainsCovers, UniqFrame
<1> QED
    BY <1>2, <1>3, <1>4 DEF CallOp

\* Nor does the end of a request; a process in allocbuf keeps the processor meanwhile
LEMMA UniqDone ==
    ASSUME TypeOK, Located, OwnInv, UniqInv, NEW b \in Bufs, IODone(b) PROVE UniqInv'
<1>t. BufTypes /\ MemTypes
    BY DEF TypeOK
<1>p. pc' = pc /\ call' = call /\ cpu' = cpu
    BY DEF IODone, BiodTake, IODoneAsync, IODoneSync
<1>1. /\ \A c \in Bufs : Remains(c)
      /\ \A c \in Bufs \ pend : flags'[c] = flags[c]
    <2>1. CASE BiodTake(b)
        BY <1>t, <2>1 DEF BiodTake, bufVars, memVars, Remains, Has
    <2>2. CASE IODoneSync(b)
        BY <1>t, <2>2 DEF IODoneSync, Completes, Remains, Has, BufTypes, memVars
    <2>3. CASE IODoneAsync(b)
        <3>1. PICK F \in {flags[b] \cup {"DONE"}, flags[b] \cup {"DONE", "ERROR"}},
                   H \in {Transferred(b), Failed(b)} : Brelse(b, F, bufsize[b], H)
            BY <2>3 DEF IODoneAsync, BiodoneAsync
        <3>2. bcount' = bcount /\ b \in pend
            BY <2>3 DEF IODoneAsync, Completes, memVars
        <3>3. \A c \in Bufs : Remains(c)
            BY <3>1, <3>2, BrelseRemains DEF Has
        <3> QED
            BY <1>t, <3>1, <3>2, <3>3, BrelseMap
    <2> QED
        BY <2>1, <2>2, <2>3 DEF IODone
<1>2. ASSUME NEW q \in Procs PROVE Clear(q)'
    <2>1. SUFFICES ASSUME InAllocbuf(q) PROVE Clear(q)'
        BY <1>p DEF Clear, InAllocbuf, InBwrite
    <2>2. Clear(q) /\ call[q].bp \in Bufs
        BY <2>1 DEF UniqInv, InAllocbuf, Located
    <2>3. Unshared(q)'
        BY <1>p, <1>1, <2>1, <2>2, UnsharedStays DEF Clear
    <2>4. InBwrite(q) => Has(call[q].ep, "ASYNC")'
        <3>1. SUFFICES ASSUME InBwrite(q) PROVE Has(call[q].ep, "ASYNC")'
            OBVIOUS
        <3>2. PICK c \in Bufs : c = call[q].ep
            BY <3>1 DEF Located
        <3>3. Has(c, "ASYNC") /\ c \notin pend
            BY <2>1, <2>2, <3>1, <3>2 DEF Clear, OwnInv, ProcKept, EpKept, InBwrite
        <3> QED
            BY <1>p, <1>1, <3>2, <3>3 DEF Has
    <2> QED
        BY <1>p, <2>1, <2>2, <2>3, <2>4 DEF Clear, InBwrite
<1> QED
    BY <1>1, <1>2, RemainsCovers, UniqueStays DEF UniqInv

\* No two valid buffers of a device overlap, as the comment of brealloc demands, as long as
\* allocbuf need not sleep for a free buffer: while it sleeps, others get buffers that overlap.
\* For an NFS file it may sleep in nfs_strategy too, when no daemon is idle.
THEOREM UniqueMappingHolds ==
    ASSUME Vio => ~GetmemSleeps, ~Nfs PROVE Spec /\ []NoSleepInAllocbuf => []UniqueMapping
<1>1. Init => UniqInv
    BY DEF Init, UniqInv, UniqueMapping, Clear, InAllocbuf, InBwrite, Has
<1>2. TypeOK /\ Located /\ OwnInv /\ MapInv /\ UniqInv /\ NoSleepInAllocbuf' /\ [Next]_vars
      => UniqInv'
    <2> SUFFICES ASSUME TypeOK, Located, OwnInv, MapInv, UniqInv, NoSleepInAllocbuf', [Next]_vars
                 PROVE  UniqInv'
        OBVIOUS
    <2>1. CASE UNCHANGED vars
        <3>1. \A b \in Bufs : Remains(b) /\ flags'[b] = flags[b]
            BY <2>1 DEF vars, bufVars, memVars, Remains, Has
        <3>2. UniqueMapping'
            BY <3>1, RemainsCovers, UniqueStays DEF UniqInv
        <3>3. \A p \in Procs : Clear(p)'
            BY <2>1 DEF vars, bufVars, memVars, UniqInv, Clear, InAllocbuf, InBwrite, Unshared,
               Overlapping, WantExtent, Extent, Has
        <3> QED
            BY <3>2, <3>3 DEF UniqInv
    <2>2. CASE Next
        BY <2>2, UniqStep, UniqCall, UniqDone DEF Next
    <2> QED
        BY <2>1, <2>2
<1>3. UniqInv => UniqueMapping
    BY DEF UniqInv
<1> QED
    BY <1>1, <1>2, <1>3, MapKept, OwnersKept, TypeCorrect, PTL DEF Spec

-----------------------------------------------------------------------------
(* The contents: the invariant                                             *)

\* p is about to write b, or has failed to
DirtyAt(p, b) == /\ call[p].ep = b
                 /\ \/ pc[p] \in {"bwrite", "getmem"}
                    \/ pc[p] = "bwritewait" /\ Has(b, "ERROR")

\* The contents of b are not on the device: it is a delayed write, or is written
Dirty(b) == \/ Has(b, "DELWRI")
            \/ b \in pend /\ ~Has(b, "READ")
            \/ \E p \in Procs : DirtyAt(p, b)

Valid(b) == flags[b] \cap {"DONE", "ERROR"} = {"DONE"}

\* b has the latest contents of all that it maps
Full(b) == \A u \in Covers(b) \ lost : b \in fresh[u]

FlagsData(b) == /\ "NOCACHE" \notin flags[b]
                /\ Has(b, "DELWRI") => Has(b, "DONE")
                /\ Has(b, "DELWRI") \/ b \in pend => ~Has(b, "INVAL")
                /\ ~({"BUSY", "INVAL", "DONE"} \subseteq flags[b])
BufData(b) == /\ FlagsData(b)
              /\ Covers(b) \subseteq Units
              /\ Dirty(b) \/ Valid(b) => Full(b)

\* Only a buffer that maps u has its latest contents, and there are some unless they are lost;
\* they are on the device, or are going to be written
UnitData(u) == /\ \A b \in Bufs : b \in fresh[u] => u \in Covers(b)
               /\ u \in lost => fresh[u] = {}
               /\ u \in lost \/ Disk \in fresh[u] \/ \E b \in Bufs : b \in fresh[u] /\ Dirty(b)

\* What is known of the buffers of p at each place
Growing(p) == \/ pc[p] \in {"overlap", "allocbuf", "steal"}
              \/ InBwrite(p) /\ call[p].ret \in {"overlap", "steal"}
BpData(p) == /\ Growing(p) => /\ flags[call[p].bp] \cap {"DONE", "DELWRI"} = {}
                              /\ bcount[call[p].bp] < Size(p)
             /\ pc[p] = "hit" => ~Has(call[p].bp, "INVAL")
             /\ pc[p] \in {"brealloc", "got", "held", "biowait"} \/ Growing(p)
                => call[p].op = "geteblk" \/ ~Has(call[p].bp, "INVAL")
             /\ pc[p] = "biowait" /\ call[p].bp \in pend => Has(call[p].bp, "READ")
EpData(p) == /\ InBwrite(p) => ~Has(call[p].ep, "INVAL")
             /\ pc[p] = "getmem" => flags[call[p].ep] \cap {"READ", "DONE", "ERROR", "DELWRI"} = {}
             /\ pc[p] = "bwritewait" /\ call[p].ep \in pend
                => flags[call[p].ep] \cap {"READ", "ERROR"} = {}
FirstData(p) == call[p].first # NoBuf => /\ ~Has(call[p].first, "INVAL")
                                         /\ call[p].first \in pend => Has(call[p].first, "READ")
WantData(p) == /\ call[p].want[1] # NoBlk => call[p].want \in Blocks
               /\ call[p].next[1] # NoBlk => call[p].next \in Blocks
               /\ pc[p] # "binvalfree"
GatherData(p) == pc[p] = "getmem" => \A b \in call[p].gset : Has(b, "DELWRI")
PlaceData(p) == BpData(p) /\ EpData(p) /\ FirstData(p) /\ WantData(p) /\ GatherData(p)

DataInv == /\ \A b \in Bufs : BufData(b)
           /\ \A u \in Units : UnitData(u)
           /\ \A p \in Procs : PlaceData(p)

-----------------------------------------------------------------------------
(* What follows from it                                                    *)

\* The buffer that maps u is the only one that may have its latest contents
LEMMA OneFresh ==
    ASSUME UniqueMapping, DataInv, NEW u \in Units, NEW b \in Bufs, NEW c \in Bufs,
           b \in fresh[u], u \in Covers(c)
    PROVE  b = c
BY MappedOnce DEF DataInv, UnitData

\* What a clean buffer maps is on the device
LEMMA CleanOnDisk ==
    ASSUME UniqueMapping, DataInv, NEW b \in Bufs, ~Dirty(b), NEW u \in Covers(b) \ lost
    PROVE  u \in Units /\ Disk \in fresh[u]
<1>1. u \in Units
    BY DEF DataInv, BufData
<1>2. UnitData(u)
    BY <1>1 DEF DataInv
<1>3. ASSUME NEW c \in Bufs, c \in fresh[u], Dirty(c) PROVE FALSE
    BY <1>1, <1>3, OneFresh
<1> QED
    BY <1>1, <1>2, <1>3 DEF UnitData

\* Who writes a buffer has it
LEMMA DirtyHeld ==
    ASSUME NEW p \in Procs, NEW b \in Bufs, DirtyAt(p, b) PROVE b \in Holds(p) /\ InBwrite(p)
BY DEF DirtyAt, Holds, InBwrite

\* A buffer is clean when it is on a free list and not a delayed write
LEMMA FreeClean ==
    ASSUME TypeOK, Located, OwnInv, NEW b \in Bufs, ~Has(b, "BUSY"), ~Has(b, "DELWRI")
    PROVE  ~Dirty(b)
<1>1. b \notin pend
    BY DEF OwnInv, BufferKept
<1>2. ASSUME NEW p \in Procs, DirtyAt(p, b) PROVE FALSE
    BY <1>2, DirtyHeld, HeldBusy DEF OwnInv
<1> QED
    BY <1>1, <1>2 DEF Dirty

\* So is one that p has, if it does not write it
LEMMA HeldClean ==
    ASSUME OwnInv, NEW p \in Procs, NEW b \in Bufs, b \in Holds(p), ~DirtyAt(p, b),
           ~Has(b, "DELWRI"), b \in pend => Has(b, "READ")
    PROVE  ~Dirty(b)
<1>1. ASSUME NEW q \in Procs, DirtyAt(q, b) PROVE FALSE
    BY <1>1, DirtyHeld DEF OwnInv
<1> QED
    BY <1>1 DEF Dirty

-----------------------------------------------------------------------------
(* Frames                                                                  *)

\* The invariant says the same of b after the step, but for who has it
SameData(b) == /\ \A f \in {"DONE", "DELWRI", "INVAL", "READ", "ERROR", "NOCACHE"} :
                      Has(b, f)' <=> Has(b, f)
               /\ b \in pend' <=> b \in pend
               /\ bcount'[b] = bcount[b]

\* The buffers that a step of p may change
Free(p, b) == b \in Holds(p) \/ ~Has(b, "BUSY") \/ OnDevice(b)

\* The others keep what they have
LEMMA PlaceStays ==
    ASSUME TypeOK, Located, NEW q \in Procs, PlaceData(q), pc'[q] = pc[q], call'[q] = call[q],
           pc[q] = "hit" => (Has(call[q].bp, "INVAL")' => Has(call[q].bp, "INVAL")),
           pc[q] = "getmem" => \A b \in call[q].gset : Has(b, "DELWRI")',
           \A b \in Bufs : b \in Holds(q) => SameData(b)
    PROVE  PlaceData(q)' /\ \A b \in Bufs : DirtyAt(q, b)' <=> DirtyAt(q, b)
<1>t. NoBuf \notin Bufs /\ call[q] \in CallType
    BY BufsAssumption DEF TypeOK, ProcTypes
<1>p. /\ Growing(q)' <=> Growing(q)
      /\ InBwrite(q)' <=> InBwrite(q)
      /\ Size(q)' = Size(q)
    BY DEF Growing, InBwrite, Size
<1>1. BpData(q)'
    <2>1. CASE pc[q] \in {"brealloc", "got", "held", "biowait"} \/ Growing(q)
        <3>1. PICK b \in Bufs : b = call[q].bp /\ b \in Holds(q)
            BY <2>1 DEF Located, Holds, Growing, InBwrite
        <3>2. SameData(b)
            BY <3>1
        <3> QED
            BY <1>p, <2>1, <3>1, <3>2 DEF PlaceData, BpData, SameData, Has
    <2>2. CASE pc[q] \notin {"brealloc", "got", "held", "biowait"} /\ ~Growing(q)
        BY <1>p, <2>2 DEF PlaceData, BpData, Has
    <2> QED
        BY <2>1, <2>2
<1>2. EpData(q)'
    <2>1. SUFFICES ASSUME InBwrite(q) PROVE EpData(q)'
        BY <1>p DEF EpData, InBwrite
    <2>2. PICK b \in Bufs : b = call[q].ep /\ b \in Holds(q)
        BY <2>1 DEF Located, Holds
    <2>3. SameData(b)
        BY <2>2
    <2> QED
        BY <1>p, <2>2, <2>3 DEF PlaceData, EpData, SameData, Has
<1>3. FirstData(q)'
    <2>1. SUFFICES ASSUME call[q].first # NoBuf PROVE FirstData(q)'
        BY DEF FirstData
    <2>2. PICK b \in Bufs : b = call[q].first /\ b \in Holds(q)
        BY <1>t, <2>1 DEF CallType, Holds
    <2>3. SameData(b)
        BY <2>2
    <2> QED
        BY <2>2, <2>3 DEF PlaceData, FirstData, SameData, Has
<1>4. WantData(q)'
    BY DEF PlaceData, WantData
<1>6. GatherData(q)'
    BY DEF GatherData, Has
<1>5. ASSUME NEW b \in Bufs PROVE DirtyAt(q, b)' <=> DirtyAt(q, b)
    <2>1. CASE InBwrite(q) /\ call[q].ep = b
        <3>1. SameData(b)
            BY <2>1 DEF Holds
        <3> QED
            BY <3>1 DEF DirtyAt, SameData
    <2>2. CASE ~(InBwrite(q) /\ call[q].ep = b)
        BY <2>2 DEF DirtyAt, InBwrite
    <2> QED
        BY <2>1, <2>2
<1> QED
    BY <1>1, <1>2, <1>3, <1>4, <1>5, <1>6 DEF PlaceData

\* A step of p leaves the others what they have
LEMMA OthersData ==
    ASSUME TypeOK, Located, OwnInv, MapInv, DataInv, NEW p \in Procs, cpu \in {p, NoProc},
           OthersStay(p), \A b \in Bufs : SameData(b) \/ Free(p, b)
    PROVE  \A q \in Procs \ {p} : /\ PlaceData(q)'
                                  /\ \A b \in Bufs : DirtyAt(q, b)' <=> DirtyAt(q, b)
<1> TAKE q \in Procs \ {p}
<1>1. pc[q] \notin {"hit", "getmem"} /\ pc'[q] = pc[q] /\ call'[q] = call[q] /\ PlaceData(q)
    BY ProcsAssumption, Alone DEF MapInv, Finding, OthersStay, DataInv
<1>2. ASSUME NEW b \in Bufs, b \in Holds(q) PROVE SameData(b)
    BY <1>2, HeldBusy DEF OwnInv, Free
<1> QED
    BY <1>1, <1>2, PlaceStays

\* Where the contents stay, it is enough to look at each buffer
BufStep(b) ==
    /\ FlagsData(b)'
    /\ Covers(b) \subseteq Covers(b)' /\ Covers(b)' \subseteq Units
    /\ Dirty(b) => Dirty(b)'
    /\ (Dirty(b) \/ Valid(b))' => (Dirty(b) \/ Valid(b)) /\ Covers(b)' = Covers(b)

LEMMA DataFrame ==
    ASSUME DataInv, fresh' = fresh, lost' = lost, \A b \in Bufs : BufStep(b),
           \A p \in Procs : PlaceData(p)'
    PROVE  DataInv'
<1>1. ASSUME NEW b \in Bufs PROVE BufData(b)'
    BY DEF DataInv, BufData, BufStep, Full
<1>2. ASSUME NEW u \in Units PROVE UnitData(u)'
    BY DEF DataInv, UnitData, BufStep
<1> QED
    BY <1>1, <1>2 DEF DataInv

\* A buffer that is only taken or wanted
Marked(b) == /\ flags[b] \subseteq flags'[b]
             /\ flags'[b] \subseteq flags[b] \cup {"BUSY", "ASYNC", "WANTED"}
             /\ Has(b, "BUSY")' => Has(b, "BUSY") \/ ~({"INVAL", "DONE"} \subseteq flags[b])

LEMMA QuietBuf ==
    ASSUME DataInv, NEW b \in Bufs, Marked(b), blk'[b] = blk[b], bcount'[b] = bcount[b],
           b \in pend' <=> b \in pend,
           \A q \in Procs : \/ DirtyAt(q, b)' <=> DirtyAt(q, b)
                            \/ Has(b, "DELWRI")
    PROVE  BufStep(b) /\ SameData(b)
<1>1. SameData(b)
    BY DEF Marked, SameData, Has
<1>2. FlagsData(b)'
    BY DEF Marked, DataInv, BufData, FlagsData, Has
<1>3. Covers(b)' = Covers(b) /\ Covers(b) \subseteq Units
    BY <1>1 DEF SameData, Covers, Extent, DataInv, BufData
<1>4. Dirty(b)' <=> Dirty(b)
    BY <1>1 DEF SameData, Dirty
<1>5. Valid(b)' <=> Valid(b)
    BY DEF Marked, Valid
<1> QED
    BY <1>1, <1>2, <1>3, <1>4, <1>5 DEF BufStep

LEMMA QuietStep ==
    ASSUME TypeOK, Located, OwnInv, MapInv, DataInv, NEW p \in Procs, cpu \in {p, NoProc},
           OthersStay(p), fresh' = fresh, lost' = lost, blk' = blk, bcount' = bcount, pend' = pend,
           \A b \in Bufs : Marked(b),
           \A b \in Bufs : (DirtyAt(p, b)' <=> DirtyAt(p, b)) \/ Has(b, "DELWRI"),
           PlaceData(p)'
    PROVE  DataInv'
<1>1. \A b \in Bufs : SameData(b)
    BY DEF Marked, SameData, Has
<1>2. \A q \in Procs \ {p} : /\ PlaceData(q)'
                             /\ \A b \in Bufs : DirtyAt(q, b)' <=> DirtyAt(q, b)
    BY <1>1, OthersData
<1>3. \A b \in Bufs : BufStep(b)
    BY <1>2, QuietBuf
<1> QED
    BY <1>2, <1>3, DataFrame

-----------------------------------------------------------------------------
(* The release of a buffer                                                 *)

\* brelse(b): H is where the contents are then, F the flags of b.  What only b has is kept when b
\* is a delayed write, and is lost when there was an error
LEMMA BrelseData ==
    ASSUME TypeOK, UniqueMapping, DataInv, NEW b \in Bufs, NEW F \in SUBSET Flags, NEW n,
           NEW H \in [Units -> SUBSET (Bufs \cup {Disk})],
           Brelse(b, F, n, H), bcount' = bcount, pend' = pend \ {b},
           \A c \in Bufs \ {b} : Dirty(c)' <=> Dirty(c),
           Dirty(b)' => "DELWRI" \in F,
           "DELWRI" \in F => "DONE" \in F /\ F \cap {"INVAL", "NOCACHE"} = {},
           Has(b, "INVAL") => "INVAL" \in F,
           \A u \in Units : \A c \in Bufs : c \in H[u] => u \in Covers(c),
           \A u \in Units : \/ u \in lost /\ H[u] = {}
                            \/ Disk \in H[u]
                            \/ \E c \in Bufs \ {b} : c \in H[u] /\ Dirty(c)
                            \/ b \in H[u] /\ F \cap {"DELWRI", "ERROR"} # {},
           \A c \in Bufs \ {b} : Dirty(c) \/ Valid(c) =>
               \A u \in Covers(c) : (u \in lost /\ H[u] = {}) \/ c \in H[u],
           F \cap {"DELWRI", "DONE"} # {} /\ F \cap {"ERROR", "INVAL", "NOCACHE"} = {} =>
               \A u \in Covers(b) : (u \in lost /\ H[u] = {}) \/ b \in H[u]
    PROVE  /\ \A c \in Bufs : BufData(c)'
           /\ \A u \in Units : UnitData(u)'
<1>t. BufTypes /\ HistTypes /\ Disk \notin Bufs
    BY BufsAssumption DEF TypeOK
<1> DEFINE G == IF "NOCACHE" \in F THEN F \cup {"INVAL"} ELSE F
           dead == {"ERROR", "INVAL"} \cap G # {}
<1>f. /\ flags'[b] = Released(G)
      /\ blk'[b] = (IF "ERROR" \in G THEN NoBlk ELSE blk[b])
      /\ \A c \in Bufs \ {b} : flags'[c] = flags[c] /\ blk'[c] = blk[c]
    BY <1>t DEF Brelse, BufTypes
<1>h. /\ fresh' = IF dead THEN [u \in Units |-> H[u] \ {b}] ELSE H
      /\ lost' = {u \in lost : H[u] = {}} \cup {u \in Units : "ERROR" \in G /\ H[u] = {b}}
    BY DEF Brelse
<1>n. \A c \in Bufs \ {b} : Covers(c)' = Covers(c)
    BY <1>f DEF Covers, Extent, Has
<1>b. Covers(b)' = (IF dead THEN {} ELSE Covers(b)) /\ Covers(b) \subseteq Units
    BY <1>f DEF Covers, Extent, Has, Released, DataInv, BufData
<1>1. ASSUME NEW u \in Units PROVE UnitData(u)'
    <2>1. ASSUME NEW c \in Bufs, c \in fresh'[u] PROVE u \in Covers(c)'
        <3>1. c \in H[u] /\ (dead => c # b)
            BY <1>h, <2>1
        <3> QED
            BY <1>n, <1>b, <3>1
    <2>2. u \in lost' => fresh'[u] = {}
        BY <1>h
    <2>3. u \in lost' \/ Disk \in fresh'[u] \/ \E c \in Bufs : c \in fresh'[u] /\ Dirty(c)'
        <3>1. CASE u \in lost /\ H[u] = {}
            BY <1>h, <3>1
        <3>2. CASE Disk \in H[u]
            BY <1>h, <1>t, <3>2
        <3>3. CASE \E c \in Bufs \ {b} : c \in H[u] /\ Dirty(c)
            BY <1>h, <3>3
        <3>4. CASE b \in H[u] /\ Disk \notin H[u] /\ "ERROR" \in F
            <4>1. \A c \in Bufs : c \in H[u] => c = b
                BY <3>4, MappedOnce
            <4>2. H[u] = {b}
                BY <3>4, <4>1
            <4> QED
                BY <1>h, <3>4, <4>2
        <3>5. CASE b \in H[u] /\ "ERROR" \notin F /\ "DELWRI" \in F
            <4>1. ~dead
                BY <3>5
            <4>2. b \in fresh'[u]
                BY <1>h, <3>5, <4>1
            <4>3. Has(b, "DELWRI")'
                BY <1>f, <3>5 DEF Has, Released
            <4> QED
                BY <4>2, <4>3 DEF Dirty
        <3> QED
            BY <3>1, <3>2, <3>3, <3>4, <3>5
    <2> QED
        BY <2>1, <2>2, <2>3 DEF UnitData
<1>2. ASSUME NEW c \in Bufs \ {b} PROVE BufData(c)'
    <2>1. FlagsData(c)' /\ (Valid(c)' <=> Valid(c)) /\ (Dirty(c)' <=> Dirty(c))
        BY <1>f DEF DataInv, BufData, FlagsData, Valid, Has
    <2>2. ASSUME Dirty(c) \/ Valid(c), NEW u \in Covers(c), u \notin lost' PROVE c \in fresh'[u]
        <3>1. u \in Units
            BY DEF DataInv, BufData
        <3>2. c \in H[u]
            BY <1>h, <2>2
        <3> QED
            BY <1>h, <3>1, <3>2
    <2>3. Full(c)' \/ ~(Dirty(c) \/ Valid(c))
        BY <1>n, <2>2 DEF Full
    <2> QED
        BY <1>n, <2>1, <2>3 DEF BufData, DataInv
<1>3. BufData(b)'
    <2>1. FlagsData(b)'
        BY <1>f DEF FlagsData, Has, Released
    <2>2. CASE dead
        BY <1>b, <2>1, <2>2 DEF BufData, Full
    <2>3. CASE ~dead /\ F \cap {"DELWRI", "DONE"} # {}
        <3>1. ASSUME NEW u \in Covers(b), u \notin lost' PROVE b \in fresh'[u]
            BY <1>h, <2>3, <3>1
        <3> QED
            BY <1>b, <2>1, <2>3, <3>1 DEF BufData, Full
    <2>4. CASE ~dead /\ F \cap {"DELWRI", "DONE"} = {}
        <3>1. ~Dirty(b)' /\ ~Valid(b)'
            BY <1>f, <2>4 DEF Valid, Released
        <3> QED
            BY <1>b, <2>1, <2>4, <3>1 DEF BufData
    <2> QED
        BY <2>2, <2>3, <2>4
<1> QED
    BY <1>1, <1>2, <1>3

\* p releases a buffer and leaves the contents of the device as they are
LEMMA ReleaseStep ==
    ASSUME TypeOK, Located, OwnInv, MapInv, UniqueMapping, DataInv, NEW p \in Procs,
           cpu \in {p, NoProc}, OthersStay(p),
           NEW b \in Bufs, b \in Holds(p) \/ ~Has(b, "BUSY"), b \notin pend,
           NEW F \in SUBSET Flags, flags[b] \subseteq F,
           F \subseteq flags[b] \cup {"AGE", "NOCACHE", "INVAL"},
           "DELWRI" \in F => F \cap {"INVAL", "NOCACHE"} = {},
           Dirty(b) => F \cap {"DELWRI", "ERROR"} # {},
           Brelse(b, F, bufsize[b], fresh), bcount' = bcount, pend' = pend,
           InBwrite(p) => call[p].ep = b, ~InBwrite(p)', PlaceData(p)'
    PROVE  DataInv'
<1>t. BufTypes /\ HistTypes
    BY DEF TypeOK
<1>1. \A c \in Bufs \ {b} : SameData(c)
    BY <1>t, BrelseKept DEF SameData, Has, BufTypes
<1>2. Free(p, b)
    BY DEF Free
<1>3. \A q \in Procs \ {p} : /\ PlaceData(q)'
                             /\ \A c \in Bufs : DirtyAt(q, c)' <=> DirtyAt(q, c)
    BY <1>1, <1>2, OthersData
<1>4. ASSUME NEW c \in Bufs \ {b} PROVE Dirty(c)' <=> Dirty(c)
    <2>1. ~DirtyAt(p, c) /\ ~DirtyAt(p, c)'
        BY DEF DirtyAt, InBwrite
    <2>2. SameData(c)
        BY <1>1
    <2> QED
        BY <1>3, <2>1, <2>2 DEF Dirty, SameData
<1>5. Dirty(b)' => "DELWRI" \in F
    <2>1. Has(b, "DELWRI")' => "DELWRI" \in F
        BY <1>t DEF Brelse, Released, Has, BufTypes
    <2>2. ASSUME NEW q \in Procs, DirtyAt(q, b)' PROVE FALSE
        <3>1. q # p
            BY <2>2 DEF DirtyAt, InBwrite
        <3>2. b \in Holds(q)
            BY <1>3, <2>2, <3>1, DirtyHeld
        <3>3. Has(b, "BUSY")
            BY <3>2, HeldBusy DEF OwnInv
        <3> QED
            BY <3>1, <3>2, <3>3 DEF OwnInv
    <2> QED
        BY <2>1, <2>2 DEF Dirty
<1>6. "DELWRI" \in F => "DONE" \in F
    BY DEF DataInv, BufData, FlagsData, Has
<1>7. \A u \in Units : \A c \in Bufs : c \in fresh[u] => u \in Covers(c)
    BY DEF DataInv, UnitData
<1>8. \A u \in Units : \/ u \in lost /\ fresh[u] = {}
                       \/ Disk \in fresh[u]
                       \/ \E c \in Bufs \ {b} : c \in fresh[u] /\ Dirty(c)
                       \/ b \in fresh[u] /\ F \cap {"DELWRI", "ERROR"} # {}
    BY DEF DataInv, UnitData
<1>9. \A c \in Bufs \ {b} : Dirty(c) \/ Valid(c) =>
          \A u \in Covers(c) : (u \in lost /\ fresh[u] = {}) \/ c \in fresh[u]
    BY DEF DataInv, UnitData, BufData, Full
<1>10. F \cap {"DELWRI", "DONE"} # {} /\ F \cap {"ERROR", "INVAL", "NOCACHE"} = {} =>
           \A u \in Covers(b) : (u \in lost /\ fresh[u] = {}) \/ b \in fresh[u]
    <2>1. F \cap {"DELWRI", "DONE"} # {} /\ F \cap {"ERROR", "INVAL", "NOCACHE"} = {}
          => Dirty(b) \/ Valid(b)
        BY DEF Dirty, Valid, Has
    <2> QED
        BY <2>1 DEF DataInv, UnitData, BufData, Full
<1>11. fresh \in [Units -> SUBSET (Bufs \cup {Disk})] /\ (Has(b, "INVAL") => "INVAL" \in F)
       /\ pend' = pend \ {b}
    BY <1>t DEF HistTypes, HistType, Has
<1>12. /\ \A c \in Bufs : BufData(c)'
       /\ \A u \in Units : UnitData(u)'
    BY <1>4, <1>5, <1>6, <1>7, <1>8, <1>9, <1>10, <1>11, BrelseData
<1> QED
    BY <1>3, <1>12 DEF DataInv

-----------------------------------------------------------------------------
(* Other steps that change the contents                                    *)

\* Clean buffers are given up
LEMMA GiveUp ==
    ASSUME TypeOK, UniqueMapping, DataInv, NEW S \in SUBSET Bufs, \A b \in S : ~Dirty(b),
           fresh' = [u \in Units |-> fresh[u] \ S], lost' = lost,
           \A b \in S : FlagsData(b)' /\ Covers(b)' = {},
           \A b \in Bufs \ S : BufStep(b) /\ Covers(b)' = Covers(b),
           \A p \in Procs : PlaceData(p)'
    PROVE  DataInv'
<1>t. Disk \notin Bufs
    BY BufsAssumption
<1>1. ASSUME NEW b \in Bufs PROVE BufData(b)'
    <2>1. CASE b \in S
        BY <2>1 DEF BufData, Full
    <2>2. CASE b \notin S
        BY <2>2 DEF DataInv, BufData, BufStep, Full
    <2> QED
        BY <2>1, <2>2
<1>2. ASSUME NEW u \in Units PROVE UnitData(u)'
    <2>1. \A b \in Bufs : b \in fresh'[u] => u \in Covers(b)'
        BY DEF DataInv, UnitData
    <2>2. u \in lost' => fresh'[u] = {}
        BY DEF DataInv, UnitData
    <2>3. u \in lost' \/ Disk \in fresh'[u] \/ \E b \in Bufs : b \in fresh'[u] /\ Dirty(b)'
        BY <1>t DEF DataInv, UnitData, BufStep
    <2> QED
        BY <2>1, <2>2, <2>3 DEF UnitData
<1> QED
    BY <1>1, <1>2 DEF DataInv

-----------------------------------------------------------------------------
(* The steps                                                               *)

\* The buffers that p keeps stay as they are, when none changes
LEMMA MarkedStays ==
    ASSUME TypeOK, NEW p \in Procs, FirstData(p), \A b \in Bufs : SameData(b),
           call'[p].first = call[p].first
    PROVE  FirstData(p)'
<1>1. CASE call[p].first = NoBuf
    BY <1>1 DEF FirstData
<1>2. CASE call[p].first # NoBuf
    <2>1. PICK b \in Bufs : b = call[p].first
        BY <1>2 DEF TypeOK, ProcTypes, CallType
    <2>2. SameData(b)
        BY <2>1
    <2> QED
        BY <2>1, <2>2 DEF FirstData, SameData
<1> QED
    BY <1>1, <1>2

\* bwrite returns
LEMMA AfterBwriteData ==
    ASSUME TypeOK, Located, NEW p \in Procs, ProcKept(p), PlaceData(p), InBwrite(p),
           AfterBwrite(p), \A c \in Holds(p) \ {call[p].ep} : SameData(c)
    PROVE  PlaceData(p)' /\ ~InBwrite(p)'
<1>t. /\ pc \in [Procs -> Labels] /\ call \in [Procs -> CallType] /\ call[p].ret \in Returns
      /\ call[p] \in CallType /\ NoBuf \notin Bufs
    BY BufsAssumption DEF TypeOK, ProcTypes, CallType
<1>1. CASE call[p].ret = "idle" /\ Return(p)
    BY <1>t, <1>1 DEF Return, PlaceData, BpData, EpData, FirstData, WantData, GatherData, Growing,
       InBwrite, NoCall, NoWant
<1>2. CASE /\ call[p].ret # "idle"
           /\ Goto(p, call[p].ret)
           /\ call' = [call EXCEPT ![p] =
                  [@ EXCEPT !.ep = NoBuf, !.ret = "idle", !.gset = {},
                            !.bp = IF call[p].ret = "getblk" THEN NoBuf ELSE call[p].bp]]
    <2>1. /\ pc'[p] = call[p].ret /\ call'[p].want = call[p].want
          /\ call'[p].next = call[p].next /\ call'[p].op = call[p].op
          /\ call'[p].first = call[p].first
          /\ call[p].ret # "getblk" => call'[p].bp = call[p].bp
        BY <1>2, <1>t DEF Goto, CallType
    <2>2. ~InBwrite(p)'
        BY <1>t, <2>1 DEF InBwrite, Returns
    <2>3. BpData(p)'
        <3>1. CASE call[p].ret \in {"overlap", "steal"}
            <4>1. PICK b \in Bufs : b = call[p].bp
                BY <3>1 DEF Located
            <4>2. b \in Holds(p) \ {call[p].ep}
                BY <3>1, <4>1 DEF Holds, InBwrite, ProcKept, Places
            <4>3. SameData(b) /\ Size(p)' = Size(p)
                BY <2>1, <4>2 DEF Size
            <4> QED
                BY <2>1, <2>2, <3>1, <4>1, <4>3 DEF PlaceData, BpData, Growing, SameData, Has
        <3>2. CASE call[p].ret \notin {"overlap", "steal"}
            BY <1>t, <2>1, <2>2, <3>2 DEF BpData, Growing, Returns
        <3> QED
            BY <3>1, <3>2
    <2>4. FirstData(p)'
        <3>1. SUFFICES ASSUME call[p].first # NoBuf PROVE FirstData(p)'
            BY <2>1 DEF FirstData
        <3>2. PICK b \in Bufs : b = call[p].first
            BY <1>t, <3>1 DEF CallType
        <3>3. b \in Holds(p) \ {call[p].ep}
            BY <3>1, <3>2 DEF Holds, ProcKept, Places
        <3>4. SameData(b)
            BY <3>3
        <3> QED
            BY <2>1, <3>2, <3>4 DEF PlaceData, FirstData, SameData
    <2>5. EpData(p)' /\ GatherData(p)'
        BY <2>2 DEF EpData, GatherData, InBwrite
    <2>6. WantData(p)'
        BY <1>t, <2>1 DEF PlaceData, WantData, ProcKept, Places
    <2> QED
        BY <2>2, <2>3, <2>4, <2>5, <2>6 DEF PlaceData
<1> QED
    BY <1>1, <1>2 DEF AfterBwrite

\* The same when bwrite has given the request to the driver
LEMMA WrittenData ==
    ASSUME TypeOK, Located, NEW p \in Procs, ProcKept(p), PlaceData(p), InBwrite(p),
           Written(p), \A c \in Holds(p) \ {call[p].ep} : SameData(c),
           flags'[call[p].ep] \cap {"READ", "ERROR", "INVAL"} = {}
    PROVE  PlaceData(p)' /\ \A c \in Bufs : ~DirtyAt(p, c)'
<1>1. CASE AfterBwrite(p)
    BY <1>1, AfterBwriteData DEF DirtyAt, InBwrite
<1>2. CASE call' = [call EXCEPT ![p].gset = {}] /\ Goto(p, "bwritewait")
    <2>t. /\ pc \in [Procs -> Labels] /\ call \in [Procs -> CallType]
          /\ call[p] \in CallType /\ NoBuf \notin Bufs
        BY BufsAssumption DEF TypeOK, ProcTypes
    <2>1. /\ pc'[p] = "bwritewait" /\ call'[p].want = call[p].want
          /\ call'[p].next = call[p].next /\ call'[p].op = call[p].op
          /\ call'[p].first = call[p].first /\ call'[p].bp = call[p].bp
          /\ call'[p].ep = call[p].ep /\ call'[p].ret = call[p].ret
        BY <1>2, <2>t DEF Goto, CallType
    <2>e. PICK e \in Bufs : e = call[p].ep
        BY DEF Located
    <2>2. BpData(p)'
        <3>1. CASE call[p].ret \in {"overlap", "steal"}
            <4>1. PICK b \in Bufs : b = call[p].bp
                BY <3>1 DEF Located
            <4>2. b \in Holds(p) \ {call[p].ep}
                BY <3>1, <4>1 DEF Holds, InBwrite, ProcKept, Places
            <4>3. SameData(b) /\ Size(p)' = Size(p)
                BY <2>1, <4>2 DEF Size
            <4> QED
                BY <2>1, <3>1, <4>1, <4>3 DEF PlaceData, BpData, Growing, SameData, Has, InBwrite
        <3>2. CASE call[p].ret \notin {"overlap", "steal"}
            BY <2>1, <3>2 DEF BpData, Growing
        <3> QED
            BY <3>1, <3>2
    <2>3. FirstData(p)'
        <3>1. SUFFICES ASSUME call[p].first # NoBuf PROVE FirstData(p)'
            BY <2>1 DEF FirstData
        <3>2. PICK b \in Bufs : b = call[p].first
            BY <2>t, <3>1 DEF CallType
        <3>3. b \in Holds(p) \ {call[p].ep}
            BY <3>1, <3>2 DEF Holds, ProcKept, Places
        <3>4. SameData(b)
            BY <3>3
        <3> QED
            BY <2>1, <3>2, <3>4 DEF PlaceData, FirstData, SameData
    <2>4. EpData(p)' /\ \A c \in Bufs : ~DirtyAt(p, c)'
        BY <2>1, <2>e DEF EpData, DirtyAt, Has
    <2>5. WantData(p)' /\ GatherData(p)'
        BY <2>1 DEF PlaceData, WantData, GatherData
    <2> QED
        BY <2>2, <2>3, <2>4, <2>5 DEF PlaceData
<1> QED
    BY <1>1, <1>2 DEF Written

\* p starts to read a buffer that it has
LEMMA ReadStep ==
    ASSUME TypeOK, Located, OwnInv, MapInv, DataInv, NEW p \in Procs, cpu \in {p, NoProc},
           OthersStay(p), NEW b \in Bufs, b \in Holds(p), Settled(b), ~Has(b, "DONE"),
           ~Has(b, "INVAL"), NEW F \in {{}, {"ASYNC"}},
           flags' = [flags EXCEPT ![b] = flags[b] \cup {"READ"} \cup F], pend' = pend \cup {b},
           blk' = blk, bcount' = bcount, fresh' = fresh, lost' = lost,
           ~InBwrite(p), ~InBwrite(p)', PlaceData(p)'
    PROVE  DataInv'
<1>t. BufTypes /\ FlagsData(b) /\ BufData(b)
    BY DEF TypeOK, DataInv, BufData
<1>1. \A c \in Bufs \ {b} : SameData(c) /\ Marked(c)
    BY <1>t DEF SameData, Marked, Has, BufTypes
<1>2. Free(p, b)
    BY DEF Free
<1>3. \A q \in Procs \ {p} : /\ PlaceData(q)'
                             /\ \A c \in Bufs : DirtyAt(q, c)' <=> DirtyAt(q, c)
    BY <1>1, <1>2, OthersData
<1>4. \A c \in Bufs : ~DirtyAt(p, c) /\ ~DirtyAt(p, c)'
    BY DEF DirtyAt, InBwrite
<1>5. ASSUME NEW c \in Bufs \ {b} PROVE BufStep(c)
    BY <1>1, <1>3, <1>4, QuietBuf
<1>6. BufStep(b)
    <2>1. FlagsData(b)' /\ (Valid(b)' <=> Valid(b)) /\ ~Valid(b)
        BY <1>t DEF FlagsData, Valid, Has, BufTypes
    <2>2. Covers(b)' = Covers(b)
        BY <1>t DEF Covers, Extent, Has, BufTypes
    <2>3. Dirty(b)' <=> Dirty(b)
        BY <1>t, <1>3, <1>4 DEF Dirty, Has, BufTypes, Settled
    <2> QED
        BY <1>t, <2>1, <2>2, <2>3 DEF BufStep, BufData
<1> QED
    BY <1>3, <1>5, <1>6, DataFrame

\* A step of a process keeps it
LEMMA DataStep ==
    ASSUME TypeOK, Located, OwnInv, MapInv, UniqueMapping, DataInv, ~Nfs,
           NEW p \in Procs, Step(p)
    PROVE  DataInv'
<1>t. /\ BufTypes /\ MemTypes /\ WaitTypes /\ HistTypes
      /\ pc \in [Procs -> Labels] /\ call \in [Procs -> CallType] /\ call[p] \in CallType
      /\ call[p].ret \in Returns /\ NoBuf \notin Bufs
    BY BufsAssumption DEF TypeOK, ProcTypes, CallType
<1>d. PlaceData(p)
    BY DEF DataInv
<1>b. \A b \in Bufs : BufData(b) /\ FlagsData(b)
    BY DEF DataInv, BufData
<1>l. /\ \/ pc[p] \in {"hit", "brealloc", "overlap", "allocbuf", "steal", "got", "biowait", "held"}
         \/ InBwrite(p) /\ call[p].ret \in {"overlap", "steal"}
         => call[p].bp \in Bufs
      /\ InBwrite(p) => call[p].ep \in Bufs
    BY DEF Located
<1>o. ProcKept(p) /\ \A b \in Bufs : BufferKept(b)
    BY DEF OwnInv
<1> USE <1>t
<1>GetblkFind. CASE GetblkFind(p)
    <2> USE <1>GetblkFind DEF GetblkFind, At, Goto, SetBp
    <2>1. OthersStay(p) /\ cpu \in {p, NoProc}
        BY DEF OthersStay
    <2>2. \A c \in Bufs : Marked(c)
        BY DEF Marked, Has, bufVars, memVars, ioVars
    <2>3. \A c \in Bufs : (DirtyAt(p, c)' <=> DirtyAt(p, c)) \/ Has(c, "DELWRI")
        BY DEF DirtyAt, Has, bufVars, memVars, ioVars
    <2>4. PlaceData(p)'
        BY <1>d DEF PlaceData, BpData, EpData, FirstData, WantData, GatherData,
           Growing, InBwrite, Size, Has, bufVars, memVars, ioVars, Incore, CallType
    <2> QED
        BY <2>1, <2>2, <2>3, <2>4, QuietStep DEF bufVars, memVars, ioVars, histVars
<1>GetblkMiss. CASE GetblkMiss(p)
    <2> USE <1>GetblkMiss DEF GetblkMiss, At, Goto
    <2>1. OthersStay(p) /\ cpu \in {p, NoProc}
        BY DEF OthersStay
    <2>2. \A c \in Bufs : Marked(c)
        BY DEF Marked, Has, bufVars, memVars, ioVars
    <2>3. \A c \in Bufs : (DirtyAt(p, c)' <=> DirtyAt(p, c)) \/ Has(c, "DELWRI")
        BY DEF DirtyAt, Has, bufVars, memVars, ioVars
    <2>4. PlaceData(p)'
        BY <1>d DEF PlaceData, BpData, EpData, FirstData, WantData, GatherData,
           Growing, InBwrite, Size, Has, bufVars, memVars, ioVars
    <2> QED
        BY <2>1, <2>2, <2>3, <2>4, QuietStep DEF bufVars, memVars, ioVars, histVars
<1>GetblkBusy. CASE GetblkBusy(p)
    <2> USE <1>GetblkBusy DEF GetblkBusy, At, Want, Sleep, SetBp
    <2>1. OthersStay(p) /\ cpu \in {p, NoProc}
        BY DEF OthersStay
    <2>2. \A c \in Bufs : Marked(c)
        BY <1>l DEF Marked, Has, BufTypes
    <2>3. \A c \in Bufs : (DirtyAt(p, c)' <=> DirtyAt(p, c)) \/ Has(c, "DELWRI")
        BY DEF DirtyAt, Has, CallType
    <2>s. \A c \in Bufs : SameData(c)
        BY <2>2 DEF Marked, SameData, Has, bufVars, memVars, ioVars
    <2>4. PlaceData(p)'
        <3>1. BpData(p)'
            BY DEF BpData, Growing, InBwrite
        <3>2. EpData(p)'
            BY DEF EpData, InBwrite
        <3>3. FirstData(p)'
            BY <1>d, <2>s, MarkedStays DEF PlaceData, CallType
        <3>4. WantData(p)'
            BY <1>d DEF PlaceData, WantData
        <3>5. GatherData(p)'
            BY DEF GatherData
        <3> QED
            BY <3>1, <3>2, <3>3, <3>4, <3>5 DEF PlaceData
    <2> QED
        BY <2>1, <2>2, <2>3, <2>4, QuietStep DEF bufVars, memVars, ioVars, histVars
<1>GetblkHit. CASE GetblkHit(p)
    <2> USE <1>GetblkHit DEF GetblkHit, At, Goto, Notavail
    <2>1. OthersStay(p) /\ cpu \in {p, NoProc}
        BY DEF OthersStay
    <2>2. \A c \in Bufs : Marked(c)
        BY <1>d, <1>l DEF Marked, Has, BufTypes, PlaceData, BpData
    <2>3. \A c \in Bufs : (DirtyAt(p, c)' <=> DirtyAt(p, c)) \/ Has(c, "DELWRI")
        BY DEF DirtyAt, Has
    <2>s. \A c \in Bufs : SameData(c)
        BY <2>2 DEF Marked, SameData, Has, bufVars, memVars, ioVars
    <2>4. PlaceData(p)'
        <3>1. BpData(p)'
            BY <1>d, <1>l, <2>s DEF PlaceData, BpData, Growing, InBwrite, SameData
        <3>2. EpData(p)'
            BY DEF EpData, InBwrite
        <3>3. FirstData(p)'
            BY <1>d, <2>s, MarkedStays DEF PlaceData, CallType
        <3>4. WantData(p)'
            BY <1>d DEF PlaceData, WantData
        <3>5. GatherData(p)'
            BY DEF GatherData
        <3> QED
            BY <3>1, <3>2, <3>3, <3>4, <3>5 DEF PlaceData
    <2> QED
        BY <2>1, <2>2, <2>3, <2>4, QuietStep DEF bufVars, memVars, ioVars, histVars
<1>NoFreeBuf. CASE NoFreeBuf(p)
    <2> USE <1>NoFreeBuf DEF NoFreeBuf, AtGetnewbuf, At, Sleep
    <2>1. OthersStay(p) /\ cpu \in {p, NoProc}
        BY DEF OthersStay
    <2>2. \A c \in Bufs : Marked(c)
        BY DEF Marked, Has, bufVars, memVars, ioVars
    <2>3. \A c \in Bufs : (DirtyAt(p, c)' <=> DirtyAt(p, c)) \/ Has(c, "DELWRI")
        BY DEF DirtyAt, Has, bufVars, memVars, ioVars
    <2>4. PlaceData(p)'
        BY <1>d DEF PlaceData, BpData, EpData, FirstData, WantData, GatherData,
           Growing, InBwrite, Size, Has, bufVars, memVars, ioVars
    <2> QED
        BY <2>1, <2>2, <2>3, <2>4, QuietStep DEF bufVars, memVars, ioVars, histVars
<1>NewBuf. CASE NewBuf(p)
    <2> USE <1>NewBuf DEF NewBuf, At, Goto, SetBp
    <2>b. PICK b \in Scan(p) :
                  /\ Reusable(b)
                  /\ flags' = [flags EXCEPT ![b] =
                         {"BUSY"} \cup (IF call[p].op = "geteblk" THEN {"INVAL"} ELSE {})]
                  /\ blk' = [blk EXCEPT ![b] = call[p].want[1]]
                  /\ bcount' = [bcount EXCEPT ![b] = 0]
                  /\ fresh' = Forget(b)
                  /\ call' = [call EXCEPT ![p].bp = b]
        OBVIOUS
    <2>c. b \in Bufs /\ ~Has(b, "BUSY") /\ ~Has(b, "DELWRI")
        BY <1>o, <2>b DEF Scan, OnQueue, Reusable, BufferKept
    <2>d. ~Dirty(b) /\ b \notin pend
        BY <1>o, <2>c, FreeClean DEF BufferKept
    <2>1. OthersStay(p) /\ cpu \in {p, NoProc}
        BY <2>b DEF OthersStay
    <2>2. \A c \in Bufs \ {b} : /\ SameData(c) /\ Marked(c)
                                /\ blk'[c] = blk[c] /\ bcount'[c] = bcount[c]
        BY <2>b, <2>c DEF SameData, Marked, Has, BufTypes, MemTypes, ioVars
    <2>3. Free(p, b)
        BY <2>c DEF Free
    <2>4. \A q \in Procs \ {p} : /\ PlaceData(q)'
                                 /\ \A c \in Bufs : DirtyAt(q, c)' <=> DirtyAt(q, c)
        BY <2>1, <2>2, <2>3, OthersData
    <2>5. \A c \in Bufs : ~DirtyAt(p, c) /\ ~DirtyAt(p, c)'
        BY DEF DirtyAt
    <2>6. ASSUME NEW c \in Bufs \ {b} PROVE BufStep(c) /\ Covers(c)' = Covers(c)
        <3>1. BufStep(c)
            BY <2>2, <2>4, <2>5, QuietBuf DEF ioVars
        <3>2. Covers(c)' = Covers(c)
            BY <2>2 DEF SameData, Covers, Extent
        <3> QED
            BY <3>1, <3>2
    <2>7. FlagsData(b)' /\ Covers(b)' = {}
        <3>1. flags'[b] \subseteq {"BUSY", "INVAL"} /\ b \notin pend'
            BY <2>b, <2>c, <2>d DEF BufTypes, ioVars
        <3>2. blk'[b] = call[p].want[1] /\ bcount'[b] = 0
            BY <2>b, <2>c DEF BufTypes, MemTypes
        <3>3. blk'[b] # NoBlk => blk'[b] \in Nat
            BY <3>2, BlockAssumption DEF CallType, Wants, Starts
        <3>4. Extent(b)' = {}
            BY <3>2, <3>3 DEF Extent
        <3> QED
            BY <3>1, <3>4 DEF FlagsData, Has, Covers
    <2>8. PlaceData(p)'
        <3>1. /\ pc'[p] = "brealloc" /\ call'[p].bp = b /\ call'[p].op = call[p].op
              /\ call'[p].want = call[p].want /\ call'[p].next = call[p].next
              /\ call'[p].first = call[p].first
            BY <2>b DEF CallType
        <3>2. BpData(p)'
            <4>1. call[p].op # "geteblk" => flags'[b] = {"BUSY"}
                BY <2>b, <2>c DEF BufTypes
            <4> QED
                BY <3>1, <4>1 DEF BpData, Growing, InBwrite, Has
        <3>3. FirstData(p)'
            <4>1. call[p].first # NoBuf => call[p].first \in Bufs \ {b}
                BY <1>o, <2>c DEF ProcKept, FirstKept, Waited, CallType
            <4> QED
                BY <1>d, <2>2, <3>1, <4>1 DEF PlaceData, FirstData, SameData, Has
        <3>4. EpData(p)' /\ GatherData(p)' /\ WantData(p)'
            BY <1>d, <3>1 DEF EpData, GatherData, PlaceData, WantData, InBwrite
        <3> QED
            BY <3>2, <3>3, <3>4 DEF PlaceData
    <2>9. fresh' = [u \in Units |-> fresh[u] \ {b}] /\ lost' = lost
        BY <2>b DEF Forget
    <2> DEFINE S == {b}
    <2>10. /\ S \in SUBSET Bufs /\ \A c \in S : ~Dirty(c)
           /\ fresh' = [u \in Units |-> fresh[u] \ S] /\ lost' = lost
           /\ \A c \in S : FlagsData(c)' /\ Covers(c)' = {}
           /\ \A c \in Bufs \ S : BufStep(c) /\ Covers(c)' = Covers(c)
        BY <2>c, <2>d, <2>6, <2>7, <2>9
    <2>11. \A q \in Procs : PlaceData(q)'
        BY <2>4, <2>8
    <2> HIDE DEF S
    <2> QED
        BY <2>10, <2>11, GiveUp
<1>WriteBehind. CASE WriteBehind(p)
    <2> USE <1>WriteBehind DEF WriteBehind, Behind, AtGetnewbuf, At, Goto, CallBwrite, Notavail
    <2>c. PICK b \in Bufs : /\ Has(b, "DELWRI") /\ pc'[p] = "bwrite"
                            /\ call'[p].ep = b /\ call'[p].ret = pc[p]
                            /\ call'[p].bp = call[p].bp /\ call'[p].want = call[p].want
                            /\ call'[p].next = call[p].next /\ call'[p].op = call[p].op
                            /\ call'[p].first = call[p].first
        BY DEF CallType, Has
    <2>1. OthersStay(p) /\ cpu \in {p, NoProc}
        BY DEF OthersStay
    <2>2. \A c \in Bufs : Marked(c)
        BY <1>b DEF Marked, Has, BufTypes, FlagsData
    <2>3. \A c \in Bufs : (DirtyAt(p, c)' <=> DirtyAt(p, c)) \/ Has(c, "DELWRI")
        BY <2>c DEF DirtyAt, Has, InBwrite
    <2>s. \A c \in Bufs : SameData(c)
        BY <2>2 DEF Marked, SameData, Has, bufVars, memVars, ioVars
    <2>4. PlaceData(p)'
        <3>1. BpData(p)'
            BY <1>d, <1>l, <2>s, <2>c DEF PlaceData, BpData, Growing, InBwrite, SameData, Has,
           Size, memVars
        <3>2. EpData(p)'
            BY <1>b, <2>c, <2>s DEF EpData, InBwrite, FlagsData, SameData, Has
        <3>3. FirstData(p)'
            BY <1>d, <2>s, <2>c, MarkedStays DEF PlaceData
        <3>4. WantData(p)'
            BY <1>d, <2>c DEF PlaceData, WantData
        <3>5. GatherData(p)'
            BY DEF GatherData
        <3> QED
            BY <3>1, <3>2, <3>3, <3>4, <3>5 DEF PlaceData
    <2> QED
        BY <2>1, <2>2, <2>3, <2>4, QuietStep DEF bufVars, memVars, ioVars, histVars
<1>BreallocSame. CASE BreallocSame(p)
    <2> USE <1>BreallocSame DEF BreallocSame, At, Goto
    <2>1. OthersStay(p) /\ cpu \in {p, NoProc}
        BY DEF OthersStay
    <2>2. \A c \in Bufs : Marked(c)
        BY DEF Marked, Has, bufVars, memVars, ioVars
    <2>3. \A c \in Bufs : (DirtyAt(p, c)' <=> DirtyAt(p, c)) \/ Has(c, "DELWRI")
        BY DEF DirtyAt, Has, bufVars, memVars, ioVars
    <2>4. PlaceData(p)'
        BY <1>d DEF PlaceData, BpData, EpData, FirstData, WantData, GatherData,
           Growing, InBwrite, Size, Has, bufVars, memVars, ioVars
    <2> QED
        BY <2>1, <2>2, <2>3, <2>4, QuietStep DEF bufVars, memVars, ioVars, histVars
<1>BreallocDirty. CASE BreallocDirty(p)
    <2> USE <1>BreallocDirty DEF BreallocDirty, At, Goto, CallBwrite
    <2>1. OthersStay(p) /\ cpu \in {p, NoProc}
        BY DEF OthersStay
    <2>2. \A c \in Bufs : Marked(c)
        BY DEF Marked, Has, bufVars, memVars, ioVars
    <2>3. \A c \in Bufs : (DirtyAt(p, c)' <=> DirtyAt(p, c)) \/ Has(c, "DELWRI")
        BY DEF DirtyAt, Has, bufVars, memVars, ioVars, CallType
    <2>4. PlaceData(p)'
        BY <1>d, <1>b, <1>l DEF PlaceData, BpData, EpData, FirstData, WantData, GatherData,
           Growing, InBwrite, Size, Has, bufVars, memVars, ioVars, CallType, FlagsData
    <2> QED
        BY <2>1, <2>2, <2>3, <2>4, QuietStep DEF bufVars, memVars, ioVars, histVars
<1>BreallocShrink. CASE BreallocShrink(p)
    <2> USE <1>BreallocShrink DEF BreallocShrink, At, Goto, Resize
    <2>b. PICK b \in Bufs : b = call[p].bp
        BY <1>l
    <2>c. b \in Holds(p) /\ Settled(b) /\ ~Has(b, "DELWRI")
        BY <1>o, <2>b DEF Holds, ProcKept, BpKept
    <2>f. /\ bcount' = [bcount EXCEPT ![b] = Size(p)] /\ Size(p) < bcount[b]
          /\ flags' = flags /\ blk' = blk /\ pend' = pend /\ call' = call /\ lost' = lost
          /\ fresh' = [u \in Units |-> fresh[u] \ (IF u \in WantExtent(p) THEN {} ELSE {b})]
        BY <2>b DEF ioVars
    <2>1. OthersStay(p) /\ cpu \in {p, NoProc}
        BY DEF OthersStay
    <2>2. \A c \in Bufs \ {b} : SameData(c) /\ bcount'[c] = bcount[c]
        BY <2>f DEF SameData, Has, MemTypes
    <2>3. Free(p, b)
        BY <2>c DEF Free
    <2>4. \A q \in Procs \ {p} : /\ PlaceData(q)'
                                 /\ \A c \in Bufs : DirtyAt(q, c)' <=> DirtyAt(q, c)
        BY <2>1, <2>2, <2>3, OthersData
    <2>5. \A c \in Bufs : ~DirtyAt(p, c) /\ ~DirtyAt(p, c)'
        BY DEF DirtyAt
    <2>6. ASSUME NEW c \in Bufs
          PROVE  /\ (Dirty(c)' <=> Dirty(c)) /\ (Valid(c)' <=> Valid(c))
                 /\ FlagsData(c)' <=> FlagsData(c)
        BY <2>4, <2>5, <2>f DEF Dirty, Valid, FlagsData, Has
    <2>7. ~Dirty(b)
        BY <2>c, <2>5, HeldClean DEF Settled
    <2>8. Covers(b)' = Covers(b) \cap WantExtent(p)
        <3>1. CASE Has(b, "INVAL") \/ blk[b] = NoBlk
            BY <2>f, <3>1 DEF Covers, Extent, Has
        <3>2. CASE ~Has(b, "INVAL") /\ blk[b] # NoBlk
            <4>1. blk[b] = call[p].want[1]
                BY <2>b, <3>2 DEF MapInv, BlkKept, Mapped
            <4>2. Covers(b)' = WantExtent(p)
                BY <2>f, <3>2, <4>1 DEF Covers, Extent, Has, WantExtent, Size, MemTypes
            <4>3. blk[b] \in Int /\ bcount[b] \in Nat /\ Size(p) \in Int
                BY <3>2, BlockAssumption DEF MemTypes, BufTypes, Starts, Size, CallType, Wants,
                   Sizes
            <4>4. WantExtent(p) \subseteq Covers(b)
                BY <2>f, <3>2, <4>1, <4>3 DEF Covers, Extent, WantExtent, Size
            <4> QED
                BY <4>2, <4>4
        <3> QED
            BY <3>1, <3>2
    <2>9. \A c \in Bufs \ {b} : Covers(c)' = Covers(c)
        BY <2>f, <2>2 DEF Covers, Extent, Has
    <2>10. ASSUME NEW c \in Bufs PROVE BufData(c)'
        <3>1. CASE c = b
            BY <1>b, <2>f, <2>6, <2>8, <3>1 DEF BufData, Full
        <3>2. CASE c # b
            BY <1>b, <2>f, <2>6, <2>9, <3>2 DEF BufData, Full
        <3> QED
            BY <3>1, <3>2
    <2>11. ASSUME NEW u \in Units PROVE UnitData(u)'
        <3>1. UnitData(u)
            BY DEF DataInv
        <3>2. \A c \in Bufs : c \in fresh'[u] => u \in Covers(c)'
            BY <2>f, <2>8, <2>9, <3>1 DEF UnitData
        <3>3. Disk # b
            BY BufsAssumption
        <3> QED
            BY <2>f, <2>6, <2>7, <3>1, <3>2, <3>3 DEF UnitData
    <2>12. PlaceData(p)'
        BY <1>d, <2>f DEF PlaceData, BpData, EpData, FirstData, WantData, GatherData, Growing,
           InBwrite, Has
    <2> QED
        BY <2>4, <2>10, <2>11, <2>12 DEF DataInv
<1>BreallocGrow. CASE BreallocGrow(p)
    <2> USE <1>BreallocGrow DEF BreallocGrow, At, Goto
    <2>b. PICK b \in Bufs : b = call[p].bp
        BY <1>l
    <2>c. b \in Holds(p)
        BY <2>b DEF Holds
    <2>f. flags' = [flags EXCEPT ![b] = flags[b] \ {"DONE"}]
        BY <2>b DEF Outgrown
    <2>1. OthersStay(p) /\ cpu \in {p, NoProc}
        BY DEF OthersStay
    <2>2. \A c \in Bufs \ {b} : SameData(c) /\ Marked(c)
        BY <2>f DEF SameData, Marked, Has, BufTypes, memVars, ioVars
    <2>3. Free(p, b)
        BY <2>c DEF Free
    <2>4. \A q \in Procs \ {p} : /\ PlaceData(q)'
                                 /\ \A c \in Bufs : DirtyAt(q, c)' <=> DirtyAt(q, c)
        BY <2>1, <2>2, <2>3, OthersData
    <2>5. \A c \in Bufs : ~DirtyAt(p, c) /\ ~DirtyAt(p, c)'
        BY DEF DirtyAt
    <2>6. ASSUME NEW c \in Bufs \ {b} PROVE BufStep(c)
        BY <2>2, <2>4, <2>5, QuietBuf DEF memVars, ioVars
    <2>7. BufStep(b)
        <3>1. FlagsData(b)' /\ ~Valid(b)'
            BY <1>b, <2>b, <2>f DEF FlagsData, Valid, BufTypes, Has, ioVars
        <3>2. Covers(b)' = Covers(b)
            BY <2>f DEF Covers, Extent, Has, memVars, BufTypes
        <3>3. Dirty(b)' <=> Dirty(b)
            BY <2>4, <2>5, <2>f DEF Dirty, Has, ioVars, BufTypes
        <3> QED
            BY <1>b, <3>1, <3>2, <3>3 DEF BufStep, BufData
    <2>8. PlaceData(p)'
        <3>1. BpData(p)'
            BY <1>d, <2>b, <2>f DEF PlaceData, BpData, Growing, InBwrite, Has, BufTypes, memVars,
               Size
        <3>2. FirstData(p)'
            <4>1. b # call[p].first
                BY <1>o, <2>b DEF ProcKept, Places
            <4> QED
                BY <1>d, <2>f, <4>1 DEF PlaceData, FirstData, CallType, Has, BufTypes, ioVars
        <3>3. EpData(p)' /\ WantData(p)' /\ GatherData(p)'
            BY <1>d DEF PlaceData, EpData, WantData, GatherData, InBwrite
        <3> QED
            BY <3>1, <3>2, <3>3 DEF PlaceData
    <2> QED
        BY <2>4, <2>6, <2>7, <2>8, DataFrame DEF histVars
<1>OverlapBusy. CASE OverlapBusy(p)
    <2> USE <1>OverlapBusy DEF OverlapBusy, At, Want, Sleep
    <2>1. OthersStay(p) /\ cpu \in {p, NoProc}
        BY DEF OthersStay
    <2>2. \A c \in Bufs : Marked(c)
        BY DEF Marked, Has, BufTypes, Overlapping
    <2>3. \A c \in Bufs : (DirtyAt(p, c)' <=> DirtyAt(p, c)) \/ Has(c, "DELWRI")
        BY DEF DirtyAt, Has
    <2>s. \A c \in Bufs : SameData(c)
        BY <2>2 DEF Marked, SameData, Has, bufVars, memVars, ioVars
    <2>4. PlaceData(p)'
        <3>1. BpData(p)'
            BY <1>d, <1>l, <2>s DEF PlaceData, BpData, Growing, InBwrite, SameData, Has,
           Size, memVars
        <3>2. EpData(p)'
            BY DEF EpData, InBwrite
        <3>3. FirstData(p)'
            BY <1>d, <2>s, MarkedStays DEF PlaceData, CallType
        <3>4. WantData(p)'
            BY <1>d DEF PlaceData, WantData
        <3>5. GatherData(p)'
            BY DEF GatherData
        <3> QED
            BY <3>1, <3>2, <3>3, <3>4, <3>5 DEF PlaceData
    <2> QED
        BY <2>1, <2>2, <2>3, <2>4, QuietStep DEF bufVars, memVars, ioVars, histVars
<1>OverlapDirty. CASE OverlapDirty(p)
    <2> USE <1>OverlapDirty DEF OverlapDirty, At, Goto, CallBwrite, Notavail
    <2>c. PICK b \in Bufs : /\ Has(b, "DELWRI") /\ pc'[p] = "bwrite"
                            /\ call'[p].ep = b /\ call'[p].ret = pc[p]
                            /\ call'[p].bp = call[p].bp /\ call'[p].want = call[p].want
                            /\ call'[p].next = call[p].next /\ call'[p].op = call[p].op
                            /\ call'[p].first = call[p].first
        BY DEF CallType, Overlapping, Has
    <2>1. OthersStay(p) /\ cpu \in {p, NoProc}
        BY DEF OthersStay
    <2>2. \A c \in Bufs : Marked(c)
        BY <1>b DEF Marked, Has, BufTypes, FlagsData
    <2>3. \A c \in Bufs : (DirtyAt(p, c)' <=> DirtyAt(p, c)) \/ Has(c, "DELWRI")
        BY <2>c DEF DirtyAt, Has, InBwrite
    <2>s. \A c \in Bufs : SameData(c)
        BY <2>2 DEF Marked, SameData, Has, bufVars, memVars, ioVars
    <2>4. PlaceData(p)'
        <3>1. BpData(p)'
            BY <1>d, <1>l, <2>s, <2>c DEF PlaceData, BpData, Growing, InBwrite, SameData, Has,
           Size, memVars
        <3>2. EpData(p)'
            BY <1>b, <2>c, <2>s DEF EpData, InBwrite, FlagsData, SameData, Has
        <3>3. FirstData(p)'
            BY <1>d, <2>s, <2>c, MarkedStays DEF PlaceData
        <3>4. WantData(p)'
            BY <1>d, <2>c DEF PlaceData, WantData
        <3>5. GatherData(p)'
            BY DEF GatherData
        <3> QED
            BY <3>1, <3>2, <3>3, <3>4, <3>5 DEF PlaceData
    <2> QED
        BY <2>1, <2>2, <2>3, <2>4, QuietStep DEF bufVars, memVars, ioVars, histVars
<1>OverlapClean. CASE OverlapClean(p)
    <2> USE <1>OverlapClean DEF OverlapClean, At, Goto
    <2>b. PICK b \in Bufs \ {call[p].bp} : /\ flags[b] \cap {"BUSY", "DELWRI"} = {}
                                           /\ Brelse(b, flags[b] \cup {"INVAL"}, bufsize[b], fresh)
        BY DEF Overlapping
    <2>c. ~Has(b, "BUSY") /\ ~Dirty(b) /\ b \notin pend
        BY <1>o, <2>b, FreeClean DEF Has, BufferKept
    <2>1. OthersStay(p) /\ cpu \in {p, NoProc}
        BY AwakenStays DEF OthersStay
    <2>2. \A c \in Bufs \ {b} : SameData(c)
        BY <2>b, BrelseKept DEF SameData, Has, memVars, ioVars
    <2>3. ~InBwrite(p) /\ ~InBwrite(p)'
        BY DEF InBwrite
    <2>4. PlaceData(p)'
        <3>1. BpData(p)'
            <4>1. PICK c \in Bufs \ {b} : c = call[p].bp
                BY <1>l, <2>b
            <4>2. SameData(c)
                BY <2>2, <4>1
            <4> QED
                BY <1>d, <4>1, <4>2 DEF PlaceData, BpData, Growing, InBwrite, SameData, Has, Size
        <3>2. FirstData(p)'
            <4>1. call[p].first # NoBuf => call[p].first \in Bufs \ {b}
                BY <1>o, <2>c DEF ProcKept, FirstKept, Waited, CallType
            <4> QED
                BY <1>d, <2>2, <4>1 DEF PlaceData, FirstData, SameData, Has
        <3>3. EpData(p)' /\ GatherData(p)' /\ WantData(p)'
            BY <1>d, <2>3 DEF EpData, GatherData, PlaceData, WantData, InBwrite
        <3> QED
            BY <3>1, <3>2, <3>3 DEF PlaceData
    <2>5. /\ flags[b] \cup {"INVAL"} \in SUBSET Flags
          /\ "DELWRI" \notin flags[b] \cup {"INVAL"}
        BY <2>b DEF BufTypes, Flags
    <2> QED
        BY <2>b, <2>c, <2>1, <2>3, <2>4, <2>5, ReleaseStep DEF memVars, ioVars
<1>OverlapNone. CASE OverlapNone(p)
    <2> USE <1>OverlapNone DEF OverlapNone, At, Goto
    <2>1. OthersStay(p) /\ cpu \in {p, NoProc}
        BY DEF OthersStay
    <2>2. \A c \in Bufs : Marked(c)
        BY DEF Marked, Has, bufVars, memVars, ioVars
    <2>3. \A c \in Bufs : (DirtyAt(p, c)' <=> DirtyAt(p, c)) \/ Has(c, "DELWRI")
        BY DEF DirtyAt, Has, bufVars, memVars, ioVars
    <2>4. PlaceData(p)'
        BY <1>d DEF PlaceData, BpData, EpData, FirstData, WantData, GatherData,
           Growing, InBwrite, Size, Has, bufVars, memVars, ioVars
    <2> QED
        BY <2>1, <2>2, <2>3, <2>4, QuietStep DEF bufVars, memVars, ioVars, histVars
<1>Allocbuf. CASE Allocbuf(p)
    <2> USE <1>Allocbuf DEF Allocbuf, At, Goto, Resize
    <2>b. PICK b \in Bufs : b = call[p].bp
        BY <1>l
    <2>c. b \in Holds(p) /\ Settled(b)
        BY <1>o, <2>b DEF Holds, ProcKept, BpKept
    <2>f. /\ flags[b] \cap {"DONE", "DELWRI"} = {}
          /\ bcount[b] < Size(p) /\ bcount' = [bcount EXCEPT ![b] = Size(p)]
          /\ flags' = flags /\ blk' = blk /\ pend' = pend /\ call' = call
        BY <1>d, <2>b DEF PlaceData, BpData, Growing, ioVars
    <2>1. OthersStay(p) /\ cpu \in {p, NoProc}
        BY DEF OthersStay
    <2>2. \A c \in Bufs \ {b} : SameData(c) /\ Marked(c) /\ bcount'[c] = bcount[c]
        BY <2>f DEF SameData, Marked, Has, MemTypes
    <2>3. Free(p, b)
        BY <2>c DEF Free
    <2>4. \A q \in Procs \ {p} : /\ PlaceData(q)'
                                 /\ \A c \in Bufs : DirtyAt(q, c)' <=> DirtyAt(q, c)
        BY <2>1, <2>2, <2>3, OthersData
    <2>5. \A c \in Bufs : ~DirtyAt(p, c) /\ ~DirtyAt(p, c)'
        BY DEF DirtyAt
    <2>6. ASSUME NEW c \in Bufs \ {b} PROVE BufStep(c)
        BY <2>2, <2>4, <2>5, <2>f, QuietBuf
    <2>7. BufStep(b)
        <3>1. FlagsData(b)' /\ ~Valid(b)'
            BY <1>b, <2>f DEF FlagsData, Valid, Has
        <3>2. ~Dirty(b)
            BY <2>c, <2>5, <2>f, HeldClean DEF Settled, Has
        <3>3. ~Dirty(b)'
            BY <2>4, <2>5, <2>f, <3>2 DEF Dirty, Has
        <3>4. Covers(b) \subseteq Covers(b)' /\ Covers(b)' \subseteq Units
            <4>1. CASE Has(b, "INVAL") \/ blk[b] = NoBlk
                BY <2>f, <4>1 DEF Covers, Extent, Has
            <4>2. CASE ~Has(b, "INVAL") /\ blk[b] # NoBlk
                <5>1. blk[b] = call[p].want[1] /\ call[p].want \in Blocks
                    BY <1>d, <2>b, <4>2 DEF MapInv, BlkKept, Mapped, PlaceData, WantData
                <5>2. Covers(b)' = WantExtent(p) /\ bcount'[b] = Size(p)
                    BY <2>f, <4>2, <5>1 DEF Covers, Extent, Has, WantExtent, Size, MemTypes
                <5>3. WantExtent(p) \subseteq Units
                    BY <5>1 DEF WantExtent, Units
                <5>4. blk[b] \in Int /\ bcount[b] \in Nat /\ Size(p) \in Int
                    BY <5>1, BlockAssumption DEF MemTypes, Size
                <5>5. Covers(b) \subseteq WantExtent(p)
                    BY <2>f, <4>2, <5>1, <5>4 DEF Covers, Extent, WantExtent, Size
                <5> QED
                    BY <5>2, <5>3, <5>5
            <4> QED
                BY <4>1, <4>2
        <3> QED
            BY <3>1, <3>2, <3>3, <3>4 DEF BufStep
    <2>8. PlaceData(p)'
        BY <1>d, <2>f DEF PlaceData, BpData, EpData, FirstData, WantData, GatherData, Growing,
           InBwrite, Has
    <2> QED
        BY <2>4, <2>6, <2>7, <2>8, DataFrame
<1>AllocbufSteal. CASE AllocbufSteal(p)
    <2> USE <1>AllocbufSteal DEF AllocbufSteal, At, Goto
    <2>1. OthersStay(p) /\ cpu \in {p, NoProc}
        BY DEF OthersStay
    <2>2. \A c \in Bufs : Marked(c)
        BY DEF Marked, Has, bufVars, memVars, ioVars
    <2>3. \A c \in Bufs : (DirtyAt(p, c)' <=> DirtyAt(p, c)) \/ Has(c, "DELWRI")
        BY DEF DirtyAt, Has, bufVars, memVars, ioVars
    <2>4. PlaceData(p)'
        BY <1>d DEF PlaceData, BpData, EpData, FirstData, WantData, GatherData,
           Growing, InBwrite, Size, Has, bufVars, memVars, ioVars
    <2> QED
        BY <2>1, <2>2, <2>3, <2>4, QuietStep DEF bufVars, memVars, ioVars, histVars
<1>Steal. CASE Steal(p)
    <2> USE <1>Steal DEF Steal, At, Goto
    <2>b. PICK b \in Scan(p) :
                  /\ Reusable(b)
                  /\ flags' = [flags EXCEPT ![b] = {"INVAL"}]
                  /\ blk' = [blk EXCEPT ![b] = NoBlk]
                  /\ bcount' = [bcount EXCEPT ![b] = 0]
                  /\ fresh' = Forget(b)
        OBVIOUS
    <2>c. b \in Bufs /\ ~Has(b, "BUSY") /\ ~Has(b, "DELWRI")
        BY <1>o, <2>b DEF Scan, OnQueue, Reusable, BufferKept
    <2>d. ~Dirty(b) /\ b \notin pend
        BY <1>o, <2>c, FreeClean DEF BufferKept
    <2>1. OthersStay(p) /\ cpu \in {p, NoProc}
        BY AwakenStays DEF OthersStay
    <2>2. \A c \in Bufs \ {b} : /\ SameData(c) /\ Marked(c)
                                /\ blk'[c] = blk[c] /\ bcount'[c] = bcount[c]
        BY <2>b, <2>c DEF SameData, Marked, Has, BufTypes, MemTypes, ioVars
    <2>3. Free(p, b)
        BY <2>c DEF Free
    <2>4. \A q \in Procs \ {p} : /\ PlaceData(q)'
                                 /\ \A c \in Bufs : DirtyAt(q, c)' <=> DirtyAt(q, c)
        BY <2>1, <2>2, <2>3, OthersData
    <2>5. \A c \in Bufs : ~DirtyAt(p, c) /\ ~DirtyAt(p, c)'
        BY DEF DirtyAt
    <2>6. ASSUME NEW c \in Bufs \ {b} PROVE BufStep(c) /\ Covers(c)' = Covers(c)
        <3>1. BufStep(c)
            BY <2>2, <2>4, <2>5, QuietBuf DEF ioVars
        <3>2. Covers(c)' = Covers(c)
            BY <2>2 DEF SameData, Covers, Extent
        <3> QED
            BY <3>1, <3>2
    <2>7. FlagsData(b)' /\ Covers(b)' = {}
        BY <2>b, <2>c, <2>d DEF FlagsData, Covers, Has, BufTypes, ioVars
    <2>8. PlaceData(p)'
        <3>1. PICK c \in Bufs \ {b} : c = call[p].bp
            BY <1>l, <1>o, <2>c DEF ProcKept, BpKept, Settled
        <3>2. BpData(p)'
            BY <1>d, <2>2, <3>1 DEF PlaceData, BpData, Growing, InBwrite, SameData, Has, Size
        <3>3. FirstData(p)'
            <4>1. call[p].first # NoBuf => call[p].first \in Bufs \ {b}
                BY <1>o, <2>c DEF ProcKept, FirstKept, Waited, CallType
            <4> QED
                BY <1>d, <2>2, <4>1 DEF PlaceData, FirstData, SameData, Has
        <3>4. EpData(p)' /\ GatherData(p)' /\ WantData(p)'
            BY <1>d DEF EpData, GatherData, PlaceData, WantData, InBwrite
        <3> QED
            BY <3>2, <3>3, <3>4 DEF PlaceData
    <2>9. fresh' = [u \in Units |-> fresh[u] \ {b}] /\ lost' = lost
        BY <2>b DEF Forget
    <2> DEFINE S == {b}
    <2>10. /\ S \in SUBSET Bufs /\ \A c \in S : ~Dirty(c)
           /\ fresh' = [u \in Units |-> fresh[u] \ S] /\ lost' = lost
           /\ \A c \in S : FlagsData(c)' /\ Covers(c)' = {}
           /\ \A c \in Bufs \ S : BufStep(c) /\ Covers(c)' = Covers(c)
        BY <2>c, <2>d, <2>6, <2>7, <2>9
    <2>11. \A q \in Procs : PlaceData(q)'
        BY <2>4, <2>8
    <2> HIDE DEF S
    <2> QED
        BY <2>10, <2>11, GiveUp
<1>BwriteStart. CASE BwriteStart(p)
    <2> USE <1>BwriteStart DEF BwriteStart, At
    <2>b. PICK b \in Bufs : b = call[p].ep
        BY <1>l DEF InBwrite
    <2>i. InBwrite(p) /\ b \in Holds(p) /\ DirtyAt(p, b)
        BY <2>b DEF InBwrite, Holds, DirtyAt
    <2>f. /\ flags' = [flags EXCEPT ![b] = Writing(flags[b])] /\ pend' = pend \cup {b}
          /\ fresh' = fresh /\ lost' = lost /\ blk' = blk /\ bcount' = bcount
        BY <2>b DEF Strategy, histVars, memVars
    <2>1. OthersStay(p) /\ cpu \in {p, NoProc}
        BY DEF OthersStay, Written, AfterBwrite, Return, Goto
    <2>2. \A c \in Bufs \ {b} : SameData(c) /\ Marked(c)
        BY <2>f DEF SameData, Marked, Has, BufTypes
    <2>3. Free(p, b)
        BY <2>i DEF Free
    <2>4. \A q \in Procs \ {p} : /\ PlaceData(q)'
                                 /\ \A c \in Bufs : DirtyAt(q, c)' <=> DirtyAt(q, c)
        BY <2>1, <2>2, <2>3, OthersData
    <2>5. flags'[b] \cap {"READ", "ERROR", "INVAL", "DONE", "DELWRI"} = {}
        BY <1>d, <2>b, <2>f, <2>i DEF Writing, PlaceData, EpData, Has, BufTypes
    <2>6. PlaceData(p)' /\ \A c \in Bufs : ~DirtyAt(p, c)'
        BY <1>d, <1>o, <2>2, <2>b, <2>i, <2>5, WrittenData DEF Holds
    <2>7. ASSUME NEW c \in Bufs \ {b} PROVE BufStep(c)
        <3>1. ~DirtyAt(p, c)
            BY <2>b DEF DirtyAt
        <3> QED
            BY <2>2, <2>4, <2>6, <2>f, <3>1, QuietBuf
    <2>8. BufStep(b)
        <3>1. FlagsData(b)' /\ Dirty(b)' /\ Dirty(b)
            BY <1>b, <2>5, <2>f, <2>i DEF FlagsData, Dirty, Has, Writing, BufTypes
        <3>2. Covers(b)' = Covers(b)
            BY <1>d, <2>b, <2>i, <2>5, <2>f DEF Covers, Extent, Has, PlaceData, EpData
        <3> QED
            BY <1>b, <3>1, <3>2 DEF BufStep, BufData
    <2> QED
        BY <2>4, <2>6, <2>7, <2>8, <2>f, DataFrame
<1>VbwriteGather. CASE VbwriteGather(p)
    <2> USE <1>VbwriteGather DEF VbwriteGather, At
    <2>b. PICK b \in Bufs : b = call[p].ep
        BY <1>l DEF InBwrite
    <2>s. PICK S \in Gatherable(b) : call' = [call EXCEPT ![p].gset = S]
        BY <2>b
    <2>i. InBwrite(p) /\ b \in Holds(p) /\ DirtyAt(p, b)
        BY <2>b DEF InBwrite, Holds, DirtyAt
    <2>f. /\ flags' = [flags EXCEPT ![b] = Writing(flags[b])] /\ pend' = pend
          /\ fresh' = fresh /\ lost' = lost /\ blk' = blk /\ bcount' = bcount
        BY <2>b DEF histVars, memVars
    <2>d. /\ pc'[p] = "getmem" /\ call'[p].bp = call[p].bp /\ call'[p].ep = b
          /\ call'[p].first = call[p].first /\ call'[p].op = call[p].op
          /\ call'[p].want = call[p].want /\ call'[p].next = call[p].next
          /\ call'[p].ret = call[p].ret /\ call'[p].gset = S
        BY <2>b, <2>s DEF CallType
    <2>1. OthersStay(p) /\ cpu \in {p, NoProc}
        BY DEF OthersStay
    <2>2. \A c \in Bufs \ {b} : SameData(c) /\ Marked(c)
        BY <2>f DEF SameData, Marked, Has, BufTypes
    <2>3. Free(p, b)
        BY <2>i DEF Free
    <2>4. \A q \in Procs \ {p} : /\ PlaceData(q)'
                                 /\ \A c \in Bufs : DirtyAt(q, c)' <=> DirtyAt(q, c)
        BY <2>1, <2>2, <2>3, OthersData
    <2>5. /\ flags'[b] \cap {"INVAL", "READ", "DONE", "ERROR", "DELWRI"} = {}
          /\ ~Has(b, "INVAL")
        BY <1>d, <2>b, <2>f, <2>i DEF Writing, PlaceData, EpData, Has, BufTypes
    <2>6. PlaceData(p)'
        <3>1. BpData(p)'
            <4>1. CASE call[p].ret \in {"overlap", "steal"}
                <5>1. call[p].bp \in Bufs \ {b}
                    BY <1>l, <1>o, <2>b, <2>i, <4>1 DEF ProcKept, Places
                <5>2. SameData(call[p].bp)
                    BY <2>2, <5>1
                <5>3. Growing(p) /\ Size(p)' = Size(p)
                    BY <2>d, <2>i, <4>1 DEF Growing, Size
                <5> QED
                    BY <1>d, <2>d, <2>f, <5>1, <5>3 DEF PlaceData, BpData, Has
            <4>2. CASE call[p].ret \notin {"overlap", "steal"}
                BY <2>d, <4>2 DEF BpData, Growing
            <4> QED
                BY <4>1, <4>2
        <3>2. EpData(p)'
            BY <2>d, <2>5 DEF EpData, Has
        <3>3. FirstData(p)'
            <4>1. call[p].first # b
                BY <1>o, <2>b, <2>i DEF ProcKept, Places
            <4> QED
                BY <1>d, <2>d, <2>f, <4>1 DEF PlaceData, FirstData, CallType, Has, BufTypes
        <3>4. WantData(p)'
            BY <1>d, <2>d DEF PlaceData, WantData
        <3>5. GatherData(p)'
            <4>1. \A c \in S : c \in Bufs \ {b} /\ Has(c, "DELWRI")
                BY <1>o, <2>b, <2>i DEF Gatherable, Has, ProcKept, EpKept
            <4> QED
                BY <2>d, <2>f, <4>1 DEF GatherData, Has, BufTypes
        <3> QED
            BY <3>1, <3>2, <3>3, <3>4, <3>5 DEF PlaceData
    <2>7. ASSUME NEW c \in Bufs \ {b} PROVE BufStep(c)
        <3>1. ~DirtyAt(p, c) /\ ~DirtyAt(p, c)'
            BY <2>b, <2>d DEF DirtyAt
        <3> QED
            BY <2>2, <2>4, <2>f, <3>1, QuietBuf
    <2>8. BufStep(b)
        <3>1. FlagsData(b)' /\ Dirty(b)
            BY <1>b, <2>5, <2>i, <2>f DEF FlagsData, Dirty, Has, Writing, BufTypes
        <3>2. DirtyAt(p, b)'
            BY <2>d DEF DirtyAt
        <3>3. Covers(b)' = Covers(b)
            BY <2>5, <2>f DEF Covers, Extent, Has
        <3> QED
            BY <1>b, <3>1, <3>2, <3>3 DEF BufStep, BufData, Dirty
    <2> QED
        BY <2>4, <2>6, <2>7, <2>8, <2>f, DataFrame
<1>VbwriteStart. CASE VbwriteStart(p)
    <2> USE <1>VbwriteStart DEF VbwriteStart, At
    <2>b. PICK b \in Bufs : b = call[p].ep
        BY <1>l DEF InBwrite
    <2> DEFINE S == call[p].gset
    <2>i. InBwrite(p) /\ b \in Holds(p) /\ DirtyAt(p, b)
        BY <2>b DEF InBwrite, Holds, DirtyAt
    <2>s. \A c \in S : c \in Bufs /\ ~Has(c, "BUSY") /\ Has(c, "DELWRI")
        BY <1>d, <1>o DEF CallType, ProcKept, Gathering, PlaceData, GatherData
    <2>n. b \notin S /\ Has(b, "BUSY")
        BY <1>o, <2>b, <2>s DEF ProcKept, EpKept
    <2>f. /\ \A c \in S : flags'[c] = Writing(flags[c] \cup {"BUSY", "ASYNC", "AGE"})
          /\ \A c \in Bufs \ S : flags'[c] = flags[c]
          /\ pend' = pend \cup S \cup {b}
          /\ fresh' = fresh /\ lost' = lost /\ blk' = blk /\ bcount' = bcount
        BY <2>b, <2>s DEF Strategy, histVars, memVars
    <2>1. OthersStay(p) /\ cpu \in {p, NoProc}
        BY DEF OthersStay, Written, AfterBwrite, Return, Goto
    <2>2. \A c \in Bufs \ (S \cup {b}) : SameData(c) /\ Marked(c)
        BY <2>f DEF SameData, Marked, Has
    <2>3. \A c \in S \cup {b} : Free(p, c)
        BY <2>i, <2>s DEF Free
    <2>4. \A q \in Procs \ {p} : /\ PlaceData(q)'
                                 /\ \A c \in Bufs : DirtyAt(q, c)' <=> DirtyAt(q, c)
        BY <2>1, <2>2, <2>3, OthersData
    <2>5. flags'[b] = flags[b] /\ flags[b] \cap {"READ", "ERROR", "INVAL", "DONE", "DELWRI"} = {}
        BY <1>d, <2>b, <2>f, <2>i, <2>n DEF PlaceData, EpData, Has
    <2>6. PlaceData(p)' /\ \A c \in Bufs : ~DirtyAt(p, c)'
        <3>1. \A c \in Holds(p) : Has(c, "BUSY") /\ c \in Bufs
            BY <1>o, HeldBusy
        <3>2. \A c \in Holds(p) \ {call[p].ep} : SameData(c)
            BY <2>b, <2>s, <2>2, <3>1
        <3> QED
            BY <1>d, <1>o, <2>b, <2>i, <2>5, <3>2, WrittenData
    <2>7. ASSUME NEW c \in Bufs \ (S \cup {b}) PROVE BufStep(c)
        <3>1. ~DirtyAt(p, c)
            BY <2>b DEF DirtyAt
        <3> QED
            BY <2>2, <2>4, <2>6, <2>f, <3>1, QuietBuf
    <2>8. ASSUME NEW c \in S \cup {b} PROVE BufStep(c)
        <3>1. ~Has(c, "INVAL") /\ c \in Bufs
            BY <1>b, <2>b, <2>5, <2>s, <2>8 DEF FlagsData, Has
        <3>2. flags'[c] \cap {"READ", "INVAL", "DONE", "DELWRI", "NOCACHE"} = {} /\ c \in pend'
            BY <1>b, <2>f, <2>5, <2>8, <3>1 DEF Writing, FlagsData, Has
        <3>3. Dirty(c)' /\ Dirty(c) /\ FlagsData(c)'
            BY <2>i, <2>s, <2>8, <3>2 DEF FlagsData, Dirty, Has
        <3>4. Covers(c)' = Covers(c)
            BY <2>f, <3>1, <3>2 DEF Covers, Extent, Has
        <3> QED
            BY <1>b, <3>1, <3>3, <3>4 DEF BufStep, BufData
    <2> QED
        BY <2>4, <2>6, <2>7, <2>8, <2>f, DataFrame
<1>BwriteDone. CASE BwriteDone(p)
    <2> USE <1>BwriteDone DEF BwriteDone, At
    <2>b. PICK b \in Bufs : b = call[p].ep
        BY <1>l DEF InBwrite
    <2>c. b \in Holds(p) /\ b \notin pend /\ InBwrite(p)
        BY <1>o, <2>b DEF Holds, InBwrite, BufferKept
    <2>f. Brelse(b, flags[b], bufsize[b], fresh)
        BY <2>b
    <2>1. OthersStay(p) /\ cpu \in {p, NoProc}
        BY AwakenStays DEF OthersStay, AfterBwrite, Return, Goto
    <2>2. \A c \in Bufs \ {b} : SameData(c)
        BY <2>f, BrelseKept DEF SameData, Has, memVars, ioVars
    <2>3. PlaceData(p)' /\ ~InBwrite(p)'
        BY <1>d, <1>o, <2>b, <2>c, <2>2, AfterBwriteData DEF Holds
    <2>4. Dirty(b) => Has(b, "DELWRI") \/ Has(b, "ERROR")
        BY <2>c, HeldClean DEF DirtyAt
    <2>5. /\ flags[b] \in SUBSET Flags
          /\ Has(b, "DELWRI") => flags[b] \cap {"INVAL", "NOCACHE"} = {}
        BY <1>b DEF FlagsData, Has, BufTypes
    <2> QED
        BY <2>b, <2>c, <2>f, <2>1, <2>3, <2>4, <2>5, ReleaseStep DEF memVars, ioVars, Has
<1>BiowaitSleep. CASE BiowaitSleep(p)
    <2> USE <1>BiowaitSleep DEF BiowaitSleep, At, Sleep
    <2>1. OthersStay(p) /\ cpu \in {p, NoProc}
        BY DEF OthersStay
    <2>2. \A c \in Bufs : Marked(c)
        BY DEF Marked, Has, bufVars, memVars, ioVars
    <2>3. \A c \in Bufs : (DirtyAt(p, c)' <=> DirtyAt(p, c)) \/ Has(c, "DELWRI")
        BY DEF DirtyAt, Has, bufVars, memVars, ioVars
    <2>4. PlaceData(p)'
        BY <1>d DEF PlaceData, BpData, EpData, FirstData, WantData, GatherData,
           Growing, InBwrite, Size, Has, bufVars, memVars, ioVars
    <2> QED
        BY <2>1, <2>2, <2>3, <2>4, QuietStep DEF bufVars, memVars, ioVars, histVars
<1>BiowaitDone. CASE BiowaitDone(p)
    <2> USE <1>BiowaitDone DEF BiowaitDone, At, Hold
    <2>1. OthersStay(p) /\ cpu \in {p, NoProc}
        BY DEF OthersStay
    <2>2. \A c \in Bufs : Marked(c)
        BY DEF Marked, Has, bufVars, memVars, ioVars
    <2>3. \A c \in Bufs : (DirtyAt(p, c)' <=> DirtyAt(p, c)) \/ Has(c, "DELWRI")
        BY DEF DirtyAt, Has, bufVars, memVars, ioVars
    <2>4. PlaceData(p)'
        BY <1>d DEF PlaceData, BpData, EpData, FirstData, WantData, GatherData,
           Growing, InBwrite, Size, Has, bufVars, memVars, ioVars
    <2> QED
        BY <2>1, <2>2, <2>3, <2>4, QuietStep DEF bufVars, memVars, ioVars, histVars
<1>GotBlk. CASE GotBlk(p)
    <2> USE <1>GotBlk DEF GotBlk, At, Hold
    <2>1. OthersStay(p) /\ cpu \in {p, NoProc}
        BY DEF OthersStay
    <2>2. \A c \in Bufs : Marked(c)
        BY DEF Marked, Has, bufVars, memVars, ioVars
    <2>3. \A c \in Bufs : (DirtyAt(p, c)' <=> DirtyAt(p, c)) \/ Has(c, "DELWRI")
        BY DEF DirtyAt, Has, bufVars, memVars, ioVars
    <2>4. PlaceData(p)'
        BY <1>d DEF PlaceData, BpData, EpData, FirstData, WantData, GatherData,
           Growing, InBwrite, Size, Has, bufVars, memVars, ioVars
    <2> QED
        BY <2>1, <2>2, <2>3, <2>4, QuietStep DEF bufVars, memVars, ioVars, histVars
<1>BreadStart. CASE BreadStart(p)
    <2> USE <1>BreadStart DEF BreadStart, At, Goto
    <2>b. PICK b \in Bufs : b = call[p].bp
        BY <1>l
    <2>c. b \in Holds(p) /\ Settled(b) /\ ~Has(b, "INVAL") /\ ~Has(b, "DONE")
        BY <1>d, <1>o, <2>b DEF Holds, ProcKept, BpKept, PlaceData, BpData
    <2>f. /\ flags' = [flags EXCEPT ![b] = flags[b] \cup {"READ"} \cup {}] /\ pend' = pend \cup {b}
          /\ fresh' = fresh /\ lost' = lost /\ blk' = blk /\ bcount' = bcount
        BY <2>b DEF StartRead, Strategy, histVars, memVars
    <2>1. OthersStay(p) /\ cpu \in {p, NoProc}
        BY DEF OthersStay
    <2>2. ~InBwrite(p) /\ ~InBwrite(p)'
        BY DEF InBwrite
    <2>3. PlaceData(p)'
        <3>1. BpData(p)'
            BY <2>b, <2>c, <2>f DEF BpData, Growing, InBwrite, Has, BufTypes
        <3>2. FirstData(p)'
            BY <1>o DEF FirstData, ProcKept, Places
        <3>3. EpData(p)' /\ GatherData(p)' /\ WantData(p)'
            BY <1>d, <2>2 DEF EpData, GatherData, PlaceData, WantData, InBwrite
        <3> QED
            BY <3>1, <3>2, <3>3 DEF PlaceData
    <2> QED
        BY <2>c, <2>f, <2>1, <2>2, <2>3, ReadStep
<1>BreadaStart. CASE BreadaStart(p)
    <2> USE <1>BreadaStart DEF BreadaStart, At
    <2>b. PICK b \in Bufs : b = call[p].bp
        BY <1>l
    <2>c. b \in Holds(p) /\ Settled(b) /\ ~Has(b, "INVAL")
        BY <1>d, <1>o, <2>b DEF Holds, ProcKept, BpKept, PlaceData, BpData
    <2>d. /\ call'[p].first = b /\ call'[p].bp = NoBuf /\ pc'[p] = "rahead"
          /\ call'[p].want = call[p].want /\ call'[p].next = call[p].next
        BY <2>b DEF CallType
    <2>1. OthersStay(p) /\ cpu \in {p, NoProc}
        BY DEF OthersStay
    <2>2. ~InBwrite(p) /\ ~InBwrite(p)'
        BY DEF InBwrite
    <2>3. BpData(p)' /\ EpData(p)' /\ GatherData(p)' /\ WantData(p)'
        BY <1>d, <2>d, <2>2 DEF BpData, Growing, EpData, GatherData, PlaceData, WantData, InBwrite
    <2>4. CASE Has(b, "DONE") /\ UNCHANGED <<flags, pend, ahead, biodq>>
        <3>1. FirstData(p)'
            BY <2>c, <2>d, <2>4 DEF FirstData, Has, Settled
        <3>2. \A c \in Bufs : /\ Marked(c)
                              /\ DirtyAt(p, c)' <=> DirtyAt(p, c)
            BY <2>2, <2>4 DEF Marked, DirtyAt, InBwrite, Has
        <3> QED
            BY <2>1, <2>3, <2>4, <3>1, <3>2, QuietStep DEF PlaceData, memVars, histVars
    <2>5. CASE ~Has(b, "DONE") /\ StartRead(b, {})
        <3>1. /\ flags' = [flags EXCEPT ![b] = flags[b] \cup {"READ"} \cup {}]
              /\ pend' = pend \cup {b}
              /\ fresh' = fresh /\ lost' = lost /\ blk' = blk /\ bcount' = bcount
            BY <2>5 DEF StartRead, Strategy, histVars, memVars
        <3>2. FirstData(p)'
            BY <2>c, <2>d, <3>1 DEF FirstData, Has, BufTypes
        <3> QED
            BY <2>c, <2>1, <2>2, <2>3, <2>5, <3>1, <3>2, ReadStep DEF PlaceData
    <2> QED
        BY <2>b, <2>4, <2>5
<1>BreadaIncore. CASE BreadaIncore(p)
    <2> USE <1>BreadaIncore DEF BreadaIncore, AtRahead, At, Goto, FinishBreada
    <2>1. OthersStay(p) /\ cpu \in {p, NoProc}
        BY DEF OthersStay
    <2>2. \A c \in Bufs : Marked(c)
        BY DEF Marked, Has, bufVars, memVars, ioVars
    <2>3. \A c \in Bufs : (DirtyAt(p, c)' <=> DirtyAt(p, c)) \/ Has(c, "DELWRI")
        BY DEF DirtyAt, Has, bufVars, memVars, ioVars
    <2>4. PlaceData(p)'
        BY <1>d DEF PlaceData, BpData, EpData, FirstData, WantData, GatherData,
           Growing, InBwrite, Size, Has, bufVars, memVars, ioVars, NoCall, NoWant
    <2> QED
        BY <2>1, <2>2, <2>3, <2>4, QuietStep DEF bufVars, memVars, ioVars, histVars
<1>BreadaGetblk. CASE BreadaGetblk(p)
    <2> USE <1>BreadaGetblk DEF BreadaGetblk, AtRahead, At, Goto
    <2>1. OthersStay(p) /\ cpu \in {p, NoProc}
        BY DEF OthersStay
    <2>2. \A c \in Bufs : Marked(c)
        BY DEF Marked, Has, bufVars, memVars, ioVars
    <2>3. \A c \in Bufs : (DirtyAt(p, c)' <=> DirtyAt(p, c)) \/ Has(c, "DELWRI")
        BY DEF DirtyAt, Has, bufVars, memVars, ioVars
    <2>4. PlaceData(p)'
        BY <1>d DEF PlaceData, BpData, EpData, FirstData, WantData, GatherData,
           Growing, InBwrite, Size, Has, bufVars, memVars, ioVars, CallType
    <2> QED
        BY <2>1, <2>2, <2>3, <2>4, QuietStep DEF bufVars, memVars, ioVars, histVars
<1>BreadaAhead. CASE BreadaAhead(p)
    <2> USE <1>BreadaAhead DEF BreadaAhead, At, FinishBreada, Goto
    <2>b. PICK b \in Bufs : b = call[p].bp
        BY <1>l
    <2>c. b \in Holds(p) /\ Settled(b) /\ ~Has(b, "INVAL")
        BY <1>d, <1>o, <2>b DEF Holds, ProcKept, BpKept, PlaceData, BpData
    <2>d. /\ call'[p].first = NoBuf /\ call'[p].bp = call[p].first /\ call'[p].op = "bread"
          /\ call'[p].want = call[p].next /\ call'[p].next = NoWant
          /\ pc'[p] = IF call[p].first = NoBuf THEN "getblk" ELSE "biowait"
        BY DEF NoCall
    <2>e. call[p].first # b
        BY <1>o, <2>b DEF ProcKept, Places
    <2>1. cpu \in {p, NoProc} /\ OthersStay(p)
        BY AwakenStays DEF OthersStay
    <2>2. ~InBwrite(p) /\ ~InBwrite(p)'
        BY <2>d DEF InBwrite
    <2>3. EpData(p)' /\ GatherData(p)' /\ WantData(p)' /\ FirstData(p)'
        BY <1>d, <2>d, <2>2 DEF EpData, GatherData, PlaceData, WantData, FirstData, InBwrite, NoWant
    <2>4. ASSUME \A c \in Bufs \ {b} : SameData(c) PROVE BpData(p)'
        <3>1. CASE call[p].first = NoBuf
            BY <2>d, <3>1 DEF BpData, Growing, InBwrite
        <3>2. CASE call[p].first # NoBuf
            <4>1. PICK c \in Bufs \ {b} : c = call[p].first
                BY <2>e, <3>2 DEF CallType
            <4>2. SameData(c)
                BY <2>4, <4>1
            <4> QED
                BY <1>d, <2>d, <3>2, <4>1, <4>2 DEF BpData, Growing, InBwrite, SameData, PlaceData,
                   FirstData
        <3> QED
            BY <3>1, <3>2
    <2>5. CASE /\ Has(b, "DONE")
               /\ Brelse(b, flags[b], bufsize[b], fresh)
               /\ UNCHANGED <<pend, ahead, biodq>>
        <3>1. \A c \in Bufs \ {b} : SameData(c)
            BY <2>5, BrelseKept DEF SameData, Has, memVars
        <3>2. flags[b] \in SUBSET Flags
            BY DEF BufTypes
        <3>3. Dirty(b) => Has(b, "DELWRI")
            BY <2>c, <2>2, DirtyHeld, HeldClean DEF Settled
        <3>4. Has(b, "DELWRI") => flags[b] \cap {"INVAL", "NOCACHE"} = {}
            BY <1>b DEF FlagsData, Has
        <3> QED
            BY <2>c, <2>1, <2>2, <2>3, <2>4, <2>5, <3>1, <3>2, <3>3, <3>4, ReleaseStep
               DEF PlaceData, memVars, Has, Settled
    <2>6. CASE /\ ~Has(b, "DONE")
               /\ StartRead(b, {"ASYNC"})
               /\ UNCHANGED <<onq, blk, freewanted, wchan, histVars>>
        <3>1. /\ flags' = [flags EXCEPT ![b] = flags[b] \cup {"READ"} \cup {"ASYNC"}]
              /\ pend' = pend \cup {b}
              /\ fresh' = fresh /\ lost' = lost /\ blk' = blk /\ bcount' = bcount
            BY <2>6 DEF StartRead, Strategy, histVars, memVars
        <3>2. \A c \in Bufs \ {b} : SameData(c)
            BY <3>1 DEF SameData, Has
        <3> QED
            BY <2>c, <2>1, <2>2, <2>3, <2>4, <2>6, <3>1, <3>2, ReadStep DEF PlaceData
    <2> QED
        BY <2>b, <2>5, <2>6
<1>Release. CASE Release(p)
    <2> USE <1>Release DEF Release, At, Return
    <2>b. PICK b \in Bufs : b = call[p].bp
        BY <1>l
    <2>c. b \in Holds(p) /\ Settled(b)
        BY <1>o, <2>b DEF Holds, ProcKept, BpKept
    <2>f. PICK F \in {{}, {"AGE"}, {"NOCACHE"}} :
                  /\ "NOCACHE" \in F => ~Has(b, "DELWRI")
                  /\ Brelse(b, flags[b] \cup F, bufsize[b], fresh)
        BY <2>b
    <2>1. OthersStay(p) /\ cpu \in {p, NoProc}
        BY AwakenStays DEF OthersStay
    <2>2. ~InBwrite(p) /\ ~InBwrite(p)'
        BY DEF InBwrite
    <2>3. PlaceData(p)'
        BY DEF PlaceData, BpData, EpData, FirstData, WantData, GatherData, Growing, InBwrite,
           NoCall, NoWant
    <2>4. Dirty(b) => Has(b, "DELWRI")
        BY <2>c, <2>2, DirtyHeld, HeldClean DEF Settled
    <2>5. /\ flags[b] \cup F \in SUBSET Flags /\ flags[b] \subseteq flags[b] \cup F
          /\ flags[b] \cup F \subseteq flags[b] \cup {"AGE", "NOCACHE", "INVAL"}
          /\ "DELWRI" \in flags[b] \cup F
             => (flags[b] \cup F) \cap {"INVAL", "NOCACHE"} = {}
          /\ Dirty(b) => (flags[b] \cup F) \cap {"DELWRI", "ERROR"} # {}
        BY <1>b, <2>f, <2>4 DEF FlagsData, Has, BufTypes, Flags
    <2> QED
        BY <2>c, <2>f, <2>1, <2>2, <2>3, <2>5, ReleaseStep DEF memVars, ioVars, Settled
<1>Bdwrite. CASE Bdwrite(p)
    <2> USE <1>Bdwrite DEF Bdwrite, MayModify, At, Return
    <2>b. PICK b \in Bufs : b = call[p].bp
        BY <1>l
    <2>c. b \in Holds(p) /\ Settled(b) /\ Covers(b) = Extent(b) /\ ~Has(b, "INVAL")
        BY <1>d, <1>o, <2>b DEF Holds, ProcKept, BpKept, PlaceData, BpData, Covers
    <2>h. \A u \in Units : Modified(p)[u] = IF u \in Covers(b) THEN {b} ELSE fresh[u]
        BY <2>b, <2>c DEF Modified
    <2>u. \A c \in Bufs \ {b} : \A u \in Covers(c) : u \in Units /\ u \notin Covers(b)
        BY <1>b, MappedOnce DEF BufData
    <2> DEFINE F == flags[b] \cup {"DELWRI", "DONE"}
               H == Modified(p)
    <2>f. Brelse(b, F, bufsize[b], H) /\ bcount' = bcount /\ pend' = pend
        BY <2>b DEF memVars, ioVars
    <2>1. OthersStay(p) /\ cpu \in {p, NoProc}
        BY AwakenStays DEF OthersStay
    <2>2. \A c \in Bufs \ {b} : SameData(c)
        BY <2>f, BrelseKept DEF SameData, Has
    <2>3. Free(p, b)
        BY <2>c DEF Free
    <2>4. \A q \in Procs \ {p} : /\ PlaceData(q)'
                                 /\ \A c \in Bufs : DirtyAt(q, c)' <=> DirtyAt(q, c)
        BY <2>1, <2>2, <2>3, OthersData
    <2>5. \A c \in Bufs : ~DirtyAt(p, c) /\ ~DirtyAt(p, c)'
        BY DEF DirtyAt
    <2>6. \A c \in Bufs \ {b} : Dirty(c)' <=> Dirty(c)
        BY <2>2, <2>4, <2>5 DEF Dirty, SameData
    <2>7. /\ F \in SUBSET Flags /\ F \cap {"INVAL", "NOCACHE"} = {}
          /\ H \in [Units -> SUBSET (Bufs \cup {Disk})]
          /\ pend' = pend \ {b}
        <3>1. F \in SUBSET Flags /\ F \cap {"INVAL", "NOCACHE"} = {}
            BY <1>b, <2>c DEF FlagsData, Has, BufTypes, Flags
        <3>2. H \in [Units -> SUBSET (Bufs \cup {Disk})]
            BY <2>b DEF Modified, HistTypes, HistType
        <3> QED
            BY <2>c, <2>f, <3>1, <3>2 DEF Settled
    <2>8. \A u \in Units : \A c \in Bufs : c \in H[u] => u \in Covers(c)
        BY <2>h DEF DataInv, UnitData
    <2>9. \A u \in Units : \/ u \in lost /\ H[u] = {}
                           \/ Disk \in H[u]
                           \/ \E c \in Bufs \ {b} : c \in H[u] /\ Dirty(c)
                           \/ b \in H[u] /\ F \cap {"DELWRI", "ERROR"} # {}
        BY <2>h DEF DataInv, UnitData
    <2>10. \A c \in Bufs \ {b} : Dirty(c) \/ Valid(c) =>
               \A u \in Covers(c) : (u \in lost /\ H[u] = {}) \/ c \in H[u]
        BY <1>b, <2>h, <2>u DEF DataInv, UnitData, BufData, Full
    <2>11. \A u \in Covers(b) : b \in H[u]
        BY <1>b, <2>h DEF BufData
    <2>12. PlaceData(p)'
        BY DEF PlaceData, BpData, EpData, FirstData, WantData, GatherData, Growing, InBwrite,
           NoCall, NoWant
    <2>13. /\ \A c \in Bufs : BufData(c)'
           /\ \A u \in Units : UnitData(u)'
        <3>1. "DELWRI" \in F /\ "DONE" \in F /\ (Has(b, "INVAL") => "INVAL" \in F)
            BY DEF Has
        <3> HIDE DEF F, H
        <3> QED
            BY <2>f, <2>6, <2>7, <2>8, <2>9, <2>10, <2>11, <3>1, BrelseData
    <2> QED
        BY <2>4, <2>12, <2>13 DEF DataInv
<1>CallWrite. CASE CallWrite(p)
    <2> USE <1>CallWrite DEF CallWrite, MayModify, At, CallBwrite, Goto
    <2>b. PICK b \in Bufs : b = call[p].bp
        BY <1>l
    <2>c. b \in Holds(p) /\ Settled(b) /\ Covers(b) = Extent(b) /\ ~Has(b, "INVAL")
        BY <1>d, <1>o, <2>b DEF Holds, ProcKept, BpKept, PlaceData, BpData, Covers
    <2>h. \A u \in Units : Modified(p)[u] = IF u \in Covers(b) THEN {b} ELSE fresh[u]
        BY <2>b, <2>c DEF Modified
    <2>u. \A c \in Bufs \ {b} : \A u \in Covers(c) : u \in Units /\ u \notin Covers(b)
        BY <1>b, MappedOnce DEF BufData
    <2>f. /\ \A c \in Bufs : \A f \in Flags \ {"ASYNC"} : Has(c, f)' <=> Has(c, f)
          /\ blk' = blk /\ bcount' = bcount /\ pend' = pend
          /\ fresh' = Modified(p) /\ lost' = lost \ Covers(b)
        BY <2>b, <2>c DEF Has, BufTypes, memVars, ioVars
    <2>1. OthersStay(p) /\ cpu \in {p, NoProc}
        BY DEF OthersStay
    <2>2. \A c \in Bufs : SameData(c) /\ Covers(c)' = Covers(c)
        BY <2>f DEF SameData, Flags, Covers, Extent
    <2>4. \A q \in Procs \ {p} : /\ PlaceData(q)'
                                 /\ \A c \in Bufs : DirtyAt(q, c)' <=> DirtyAt(q, c)
        BY <2>1, <2>2, OthersData
    <2>d. /\ pc'[p] = "bwrite" /\ call'[p].ep = b /\ call'[p].ret = "idle"
          /\ call'[p].bp = b /\ call'[p].first = NoBuf
          /\ call'[p].want = call[p].want /\ call'[p].next = call[p].next
        BY <1>o, <2>b DEF CallType, ProcKept, Places, InBwrite
    <2>5. /\ \A c \in Bufs \ {b} : ~DirtyAt(p, c) /\ ~DirtyAt(p, c)'
          /\ DirtyAt(p, b)'
        BY <2>d DEF DirtyAt
    <2>6. /\ \A c \in Bufs \ {b} : Dirty(c)' <=> Dirty(c)
          /\ Dirty(b)'
        BY <2>2, <2>4, <2>5 DEF Dirty, SameData
    <2>7. \A c \in Bufs : FlagsData(c)' /\ (Valid(c)' <=> Valid(c))
        <3> TAKE c \in Bufs
        <3>1. \A f \in {"NOCACHE", "DELWRI", "DONE", "INVAL", "BUSY", "ERROR"} :
                  f \in flags'[c] <=> f \in flags[c]
            BY <2>f DEF Flags, Has
        <3> QED
            BY <1>b, <2>f, <3>1 DEF FlagsData, Valid, Has
    <2>8. ASSUME NEW c \in Bufs PROVE BufData(c)'
        <3>1. CASE c = b
            <4>1. Full(b)'
                BY <1>b, <2>2, <2>f, <2>h DEF Full, BufData
            <4> QED
                BY <1>b, <2>2, <2>7, <3>1, <4>1 DEF BufData
        <3>2. CASE c # b
            <4>1. Dirty(c) \/ Valid(c) => Full(c)'
                BY <1>b, <2>2, <2>f, <2>h, <2>u, <3>2 DEF Full, BufData
            <4> QED
                BY <1>b, <2>2, <2>6, <2>7, <3>2, <4>1 DEF BufData
        <3> QED
            BY <3>1, <3>2
    <2>9. ASSUME NEW u \in Units PROVE UnitData(u)'
        <3>1. UnitData(u)
            BY DEF DataInv
        <3>2. \A c \in Bufs : Dirty(c) => Dirty(c)'
            BY <2>6
        <3>3. CASE u \in Covers(b)
            BY <2>2, <2>6, <2>f, <2>h, <3>3 DEF UnitData
        <3>4. CASE u \notin Covers(b)
            BY <2>2, <2>f, <2>h, <3>1, <3>2, <3>4 DEF UnitData
        <3> QED
            BY <3>3, <3>4
    <2>10. PlaceData(p)'
        BY <1>d, <2>c, <2>d, <2>f DEF PlaceData, BpData, EpData, FirstData, WantData, GatherData,
           Growing, InBwrite, Has, Flags
    <2> QED
        BY <2>4, <2>8, <2>9, <2>10 DEF DataInv
<1>BdwaitSleep. CASE BdwaitSleep(p)
    <2> USE <1>BdwaitSleep DEF BdwaitSleep, At, Sleep
    <2>1. OthersStay(p) /\ cpu \in {p, NoProc}
        BY DEF OthersStay
    <2>2. \A c \in Bufs : Marked(c)
        BY DEF Marked, Has, bufVars, memVars, ioVars
    <2>3. \A c \in Bufs : (DirtyAt(p, c)' <=> DirtyAt(p, c)) \/ Has(c, "DELWRI")
        BY DEF DirtyAt, Has, bufVars, memVars, ioVars
    <2>4. PlaceData(p)'
        BY <1>d DEF PlaceData, BpData, EpData, FirstData, WantData, GatherData,
           Growing, InBwrite, Size, Has, bufVars, memVars, ioVars
    <2> QED
        BY <2>1, <2>2, <2>3, <2>4, QuietStep DEF bufVars, memVars, ioVars, histVars
<1>BinvalfreeWrite. CASE BinvalfreeWrite(p)
    BY <1>d, <1>BinvalfreeWrite DEF BinvalfreeWrite, At, PlaceData, WantData
<1>BinvalfreeDrop. CASE BinvalfreeDrop(p)
    BY <1>d, <1>BinvalfreeDrop DEF BinvalfreeDrop, At, PlaceData, WantData
<1>BiodDrop. CASE BiodDrop(p)
    BY <1>d, <1>BiodDrop DEF BiodDrop, NoneDroppable, At, PlaceData, WantData
<1>FlushReturn. CASE FlushReturn(p)
    <2> USE <1>FlushReturn DEF FlushReturn, NoneDroppable, At, Return
    <2>1. OthersStay(p) /\ cpu \in {p, NoProc}
        BY DEF OthersStay
    <2>2. \A c \in Bufs : Marked(c)
        BY DEF Marked, Has, bufVars, memVars, ioVars
    <2>3. \A c \in Bufs : (DirtyAt(p, c)' <=> DirtyAt(p, c)) \/ Has(c, "DELWRI")
        BY DEF DirtyAt, Has, bufVars, memVars, ioVars
    <2>4. PlaceData(p)'
        BY <1>d DEF PlaceData, BpData, EpData, FirstData, WantData, GatherData,
           Growing, InBwrite, Size, Has, bufVars, memVars, ioVars, NoCall, NoWant
    <2> QED
        BY <2>1, <2>2, <2>3, <2>4, QuietStep DEF bufVars, memVars, ioVars, histVars
<1> QED
    BY <1>GetblkFind, <1>GetblkMiss, <1>GetblkBusy, <1>GetblkHit, <1>NoFreeBuf, <1>NewBuf,
       <1>WriteBehind, <1>BreallocSame, <1>BreallocDirty, <1>BreallocShrink,
       <1>BreallocGrow, <1>OverlapBusy, <1>OverlapDirty, <1>OverlapClean, <1>OverlapNone,
       <1>Allocbuf, <1>AllocbufSteal, <1>Steal, <1>BwriteStart, <1>VbwriteGather,
       <1>VbwriteStart, <1>BwriteDone, <1>BiowaitSleep, <1>BiowaitDone, <1>GotBlk,
       <1>BreadStart, <1>BreadaStart, <1>BreadaIncore, <1>BreadaGetblk, <1>BreadaAhead,
       <1>Release, <1>Bdwrite, <1>CallWrite, <1>BdwaitSleep, <1>BinvalfreeWrite,
       <1>BinvalfreeDrop, <1>BiodDrop, <1>FlushReturn DEF Step

\* So does the call of an operation
LEMMA DataCall ==
    ASSUME TypeOK, Located, OwnInv, MapInv, UniqueMapping, DataInv, ~Nfs,
           NEW p \in Procs, CallOp(p)
    PROVE  DataInv'
<1>t. /\ BufTypes /\ MemTypes /\ pc \in [Procs -> Labels] /\ call \in [Procs -> CallType]
      /\ \A b \in Bufs : FlagsData(b) /\ BufferKept(b)
      /\ ProcKept(p)
    BY DEF TypeOK, ProcTypes, DataInv, BufData, OwnInv
<1>1. ASSUME NEW o, NEW w, NEW n, NEW l \in {"getblk", "newbuf", "rahead", "bflush", "bdwait",
                                             "blkflush"},
             w[1] # NoBlk => w \in Blocks, n[1] # NoBlk => n \in Blocks, Call(p, o, w, n, l)
      PROVE  DataInv'
    <2> USE <1>t, <1>1 DEF Call, At, Goto, bufVars, memVars, ioVars, histVars
    <2>1. OthersStay(p) /\ cpu \in {p, NoProc}
        BY DEF OthersStay
    <2>2. \A c \in Bufs : Marked(c) /\ (DirtyAt(p, c)' <=> DirtyAt(p, c))
        BY DEF Marked, DirtyAt, Has
    <2>3. /\ pc'[p] = l /\ call'[p].first = NoBuf
          /\ call'[p].want = w /\ call'[p].next = n
        BY DEF CallType, ProcKept, Places, InBwrite
    <2>4. PlaceData(p)'
        BY <2>3 DEF PlaceData, BpData, EpData, FirstData, WantData, GatherData, Growing, InBwrite
    <2> QED
        BY <2>1, <2>2, <2>4, QuietStep
<1>n. NoWant[1] = NoBlk /\ \A s : <<NoBlk, s>>[1] = NoBlk
    BY DEF NoWant
<1>2. CASE CallBreada(p)
    BY <1>1, <1>2 DEF CallBreada
<1>3. CASE CallRead(p)
    BY <1>1, <1>3, <1>n DEF CallRead
<1>4. CASE CallFlush(p)
    BY <1>1, <1>4, <1>n DEF CallFlush
<1>5. CASE Binval(p)
    <2> USE <1>t, <1>5 DEF Binval, At, ioVars, memVars
    <2> DEFINE S == {b \in Bufs : blk[b] # NoBlk /\ flags[b] \cap {"INVAL", "DONE"} = {"DONE"}}
    <2>1. OthersStay(p) /\ cpu \in {p, NoProc}
        BY DEF OthersStay
    <2>2. \A c \in Bufs : /\ ~Has(c, "BUSY") /\ ~Has(c, "DELWRI") /\ ~Dirty(c)
                          /\ c \notin pend /\ Free(p, c)
        BY FreeClean DEF Has, BufferKept, Free
    <2>3. \A q \in Procs \ {p} : /\ PlaceData(q)'
                                 /\ \A c \in Bufs : DirtyAt(q, c)' <=> DirtyAt(q, c)
        BY <2>1, <2>2, OthersData
    <2>4. PlaceData(p)' /\ \A c \in Bufs : ~DirtyAt(p, c)' /\ ~DirtyAt(p, c)
        BY DEF PlaceData, BpData, EpData, FirstData, WantData, GatherData, Growing, InBwrite,
           ProcKept, Places, DirtyAt, DataInv
    <2>5. \A c \in S : FlagsData(c)' /\ Covers(c)' = {}
        BY <2>2 DEF FlagsData, Covers, Has, BufTypes
    <2>6. ASSUME NEW c \in Bufs \ S PROVE BufStep(c) /\ Covers(c)' = Covers(c)
        <3>1. flags'[c] = flags[c] /\ blk'[c] = blk[c] /\ bcount'[c] = bcount[c]
            BY DEF BufTypes
        <3>2. BufStep(c)
            BY <2>3, <2>4, <3>1, QuietBuf DEF Marked, Has
        <3> QED
            BY <3>1, <3>2 DEF Covers, Extent, Has
    <2>7. /\ S \in SUBSET Bufs /\ \A c \in S : ~Dirty(c)
          /\ fresh' = [u \in Units |-> fresh[u] \ S] /\ lost' = lost
        BY <2>2
    <2>8. \A q \in Procs : PlaceData(q)'
        BY <2>3, <2>4
    <2> HIDE DEF S
    <2> QED
        BY <2>5, <2>6, <2>7, <2>8, GiveUp
<1> QED
    BY <1>2, <1>3, <1>4, <1>5 DEF CallOp

-----------------------------------------------------------------------------
(* The end of a request                                                    *)

\* Who has a buffer that is written waits for it in bwrite
LEMMA WriterWaits ==
    ASSUME TypeOK, Located, NEW q \in Procs, ProcKept(q), PlaceData(q), NEW b \in Holds(q),
           b \in pend, ~Has(b, "READ")
    PROVE  pc[q] = "bwritewait" /\ call[q].ep = b
<1>t. pc[q] \in Labels /\ call[q] \in CallType /\ NoBuf \notin Bufs /\ b \in Bufs
    BY BufsAssumption DEF TypeOK, ProcTypes, Holds
<1>r. call[q].ret \in Returns
    BY <1>t DEF CallType
<1>1. b # call[q].first
    BY <1>t DEF PlaceData, FirstData
<1>2. CASE b = call[q].ep /\ InBwrite(q)
    BY <1>2 DEF ProcKept, EpKept, InBwrite
<1>3. CASE b = call[q].bp /\ pc[q] # "hit" /\ ~InBwrite(q)
    <2>1. pc[q] \in {"brealloc", "overlap", "allocbuf", "steal", "got", "held", "biowait"}
        BY <1>t, <1>3 DEF ProcKept, Places, InBwrite, Labels
    <2> QED
        BY <1>3, <2>1 DEF ProcKept, BpKept, Settled, PlaceData, BpData
<1>4. CASE b = call[q].bp /\ InBwrite(q)
    <2>1. CASE call[q].ret \in {"overlap", "steal"}
        BY <1>4, <2>1 DEF ProcKept, BpKept, Settled
    <2>2. CASE call[q].ret \notin {"overlap", "steal"}
        BY <1>2, <1>4, <2>2, <1>t, <1>r DEF ProcKept, Places, Returns
    <2> QED
        BY <2>1, <2>2
<1> QED
    BY <1>1, <1>2, <1>3, <1>4 DEF Holds

\* A buffer whose request is under way is dirty when it is written, and clean when it is read
LEMMA PendData ==
    ASSUME OwnInv, DataInv, NEW b \in Bufs, b \in pend
    PROVE  /\ Dirty(b) <=> ~Has(b, "READ")
           /\ ~Has(b, "DELWRI") /\ ~Has(b, "INVAL") /\ Covers(b) = Extent(b)
<1>1. FlagsData(b) /\ BufferKept(b)
    BY DEF OwnInv, DataInv, BufData
<1>2. ASSUME NEW q \in Procs, DirtyAt(q, b) PROVE FALSE
    BY <1>2 DEF DirtyAt, OwnInv, ProcKept, EpKept, DataInv, PlaceData, EpData, InBwrite, Has
<1> QED
    BY <1>1, <1>2 DEF Dirty, FlagsData, BufferKept, Covers

\* Where the contents are after a transfer, or after a failure
LEMMA TransferData ==
    ASSUME TypeOK, OwnInv, UniqueMapping, DataInv, NEW b \in Bufs, b \in pend,
           NEW bad \in BOOLEAN, NEW H, H = IF bad THEN Failed(b) ELSE Transferred(b)
    PROVE  /\ H \in [Units -> SUBSET (Bufs \cup {Disk})]
           /\ \A u \in Units : \A c \in Bufs : c \in H[u] => u \in Covers(c)
           /\ \A u \in Units : u \in lost => H[u] = {}
           /\ \A u \in Units : \/ u \in lost
                               \/ Disk \in H[u]
                               \/ \E c \in Bufs \ {b} : c \in H[u] /\ Dirty(c)
                               \/ b \in H[u] /\ bad /\ ~Has(b, "READ")
           /\ \A c \in Bufs \ {b} : Dirty(c) \/ Valid(c) =>
                  \A u \in Covers(c) : u \in lost \/ c \in H[u]
           /\ ~bad \/ ~Has(b, "READ") => \A u \in Covers(b) : u \in lost \/ b \in H[u]
<1>t. /\ fresh \in HistType /\ Disk \notin Bufs
      /\ \A u \in Units : UnitData(u)
      /\ \A c \in Bufs : BufData(c)
    BY BufsAssumption DEF TypeOK, HistTypes, DataInv
<1>c. Covers(b) = Extent(b) /\ (Dirty(b) <=> ~Has(b, "READ"))
    BY PendData
<1>h. /\ H \in [Units -> SUBSET (Bufs \cup {Disk})]
      /\ \A u \in Units :
             H[u] = IF bad THEN IF Has(b, "READ") THEN fresh[u] \ {b} ELSE fresh[u]
                    ELSE IF u \notin Covers(b) THEN fresh[u]
                    ELSE IF Has(b, "READ")
                    THEN IF Disk \in fresh[u] THEN fresh[u] \cup {b} ELSE fresh[u] \ {b}
                    ELSE IF b \in fresh[u] THEN fresh[u] \cup {Disk} ELSE fresh[u] \ {Disk}
    BY <1>t, <1>c DEF Failed, Transferred, Forget, HistType
<1>f. ~Has(b, "READ") => \A u \in Covers(b) : u \in lost \/ b \in fresh[u]
    BY <1>t, <1>c DEF BufData, Full
<1>r. Has(b, "READ") => \A u \in Covers(b) : u \in lost \/ Disk \in fresh[u]
    BY <1>c, CleanOnDisk
<1>o. ASSUME NEW u \in Units, NEW c \in Bufs \ {b} PROVE c \in H[u] <=> c \in fresh[u]
    <2>1. c # b /\ c # Disk
        BY <1>t
    <2> DEFINE h == H[u]
               f == fresh[u]
    <2>2. h \in {f \ {b}, f, f \cup {b}, f \cup {Disk}, f \ {Disk}}
        BY <1>h
    <2> HIDE DEF h, f
    <2>3. c \in h <=> c \in f
        BY <2>1, <2>2
    <2> QED
        BY <2>3 DEF h, f
<1>1. \A u \in Units : \A c \in Bufs : c \in H[u] => u \in Covers(c)
    BY <1>t, <1>h, <1>o DEF UnitData
<1>2. \A u \in Units : u \in lost => H[u] = {}
    BY <1>t, <1>h DEF UnitData
<1>3. ASSUME NEW u \in Units, u \notin lost
      PROVE  \/ Disk \in H[u]
             \/ \E c \in Bufs \ {b} : c \in H[u] /\ Dirty(c)
             \/ b \in H[u] /\ bad /\ ~Has(b, "READ")
    <2>1. CASE Disk \in fresh[u]
        BY <1>t, <1>h, <1>f, <1>3, <2>1
    <2>2. CASE \E c \in Bufs \ {b} : c \in fresh[u] /\ Dirty(c)
        BY <1>o, <2>2
    <2>3. CASE b \in fresh[u] /\ Dirty(b)
        BY <1>t, <1>c, <1>h, <2>3 DEF UnitData
    <2> QED
        BY <1>t, <1>3, <2>1, <2>2, <2>3 DEF UnitData
<1>4. ASSUME NEW c \in Bufs \ {b}, Dirty(c) \/ Valid(c), NEW u \in Covers(c), u \notin lost
      PROVE  c \in H[u]
    BY <1>t, <1>o, <1>4 DEF BufData, Full
<1>5. ASSUME ~bad \/ ~Has(b, "READ"), NEW u \in Covers(b), u \notin lost PROVE b \in H[u]
    <2>1. u \in Units
        BY <1>t DEF BufData
    <2> QED
        BY <1>h, <1>f, <1>r, <1>5, <2>1
<1> QED
    BY <1>h, <1>1, <1>2, <1>3, <1>4, <1>5

\* The end of a request keeps the invariant
LEMMA DataDone ==
    ASSUME TypeOK, Located, OwnInv, MapInv, UniqueMapping, DataInv, ~Nfs,
           NEW b \in Bufs, IODone(b)
    PROVE  DataInv'
<1>t. /\ BufTypes /\ NoBuf \notin Bufs
      /\ \A c \in Bufs : FlagsData(c) /\ BufData(c) /\ BufferKept(c) /\ Owned(c)
      /\ \A q \in Procs : ProcKept(q) /\ PlaceData(q) /\ call[q] \in CallType
    BY BufsAssumption DEF TypeOK, ProcTypes, OwnInv, DataInv, BufData
<1>p. pc' = pc /\ call' = call /\ bcount' = bcount
    BY DEF IODone, BiodTake, IODoneAsync, IODoneSync, bufVars, memVars
<1>1. CASE BiodTake(b)
    <2> USE <1>1 DEF BiodTake, bufVars, memVars, histVars
    <2>1. \A c \in Bufs : Marked(c) /\ SameData(c)
        BY DEF Marked, SameData, Has
    <2>2. ASSUME NEW q \in Procs
          PROVE  PlaceData(q)' /\ \A c \in Bufs : DirtyAt(q, c)' <=> DirtyAt(q, c)
        <3>1. pc[q] = "getmem" => \A c \in call[q].gset : Has(c, "DELWRI")'
            BY <1>t DEF PlaceData, GatherData, Has
        <3>2. \A c \in Bufs : c \in Holds(q) => SameData(c)
            BY <2>1
        <3>3. Has(call[q].bp, "INVAL")' => Has(call[q].bp, "INVAL")
            BY DEF Has
        <3> QED
            BY <1>t, <1>p, <3>1, <3>2, <3>3, PlaceStays
    <2>3. \A c \in Bufs : BufStep(c)
        BY <2>1, <2>2, QuietBuf
    <2> QED
        BY <2>2, <2>3, DataFrame
<1>c. ASSUME Completes(b)
      PROVE  /\ b \in pend /\ ~Has(b, "DONE") /\ ~Has(b, "DELWRI") /\ ~Has(b, "INVAL")
             /\ Has(b, "BUSY") /\ ~Has(b, "NOCACHE")
    BY <1>t, <1>c, PendData DEF Completes, BufferKept, FlagsData, Has
<1>2. CASE IODoneAsync(b)
    <2>c. Completes(b) /\ OnDevice(b)
        BY <1>2 DEF IODoneAsync, Completes, OnDevice
    <2>f. PICK bad \in BOOLEAN :
              BiodoneAsync(b, Counted(b),
                           flags[b] \cup (IF bad THEN {"DONE", "ERROR"} ELSE {"DONE"}),
                           IF bad THEN Failed(b) ELSE Transferred(b))
        BY <1>2 DEF IODoneAsync
    <2> DEFINE F == flags[b] \cup (IF bad THEN {"DONE", "ERROR"} ELSE {"DONE"})
               H == IF bad THEN Failed(b) ELSE Transferred(b)
    <2>1. Brelse(b, F, bufsize[b], H) /\ pend' = pend \ {b}
        BY <2>f DEF BiodoneAsync, Finish
    <2>2. /\ F \in SUBSET Flags /\ "DELWRI" \notin F
          /\ Has(b, "INVAL") => "INVAL" \in F
          /\ bad => "ERROR" \in F
        BY <1>t, <1>c, <2>c DEF BufTypes, Flags, Has
    <2>3. /\ H \in [Units -> SUBSET (Bufs \cup {Disk})]
          /\ \A u \in Units : \A c \in Bufs : c \in H[u] => u \in Covers(c)
          /\ \A u \in Units : u \in lost => H[u] = {}
          /\ \A u \in Units : \/ u \in lost
                              \/ Disk \in H[u]
                              \/ \E c \in Bufs \ {b} : c \in H[u] /\ Dirty(c)
                              \/ b \in H[u] /\ bad /\ ~Has(b, "READ")
          /\ \A c \in Bufs \ {b} : Dirty(c) \/ Valid(c) =>
                 \A u \in Covers(c) : u \in lost \/ c \in H[u]
          /\ ~bad \/ ~Has(b, "READ") => \A u \in Covers(b) : u \in lost \/ b \in H[u]
        BY <1>c, <2>c, TransferData
    <2>4. Has(b, "INVAL")' => Has(b, "INVAL")
        BY <1>t, <1>c, <2>1, <2>c DEF Brelse, Released, Has, BufTypes
    <2> HIDE DEF F, H
    <2>5. \A c \in Bufs \ {b} : SameData(c) /\ flags'[c] = flags[c]
        BY <1>t, <1>p, <2>1, BrelseKept DEF SameData, Has
    <2>6. ASSUME NEW q \in Procs
          PROVE  PlaceData(q)' /\ \A c \in Bufs : DirtyAt(q, c)' <=> DirtyAt(q, c)
        <3>1. ASSUME pc[q] = "getmem", NEW c \in call[q].gset PROVE Has(c, "DELWRI")'
            <4>1. c \in Bufs \ {b} /\ Has(c, "DELWRI")
                BY <1>t, <1>c, <2>c, <3>1 DEF PlaceData, GatherData, CallType
            <4> QED
                BY <2>5, <4>1 DEF Has
        <3>2. \A c \in Bufs : c \in Holds(q) => SameData(c)
            BY <1>t, <2>5, <2>c, HeldBusy
        <3>3. pc[q] = "hit" => (Has(call[q].bp, "INVAL")' => Has(call[q].bp, "INVAL"))
            <4>1. SUFFICES ASSUME pc[q] = "hit"
                           PROVE  Has(call[q].bp, "INVAL")' => Has(call[q].bp, "INVAL")
                OBVIOUS
            <4>2. PICK c \in Bufs : c = call[q].bp
                BY <4>1 DEF Located
            <4>3. Has(c, "INVAL")' => Has(c, "INVAL")
                BY <2>4, <2>5 DEF Has
            <4> QED
                BY <1>p, <4>2, <4>3 DEF Has
        <3> QED
            BY <1>t, <1>p, <3>1, <3>2, <3>3, PlaceStays
    <2>7. \A c \in Bufs \ {b} : Dirty(c)' <=> Dirty(c)
        BY <2>5, <2>6 DEF Dirty, SameData
    <2>8. ~Dirty(b)'
        <3>1. ~Has(b, "DELWRI")'
            BY <1>t, <2>1, <2>2 DEF Brelse, Released, Has, BufTypes
        <3>2. ASSUME NEW q \in Procs, DirtyAt(q, b)' PROVE FALSE
            BY <1>t, <2>6, <2>c, <3>2, DirtyHeld, HeldBusy
        <3> QED
            BY <2>1, <3>1, <3>2 DEF Dirty
    <2>9. /\ \A c \in Bufs : BufData(c)'
          /\ \A u \in Units : UnitData(u)'
        <3>1. \A u \in Units : \/ u \in lost /\ H[u] = {}
                               \/ Disk \in H[u]
                               \/ \E c \in Bufs \ {b} : c \in H[u] /\ Dirty(c)
                               \/ b \in H[u] /\ F \cap {"DELWRI", "ERROR"} # {}
            BY <2>2, <2>3
        <3>2. \A c \in Bufs \ {b} : Dirty(c) \/ Valid(c) =>
                  \A u \in Covers(c) : (u \in lost /\ H[u] = {}) \/ c \in H[u]
            BY <1>t, <2>3 DEF BufData
        <3>3. F \cap {"DELWRI", "DONE"} # {} /\ F \cap {"ERROR", "INVAL", "NOCACHE"} = {} =>
                  \A u \in Covers(b) : (u \in lost /\ H[u] = {}) \/ b \in H[u]
            BY <1>t, <2>2, <2>3 DEF BufData
        <3> QED
            BY <1>p, <2>1, <2>2, <2>3, <2>7, <2>8, <3>1, <3>2, <3>3, BrelseData
    <2> QED
        BY <2>6, <2>9 DEF DataInv
<1>3. CASE IODoneSync(b)
    <2>c. Completes(b) /\ ~Has(b, "ASYNC") /\ Has(b, "BUSY") /\ b \in pend
        BY <1>3, <1>c DEF IODoneSync, Completes
    <2>f. PICK bad \in BOOLEAN :
              /\ flags' = [flags EXCEPT ![b] =
                     (@ \cup (IF bad THEN {"DONE", "ERROR"} ELSE {"DONE"})) \ {"WANTED"}]
              /\ fresh' = IF bad THEN Failed(b) ELSE Transferred(b)
        BY <1>3 DEF IODoneSync
    <2>g. /\ pend' = pend \ {b} /\ blk' = blk /\ lost' = lost
          /\ \A c \in Bufs : \A f \in {"INVAL", "READ", "NOCACHE", "DELWRI", "BUSY"} :
                 Has(c, f)' <=> Has(c, f)
          /\ \A c \in Bufs \ {b} : flags'[c] = flags[c]
          /\ Has(b, "ERROR")' <=> bad \/ Has(b, "ERROR")
        BY <1>t, <1>3, <2>f DEF IODoneSync, Finish, Has, BufTypes
    <2>3. /\ \A u \in Units : \A c \in Bufs : c \in fresh'[u] => u \in Covers(c)
          /\ \A u \in Units : u \in lost => fresh'[u] = {}
          /\ \A u \in Units : \/ u \in lost
                              \/ Disk \in fresh'[u]
                              \/ \E c \in Bufs \ {b} : c \in fresh'[u] /\ Dirty(c)
                              \/ b \in fresh'[u] /\ bad /\ ~Has(b, "READ")
          /\ \A c \in Bufs \ {b} : Dirty(c) \/ Valid(c) =>
                 \A u \in Covers(c) : u \in lost \/ c \in fresh'[u]
          /\ ~bad \/ ~Has(b, "READ") => \A u \in Covers(b) : u \in lost \/ b \in fresh'[u]
        BY <2>c, <2>f, TransferData
    <2>4. \A c \in Bufs : Covers(c)' = Covers(c)
        BY <1>p, <2>g DEF Covers, Extent
    <2>5. ASSUME NEW c \in Bufs \ {b}
          PROVE  (Dirty(c)' <=> Dirty(c)) /\ (Valid(c)' <=> Valid(c)) /\ FlagsData(c)'
        BY <1>t, <1>p, <2>g DEF Dirty, DirtyAt, Valid, FlagsData, Has
    <2>6. Dirty(b)' => ~Has(b, "READ")
        <3>1. ~Has(b, "DELWRI")' /\ b \notin pend'
            BY <1>c, <2>c, <2>g
        <3>2. ASSUME NEW q \in Procs, DirtyAt(q, b)' PROVE ~Has(b, "READ")
            BY <1>t, <1>p, <2>c, <3>2 DEF DirtyAt, ProcKept, EpKept, PlaceData, EpData, Has
        <3> QED
            BY <3>1, <3>2 DEF Dirty
    <2>7. bad /\ ~Has(b, "READ") => Dirty(b)'
        <3>1. SUFFICES ASSUME bad, ~Has(b, "READ") PROVE Dirty(b)'
            OBVIOUS
        <3>2. PICK q \in Procs : b \in Holds(q)
            BY <1>t, <2>c DEF Owned, OnDevice
        <3>3. pc[q] = "bwritewait" /\ call[q].ep = b
            BY <1>t, <2>c, <3>1, <3>2, WriterWaits
        <3>4. DirtyAt(q, b)'
            BY <1>p, <2>g, <3>1, <3>3 DEF DirtyAt
        <3> QED
            BY <3>4 DEF Dirty
    <2>8. ASSUME NEW c \in Bufs PROVE BufData(c)'
        <3>1. CASE c # b
            BY <1>t, <2>3, <2>4, <2>5, <2>g, <3>1 DEF BufData, Full
        <3>2. CASE c = b
            <4>1. FlagsData(b)'
                BY <1>t, <1>c, <2>c, <2>g DEF FlagsData, Has
            <4>2. Valid(b)' => ~bad
                BY <2>g DEF Valid, Has
            <4> QED
                BY <1>t, <2>3, <2>4, <2>6, <2>g, <3>2, <4>1, <4>2 DEF BufData, Full
        <3> QED
            BY <3>1, <3>2
    <2>9. ASSUME NEW u \in Units PROVE UnitData(u)'
        BY <2>3, <2>4, <2>5, <2>7, <2>g DEF UnitData
    <2>10. ASSUME NEW q \in Procs PROVE PlaceData(q)'
        <3>1. BpData(q)'
            <4>1. Growing(q) => call[q].bp \in Bufs \ {b}
                BY <1>t, <2>c DEF Growing, InBwrite, Located, ProcKept, BpKept, Settled
            <4>2. /\ Growing(q)' <=> Growing(q)
                  /\ Size(q)' = Size(q)
                BY <1>p DEF Growing, InBwrite, Size
            <4>3. \/ pc[q] \in {"hit", "brealloc", "got", "held", "biowait"}
                  \/ Growing(q)
                  => call[q].bp \in Bufs
                BY <1>t DEF Located, Growing, InBwrite
            <4> QED
                BY <1>t, <1>p, <2>g, <4>1, <4>2, <4>3 DEF PlaceData, BpData
        <3>2. EpData(q)'
            <4>1. InBwrite(q) => call[q].ep \in Bufs
                BY DEF Located
            <4>2. pc[q] = "getmem" => call[q].ep # b
                BY <1>t, <2>c DEF ProcKept, EpKept
            <4> QED
                BY <1>t, <1>p, <2>g, <4>1, <4>2 DEF PlaceData, EpData, InBwrite
        <3>3. FirstData(q)'
            <4>1. call[q].first # NoBuf => call[q].first \in Bufs
                BY <1>t DEF CallType
            <4> QED
                BY <1>t, <1>p, <2>g, <4>1 DEF PlaceData, FirstData
        <3>4. WantData(q)' /\ GatherData(q)'
            BY <1>t, <1>p, <2>g DEF PlaceData, WantData, GatherData, CallType
        <3> QED
            BY <3>1, <3>2, <3>3, <3>4 DEF PlaceData
    <2> QED
        BY <2>8, <2>9, <2>10 DEF DataInv
<1> QED
    BY <1>1, <1>2, <1>3 DEF IODone

-----------------------------------------------------------------------------
(* The theorems                                                            *)

\* At the start all contents are on the device
LEMMA DataInit == Init => DataInv
<1> SUFFICES ASSUME Init PROVE DataInv
    OBVIOUS
<1> USE DEF Init
<1>1. ASSUME NEW b \in Bufs PROVE BufData(b)
    BY DEF BufData, FlagsData, Covers, Extent, Has, Dirty, DirtyAt, Valid, Full
<1>2. ASSUME NEW u \in Units PROVE UnitData(u)
    BY BufsAssumption DEF UnitData
<1>3. ASSUME NEW p \in Procs PROVE PlaceData(p)
    BY DEF PlaceData, BpData, EpData, FirstData, WantData, GatherData, Growing, InBwrite, NoCall,
       NoWant
<1> QED
    BY <1>1, <1>2, <1>3 DEF DataInv

\* As long as no block is in two buffers, the contents are where they should be
LEMMA DataKept ==
    ASSUME Vio => ~GetmemSleeps, ~Nfs PROVE Spec /\ []NoSleepInAllocbuf => []DataInv
<1>1. TypeOK /\ Located /\ OwnInv /\ MapInv /\ UniqueMapping /\ DataInv /\ [Next]_vars => DataInv'
    <2> SUFFICES ASSUME TypeOK, Located, OwnInv, MapInv, UniqueMapping, DataInv, [Next]_vars
                 PROVE  DataInv'
        OBVIOUS
    <2>1. CASE UNCHANGED vars
        <3> USE <2>1 DEF vars, bufVars, memVars, ioVars, histVars
        <3>1. \A b \in Bufs : BufData(b)'
            BY DEF DataInv, BufData, FlagsData, Covers, Extent, Has, Dirty, DirtyAt, Valid, Full
        <3>2. \A u \in Units : UnitData(u)'
            BY DEF DataInv, UnitData, Covers, Extent, Has, Dirty, DirtyAt
        <3>3. \A p \in Procs : PlaceData(p)'
            BY DEF DataInv, PlaceData, BpData, EpData, FirstData, WantData, GatherData, Growing,
               InBwrite, Size, Has
        <3> QED
            BY <3>1, <3>2, <3>3 DEF DataInv
    <2>2. CASE Next
        BY <2>2, DataStep, DataCall, DataDone DEF Next
    <2> QED
        BY <2>1, <2>2
<1> QED
    BY <1>1, DataInit, UniqueMappingHolds, MapKept, OwnersKept, TypeCorrect, PTL DEF Spec

\* The latest contents of a unit of the device are never dropped, but after an error: they are on
\* the disk, or in a buffer that is busy or a delayed write
THEOREM DataSafeHolds ==
    ASSUME Vio => ~GetmemSleeps, ~Nfs PROVE Spec /\ []NoSleepInAllocbuf => []DataSafe
<1>1. TypeOK /\ Located /\ OwnInv /\ DataInv => DataSafe
    <2> SUFFICES ASSUME TypeOK, Located, OwnInv, DataInv, NEW u \in Units \ lost,
                        Disk \notin fresh[u]
                 PROVE  \E b \in Bufs \cap fresh[u] : flags[b] \cap {"BUSY", "DELWRI"} # {}
        BY DEF DataSafe
    <2>1. PICK b \in Bufs : b \in fresh[u] /\ Dirty(b)
        BY DEF DataInv, UnitData
    <2>2. Has(b, "BUSY") \/ Has(b, "DELWRI")
        BY <2>1, FreeClean
    <2> QED
        BY <2>1, <2>2 DEF Has
<1> QED
    BY <1>1, DataKept, OwnersKept, TypeCorrect, PTL

\* Who has got a block from bread has what was last written, or an error
THEOREM ReadsLatestHolds ==
    ASSUME Vio => ~GetmemSleeps, ~Nfs PROVE Spec /\ []NoSleepInAllocbuf => []ReadsLatest
<1>1. Located /\ OwnInv /\ DataInv => ReadsLatest
    <2> SUFFICES ASSUME Located, OwnInv, DataInv, NEW p \in Procs, pc[p] = "held",
                        Has(call[p].bp, "DONE"), ~Has(call[p].bp, "ERROR"),
                        NEW u \in Extent(call[p].bp) \ lost
                 PROVE  call[p].bp \in fresh[u]
        BY DEF ReadsLatest
    <2>1. PICK b \in Bufs : b = call[p].bp
        BY DEF Located
    <2>2. Has(b, "BUSY") /\ BufData(b)
        BY <2>1 DEF OwnInv, ProcKept, BpKept, Settled, DataInv
    <2>3. ~Has(b, "INVAL") /\ Valid(b)
        BY <2>1, <2>2 DEF BufData, FlagsData, Valid, Has
    <2>4. u \in Covers(b)
        BY <2>1, <2>3 DEF Covers
    <2> QED
        BY <2>1, <2>2, <2>3, <2>4 DEF BufData, Full
<1> QED
    BY <1>1, DataKept, OwnersKept, TypeCorrect, PTL

===============================================================================
