-------------------------- MODULE BufCacheProofs ---------------------------
(***************************************************************************)
(* Proofs about the buffer cache, for any number of processes, buffers and *)
(* blocks: TypeOK; NoLostWakeup, which says that brelse and getnewbuf      *)
(* leave no process asleep on a buffer that is free already;               *)
(* MemoryConserved; and who has a busy buffer.                             *)
(*                                                                         *)
(* Exclusive, NoDupBiodone and BiowaitPending follow from one inductive    *)
(* invariant, OwnInv, which says for each place of the code what is known  *)
(* there of the flags and of the request of each buffer that the process   *)
(* has. AsyncCount and BdwaitWoken follow from OwnInv and CountInv, where  *)
(* the requests go to a disk driver. All of it needs that getmem does not  *)
(* sleep where vbwrite gathers: a process that sleeps there leaves the     *)
(* idle buffers that it is about to gather to the others.                  *)
(***************************************************************************)
EXTENDS BufCache, FiniteSums

-----------------------------------------------------------------------------
(* What the building blocks of the actions do to the types                 *)

\* Brelse leaves the buffer, the free lists and the history well typed
LEMMA BrelseTypes ==
    ASSUME BufTypes, HistTypes, NEW b \in Bufs, NEW F \in SUBSET Flags, NEW n, NEW H \in HistType,
           Brelse(b, F, n, H)
    PROVE  BufTypes' /\ HistTypes'
<1> USE DEF Brelse, Released
<1>1. freewanted' \in BOOLEAN
    OBVIOUS
<1>2. blk' \in [Bufs -> Starts \cup {NoBlk}]
    BY DEF BufTypes
<1>3. onq' \in [Bufs -> Queues \cup {"none"}]
    BY DEF BufTypes, Queues
<1>4. flags' \in [Bufs -> SUBSET Flags]
    BY DEF BufTypes, Flags
<1>5. fresh' \in HistType
    BY DEF HistType
<1>6. lost' \in SUBSET Units
    BY DEF HistTypes
<1> QED
    BY <1>1, <1>2, <1>3, <1>4, <1>5, <1>6 DEF BufTypes, HistTypes

\* Wakeup makes sleepers runnable and nothing else
LEMMA AwakenTypes == ASSUME WaitTypes, NEW C, Awaken(C) PROVE WaitTypes'
BY DEF Awaken, WaitTypes

\* Sleep waits on a channel that exists
LEMMA SleepTypes ==
    ASSUME WaitTypes, NEW p \in Procs, NEW c \in Chans, Sleep(p, c)
    PROVE  WaitTypes' /\ cpu' \in Procs \cup {NoProc}
BY DEF Sleep, WaitTypes

\* VOP_STRATEGY queues buffers only
LEMMA StrategyTypes ==
    ASSUME IOTypes, NEW S \in SUBSET Bufs, Strategy(S)
    PROVE  pend' \in SUBSET Bufs /\ ahead' \in [Bufs -> SUBSET Bufs] /\ biodq' \in SUBSET Bufs
BY DEF Strategy, IOTypes

\* biodone of an asynchronous request releases its buffer and counts it
LEMMA BiodoneTypes ==
    ASSUME BufTypes, IOTypes, WaitTypes, HistTypes, NEW b \in Bufs, NEW n \in Int,
           NEW F \in SUBSET Flags, NEW H \in HistType,
           BiodoneAsync(b, n, F, H), biodq' \in SUBSET Bufs
    PROVE  BufTypes' /\ IOTypes' /\ WaitTypes' /\ HistTypes'
<1> USE DEF BiodoneAsync
<1>1. BufTypes' /\ HistTypes'
    BY BrelseTypes
<1>2. WaitTypes'
    BY AwakenTypes
<1>3. pend' \in SUBSET Bufs /\ ahead' \in [Bufs -> SUBSET Bufs] /\ basyncnt' \in Int
    BY DEF Finish, IOTypes
<1>4. basynwait' \in BOOLEAN
    BY DEF IOTypes
<1> QED
    BY <1>1, <1>2, <1>3, <1>4 DEF IOTypes

\* A process goes on at a known place
LEMMA GotoTypes ==
    ASSUME ProcTypes, NEW p \in Procs, NEW l \in Labels, Goto(p, l)
    PROVE  pc' \in [Procs -> Labels] /\ cpu' \in Procs \cup {NoProc}
BY DEF Goto, ProcTypes

\* Bwrite is called with a buffer and a place to return to
LEMMA CallBwriteTypes ==
    ASSUME ProcTypes, NEW p \in Procs, NEW b \in Bufs, NEW l \in Returns, CallBwrite(p, b, l)
    PROVE  ProcTypes'
<1> DEFINE r == [call[p] EXCEPT !.ep = b, !.ret = l]
<1>1. call[p] \in CallType
    BY DEF ProcTypes
<1>2. r \in CallType
    BY <1>1 DEF CallType
<1>3. call' = [call EXCEPT ![p] = r]
    BY DEF CallBwrite
<1>4. call' \in [Procs -> CallType]
    BY <1>2, <1>3 DEF ProcTypes
<1> QED
    BY <1>4 DEF CallBwrite, Goto, ProcTypes, Labels

\* A process outside of the cache has local variables, all of them unset
LEMMA NoCallType == NoCall \in CallType
BY DEF NoCall, CallType, NoWant, Wants, Returns

\* An operation returns with the local variables unset
LEMMA ReturnTypes == ASSUME ProcTypes, NEW p \in Procs, Return(p) PROVE ProcTypes'
BY NoCallType DEF Return, ProcTypes, Labels

\* Bp is set to a buffer, or to none
LEMMA SetBpTypes ==
    ASSUME ProcTypes, NEW p \in Procs, NEW b \in Bufs \cup {NoBuf}, SetBp(p, b)
    PROVE  call' \in [Procs -> CallType]
BY DEF SetBp, ProcTypes, CallType

\* Bwrite returns to a place of getnewbuf, brealloc, ... or to the caller
LEMMA AfterBwriteTypes == ASSUME ProcTypes, NEW p \in Procs, AfterBwrite(p) PROVE ProcTypes'
<1> DEFINE bp == IF call[p].ret = "getblk" THEN NoBuf ELSE call[p].bp
           r == [call[p] EXCEPT !.ep = NoBuf, !.ret = "idle", !.gset = {}, !.bp = bp]
<1>1. CASE Return(p)
    BY <1>1, ReturnTypes
<1>2. CASE Goto(p, call[p].ret) /\ call' = [call EXCEPT ![p] = r]
    <2>1. call[p] \in CallType
        BY DEF ProcTypes
    <2>2. call[p].ret \in Labels
        BY <2>1 DEF CallType, Returns, Labels
    <2>3. r \in CallType
        BY <2>1 DEF CallType, Returns
    <2>4. call' \in [Procs -> CallType]
        BY <1>2, <2>3 DEF ProcTypes
    <2> QED
        BY <1>2, <2>2, <2>4 DEF Goto, ProcTypes
<1> QED
    BY <1>1, <1>2 DEF AfterBwrite

\* After VOP_STRATEGY bwrite waits or returns
LEMMA WrittenTypes == ASSUME ProcTypes, NEW p \in Procs, Written(p) PROVE ProcTypes'
<1>1. CASE AfterBwrite(p)
    BY <1>1, AfterBwriteTypes
<1>2. CASE Goto(p, "bwritewait") /\ call' = [call EXCEPT ![p].gset = {}]
    BY <1>2 DEF Goto, ProcTypes, CallType, Labels
<1> QED
    BY <1>1, <1>2 DEF Written

\* Breada ends as a bread, or as the biowait of one
LEMMA FinishBreadaTypes ==
    ASSUME ProcTypes, NEW p \in Procs, NEW w \in Wants, FinishBreada(p, w)
    PROVE  ProcTypes'
<1>1. call[p] \in CallType
    BY DEF ProcTypes
<1>2. call' \in [Procs -> CallType]
    <2> DEFINE r == [NoCall EXCEPT !.op = "bread", !.want = w, !.bp = call[p].first]
    <2>1. r \in CallType
        BY <1>1, NoCallType DEF CallType, AllOps
    <2>2. call' = [call EXCEPT ![p] = r]
        BY DEF FinishBreada
    <2> QED
        BY <2>1, <2>2 DEF ProcTypes
<1> QED
    BY <1>2 DEF FinishBreada, Goto, ProcTypes, Labels

\* What a process asks for has a start and a size
LEMMA WantTypes ==
    ASSUME ProcTypes, NEW p \in Procs
    PROVE  /\ call[p] \in CallType
           /\ call[p].want \in Wants /\ call[p].next \in Wants
           /\ call[p].want[1] \in Starts \cup {NoBlk}
           /\ Size(p) \in Nat
<1>1. call[p] \in CallType /\ call[p].want \in Wants /\ call[p].next \in Wants
    BY DEF ProcTypes, CallType
<1>2. Sizes \subseteq Nat
    BY BlockAssumption DEF Sizes
<1>3. ASSUME NEW w \in Wants PROVE w[1] \in Starts \cup {NoBlk} /\ w[2] \in Sizes \cup {0}
    BY DEF Wants
<1>4. Size(p) \in Sizes \cup {0} /\ call[p].want[1] \in Starts \cup {NoBlk}
    BY <1>1, <1>3 DEF Size
<1>5. Size(p) \in Nat
    BY <1>2, <1>4
<1> QED
    BY <1>1, <1>4, <1>5

\* The blocks that callers ask for are among the things that can be asked for
LEMMA BlockWants ==
    ASSUME NEW w \in Blocks PROVE w \in Wants /\ <<NoBlk, w[2]>> \in Wants
<1>1. w = <<w[1], w[2]>>
    BY BlockAssumption
<1>2. w[1] \in Starts /\ w[2] \in Sizes
    BY DEF Starts, Sizes
<1> QED
    BY <1>1, <1>2 DEF Wants

\* breada keeps its buffer while it looks for the read-ahead block
LEMMA FirstType ==
    ASSUME NEW c \in CallType, NEW b \in Bufs
    PROVE  [c EXCEPT !.first = b, !.bp = NoBuf] \in CallType
BY DEF CallType

-----------------------------------------------------------------------------
(* TypeOK.  It is inductive together with Located                          *)

\* Where a process works on its buffer, or bwrite on one, it has one
Located ==
    \A p \in Procs :
        /\ \/ pc[p] \in {"hit", "brealloc", "overlap", "allocbuf", "steal", "got", "biowait", "held"}
           \/ InBwrite(p) /\ call[p].ret \in {"overlap", "steal"}
           => call[p].bp \in Bufs
        /\ InBwrite(p) => call[p].ep \in Bufs

\* A step of a process leaves the variables well typed
LEMMA TypeStep ==
    ASSUME TypeOK, Located, NEW p \in Procs, Step(p) PROVE TypeOK'
<1>t. BufTypes /\ MemTypes /\ IOTypes /\ ProcTypes /\ WaitTypes /\ HistTypes /\ Located
    BY DEF TypeOK
<1> USE BufsAssumption
<1>GetblkFind. CASE GetblkFind(p)
    <2> USE <1>t, <1>GetblkFind DEF GetblkFind, At, bufVars, memVars, ioVars, histVars
    <2>1. ProcTypes'
        BY SetBpTypes DEF Incore, Goto, ProcTypes, Labels
    <2>2. BufTypes' /\ MemTypes' /\ IOTypes' /\ WaitTypes' /\ HistTypes'
        BY DEF BufTypes, MemTypes, IOTypes, WaitTypes, HistTypes
    <2> QED
        BY <2>1, <2>2 DEF TypeOK
<1>GetblkMiss. CASE GetblkMiss(p)
    <2> USE <1>t, <1>GetblkMiss DEF GetblkMiss, At, bufVars, memVars, ioVars, histVars
    <2>1. ProcTypes'
        BY DEF Goto, ProcTypes, Labels
    <2>2. BufTypes' /\ MemTypes' /\ IOTypes' /\ WaitTypes' /\ HistTypes'
        BY DEF BufTypes, MemTypes, IOTypes, WaitTypes, HistTypes
    <2> QED
        BY <2>1, <2>2 DEF TypeOK
<1>GetblkBusy. CASE GetblkBusy(p)
    <2> USE <1>t, <1>GetblkBusy DEF GetblkBusy, At, bufVars, memVars, ioVars, histVars
    <2>b. call[p].bp \in Bufs
        BY DEF Located, InBwrite
    <2>1. BufTypes'
        BY <2>b DEF Want, BufTypes, Flags
    <2>2. ProcTypes'
        BY <2>b, SetBpTypes, SleepTypes DEF Want, ProcTypes, Labels, Chans
    <2>3. WaitTypes'
        BY <2>b, SleepTypes DEF Want, Chans
    <2>4. MemTypes' /\ IOTypes' /\ HistTypes'
        BY DEF MemTypes, IOTypes, HistTypes
    <2> QED
        BY <2>1, <2>2, <2>3, <2>4 DEF TypeOK
<1>GetblkHit. CASE GetblkHit(p)
    <2> USE <1>t, <1>GetblkHit DEF GetblkHit, At, bufVars, memVars, ioVars, histVars
    <2>b. call[p].bp \in Bufs
        BY DEF Located, InBwrite
    <2>1. BufTypes'
        BY <2>b DEF Notavail, BufTypes, Flags
    <2>2. ProcTypes'
        BY <2>b DEF Goto, ProcTypes, Labels
    <2>3. MemTypes' /\ IOTypes' /\ WaitTypes' /\ HistTypes'
        BY DEF MemTypes, IOTypes, WaitTypes, HistTypes
    <2> QED
        BY <2>1, <2>2, <2>3 DEF TypeOK
<1>NoFreeBuf. CASE NoFreeBuf(p)
    <2> USE <1>t, <1>NoFreeBuf DEF NoFreeBuf, At, bufVars, memVars, ioVars, histVars
    <2>1. BufTypes'
        BY DEF BufTypes
    <2>2. ProcTypes'
        BY SleepTypes DEF ProcTypes, Chans
    <2>3. WaitTypes'
        BY SleepTypes DEF Chans
    <2>4. MemTypes' /\ IOTypes' /\ HistTypes'
        BY DEF MemTypes, IOTypes, HistTypes
    <2> QED
        BY <2>1, <2>2, <2>3, <2>4 DEF TypeOK
<1>NewBuf. CASE NewBuf(p)
    <2> USE <1>t, <1>NewBuf DEF NewBuf, At, bufVars, memVars, ioVars, histVars
    <2>b. PICK b \in Bufs :
               /\ onq' = [onq EXCEPT ![b] = "none"]
               /\ flags' = [flags EXCEPT ![b] =
                            {"BUSY"} \cup (IF call[p].op = "geteblk" THEN {"INVAL"} ELSE {})]
               /\ blk' = [blk EXCEPT ![b] = call[p].want[1]]
               /\ bcount' = [bcount EXCEPT ![b] = 0]
               /\ fresh' = Forget(b)
               /\ SetBp(p, b)
        BY DEF Scan, OnQueue
    <2>1. BufTypes'
        BY <2>b, WantTypes DEF BufTypes, Flags
    <2>2. MemTypes'
        BY <2>b DEF MemTypes
    <2>3. ProcTypes'
        BY <2>b, SetBpTypes DEF Goto, ProcTypes, Labels
    <2>4. HistTypes'
        BY <2>b DEF Forget, HistTypes, HistType
    <2>5. IOTypes' /\ WaitTypes'
        BY DEF IOTypes, WaitTypes
    <2> QED
        BY <2>1, <2>2, <2>3, <2>4, <2>5 DEF TypeOK
<1>WriteBehind. CASE WriteBehind(p)
    <2> USE <1>t, <1>WriteBehind DEF WriteBehind, At, bufVars, memVars, ioVars, histVars
    <2>b. PICK b \in Bufs :
               /\ Notavail(b, {"ASYNC"})
               /\ CallBwrite(p, b, pc[p])
               /\ pc[p] \in Returns
        BY DEF Behind, AtGetnewbuf, Returns
    <2>1. BufTypes'
        BY <2>b DEF Notavail, BufTypes, Flags
    <2>2. ProcTypes'
        BY <2>b, CallBwriteTypes
    <2>3. MemTypes' /\ IOTypes' /\ WaitTypes' /\ HistTypes'
        BY DEF MemTypes, IOTypes, WaitTypes, HistTypes
    <2> QED
        BY <2>1, <2>2, <2>3 DEF TypeOK
<1>BreallocSame. CASE BreallocSame(p)
    <2> USE <1>t, <1>BreallocSame DEF BreallocSame, At, bufVars, memVars, ioVars, histVars
    <2>1. ProcTypes'
        BY DEF Goto, ProcTypes, Labels
    <2>2. BufTypes' /\ MemTypes' /\ IOTypes' /\ WaitTypes' /\ HistTypes'
        BY DEF BufTypes, MemTypes, IOTypes, WaitTypes, HistTypes
    <2> QED
        BY <2>1, <2>2 DEF TypeOK
<1>BreallocDirty. CASE BreallocDirty(p)
    <2> USE <1>t, <1>BreallocDirty DEF BreallocDirty, At, bufVars, memVars, ioVars, histVars
    <2>b. call[p].bp \in Bufs
        BY DEF Located, InBwrite
    <2>1. ProcTypes'
        BY <2>b, CallBwriteTypes DEF Returns
    <2>2. BufTypes' /\ MemTypes' /\ IOTypes' /\ WaitTypes' /\ HistTypes'
        BY DEF BufTypes, MemTypes, IOTypes, WaitTypes, HistTypes
    <2> QED
        BY <2>1, <2>2 DEF TypeOK
<1>BreallocShrink. CASE BreallocShrink(p)
    <2> USE <1>t, <1>BreallocShrink DEF BreallocShrink, At, bufVars, memVars, ioVars, histVars
    <2>b. call[p].bp \in Bufs
        BY DEF Located, InBwrite
    <2>1. MemTypes'
        BY <2>b, WantTypes DEF Resize, Freed, MemTypes
    <2>2. ProcTypes'
        BY <2>b DEF Resize, Goto, ProcTypes, Labels
    <2>3. BufTypes'
        BY <2>b DEF Resize, BufTypes
    <2>4. IOTypes'
        BY <2>b DEF Resize, IOTypes
    <2>5. WaitTypes'
        BY <2>b DEF Resize, WaitTypes
    <2>6. HistTypes'
        BY <2>b DEF Resize, HistTypes, HistType
    <2> QED
        BY <2>1, <2>2, <2>3, <2>4, <2>5, <2>6 DEF TypeOK
<1>BreallocGrow. CASE BreallocGrow(p)
    <2> USE <1>t, <1>BreallocGrow DEF BreallocGrow, At, bufVars, memVars, ioVars, histVars
    <2>b. call[p].bp \in Bufs
        BY DEF Located, InBwrite
    <2>1. BufTypes'
        BY <2>b DEF Outgrown, BufTypes
    <2>2. ProcTypes'
        BY <2>b DEF Goto, ProcTypes, Labels
    <2>3. MemTypes' /\ IOTypes' /\ WaitTypes' /\ HistTypes'
        BY DEF MemTypes, IOTypes, WaitTypes, HistTypes
    <2> QED
        BY <2>1, <2>2, <2>3 DEF TypeOK
<1>OverlapBusy. CASE OverlapBusy(p)
    <2> USE <1>t, <1>OverlapBusy DEF OverlapBusy, At, bufVars, memVars, ioVars, histVars
    <2>b. PICK b \in Bufs :
               /\ Want(p, b)
        BY DEF Overlapping
    <2>1. BufTypes'
        BY <2>b DEF Want, BufTypes, Flags
    <2>2. ProcTypes'
        BY <2>b, SleepTypes DEF Want, ProcTypes, Chans
    <2>3. WaitTypes'
        BY <2>b, SleepTypes DEF Want, Chans
    <2>4. MemTypes' /\ IOTypes' /\ HistTypes'
        BY DEF MemTypes, IOTypes, HistTypes
    <2> QED
        BY <2>1, <2>2, <2>3, <2>4 DEF TypeOK
<1>OverlapDirty. CASE OverlapDirty(p)
    <2> USE <1>t, <1>OverlapDirty DEF OverlapDirty, At, bufVars, memVars, ioVars, histVars
    <2>b. PICK b \in Bufs :
               /\ Notavail(b, {})
               /\ CallBwrite(p, b, pc[p])
               /\ pc[p] \in Returns
        BY DEF Overlapping, Returns
    <2>1. BufTypes'
        BY <2>b DEF Notavail, BufTypes, Flags
    <2>2. ProcTypes'
        BY <2>b, CallBwriteTypes
    <2>3. MemTypes' /\ IOTypes' /\ WaitTypes' /\ HistTypes'
        BY DEF MemTypes, IOTypes, WaitTypes, HistTypes
    <2> QED
        BY <2>1, <2>2, <2>3 DEF TypeOK
<1>OverlapClean. CASE OverlapClean(p)
    <2> USE <1>t, <1>OverlapClean DEF OverlapClean, At, bufVars, memVars, ioVars, histVars
    <2>b. PICK b \in Bufs :
               /\ Brelse(b, flags[b] \cup {"INVAL"}, bufsize[b], fresh)
               /\ Awaken(BrelseWakes(b, flags[b]))
        BY DEF Overlapping
    <2>f. flags[b] \cup {"INVAL"} \in SUBSET Flags /\ fresh \in HistType
        BY DEF BufTypes, HistTypes, Flags
    <2>1. BufTypes' /\ HistTypes'
        BY <2>b, BrelseTypes, <2>f
    <2>2. ProcTypes'
        BY <2>b DEF Goto, ProcTypes, Labels
    <2>3. WaitTypes'
        BY <2>b, AwakenTypes
    <2>4. MemTypes' /\ IOTypes'
        BY DEF MemTypes, IOTypes
    <2> QED
        BY <2>1, <2>2, <2>3, <2>4 DEF TypeOK
<1>OverlapNone. CASE OverlapNone(p)
    <2> USE <1>t, <1>OverlapNone DEF OverlapNone, At, bufVars, memVars, ioVars, histVars
    <2>1. ProcTypes'
        BY DEF Goto, ProcTypes, Labels
    <2>2. BufTypes' /\ MemTypes' /\ IOTypes' /\ WaitTypes' /\ HistTypes'
        BY DEF BufTypes, MemTypes, IOTypes, WaitTypes, HistTypes
    <2> QED
        BY <2>1, <2>2 DEF TypeOK
<1>Allocbuf. CASE Allocbuf(p)
    <2> USE <1>t, <1>Allocbuf DEF Allocbuf, At, bufVars, memVars, ioVars, histVars
    <2>b. call[p].bp \in Bufs
        BY DEF Located, InBwrite
    <2>1. MemTypes'
        BY <2>b, WantTypes DEF Resize, Freed, MemTypes
    <2>2. ProcTypes'
        BY <2>b DEF Resize, Goto, ProcTypes, Labels
    <2>3. BufTypes'
        BY <2>b DEF Resize, BufTypes
    <2>4. IOTypes'
        BY <2>b DEF Resize, IOTypes
    <2>5. WaitTypes'
        BY <2>b DEF Resize, WaitTypes
    <2>6. HistTypes'
        BY <2>b DEF Resize, HistTypes, HistType
    <2> QED
        BY <2>1, <2>2, <2>3, <2>4, <2>5, <2>6 DEF TypeOK
<1>AllocbufSteal. CASE AllocbufSteal(p)
    <2> USE <1>t, <1>AllocbufSteal DEF AllocbufSteal, At, bufVars, memVars, ioVars, histVars
    <2>1. ProcTypes'
        BY DEF Goto, ProcTypes, Labels
    <2>2. BufTypes' /\ MemTypes' /\ IOTypes' /\ WaitTypes' /\ HistTypes'
        BY DEF BufTypes, MemTypes, IOTypes, WaitTypes, HistTypes
    <2> QED
        BY <2>1, <2>2 DEF TypeOK
<1>Steal. CASE Steal(p)
    <2> USE <1>t, <1>Steal DEF Steal, At, bufVars, memVars, ioVars, histVars
    <2>b. PICK b \in Bufs :
               /\ mem' = mem + bufsize[b]
               /\ bufsize' = [bufsize EXCEPT ![b] = 0]
               /\ bcount' = [bcount EXCEPT ![b] = 0]
               /\ flags' = [flags EXCEPT ![b] = {"INVAL"}]
               /\ onq' = [onq EXCEPT ![b] = "EMPTY"]
               /\ blk' = [blk EXCEPT ![b] = NoBlk]
               /\ fresh' = Forget(b)
        BY DEF Scan, OnQueue
    <2>n. bufsize[b] \in Nat /\ mem + bufsize[b] \in Int
        BY DEF MemTypes
    <2>1. BufTypes'
        BY <2>b DEF BufTypes, Flags, Queues
    <2>2. MemTypes'
        BY <2>b, <2>n DEF MemTypes
    <2>3. ProcTypes'
        BY <2>b DEF Goto, ProcTypes, Labels
    <2>4. HistTypes'
        BY <2>b DEF Forget, HistTypes, HistType
    <2>5. WaitTypes'
        BY <2>b, AwakenTypes
    <2>6. IOTypes'
        BY DEF IOTypes
    <2> QED
        BY <2>1, <2>2, <2>3, <2>4, <2>5, <2>6 DEF TypeOK
<1>BwriteStart. CASE BwriteStart(p)
    <2> USE <1>t, <1>BwriteStart DEF BwriteStart, At, bufVars, memVars, ioVars, histVars
    <2>e. call[p].ep \in Bufs
        BY DEF Located, InBwrite
    <2>1. BufTypes'
        BY <2>e DEF Writing, BufTypes, Flags
    <2>2. IOTypes'
        BY <2>e, StrategyTypes DEF IOTypes, Async
    <2>3. ProcTypes'
        BY <2>e, WrittenTypes
    <2>4. MemTypes' /\ WaitTypes' /\ HistTypes'
        BY DEF MemTypes, WaitTypes, HistTypes
    <2> QED
        BY <2>1, <2>2, <2>3, <2>4 DEF TypeOK
<1>VbwriteGather. CASE VbwriteGather(p)
    <2> USE <1>t, <1>VbwriteGather DEF VbwriteGather, At, bufVars, memVars, ioVars, histVars
    <2>e. call[p].ep \in Bufs
        BY DEF Located, InBwrite
    <2>g. call' \in [Procs -> CallType]
        BY DEF Gatherable, ProcTypes, CallType
    <2>1. BufTypes'
        BY <2>e DEF Writing, BufTypes, Flags
    <2>2. IOTypes'
        BY <2>e DEF IOTypes, Async
    <2>3. ProcTypes'
        BY <2>e, <2>g DEF ProcTypes, Labels
    <2>4. MemTypes' /\ WaitTypes' /\ HistTypes'
        BY DEF MemTypes, WaitTypes, HistTypes
    <2> QED
        BY <2>1, <2>2, <2>3, <2>4 DEF TypeOK
<1>VbwriteStart. CASE VbwriteStart(p)
    <2> USE <1>t, <1>VbwriteStart DEF VbwriteStart, At, bufVars, memVars, ioVars, histVars
    <2>e. call[p].ep \in Bufs
        BY DEF Located, InBwrite
    <2>s. call[p].gset \in SUBSET Bufs
        BY DEF ProcTypes, CallType
    <2>c. Cardinality(call[p].gset) \in Nat
        BY <2>s, FS_Subset, FS_CardinalityType
    <2>1. BufTypes'
        BY <2>e DEF Writing, BufTypes, Flags
    <2>2. IOTypes'
        BY <2>e, <2>s, <2>c, StrategyTypes DEF IOTypes
    <2>3. ProcTypes'
        BY <2>e, WrittenTypes
    <2>4. MemTypes' /\ WaitTypes' /\ HistTypes'
        BY DEF MemTypes, WaitTypes, HistTypes
    <2> QED
        BY <2>1, <2>2, <2>3, <2>4 DEF TypeOK
<1>BwriteDone. CASE BwriteDone(p)
    <2> USE <1>t, <1>BwriteDone DEF BwriteDone, At, bufVars, memVars, ioVars, histVars
    <2>e. call[p].ep \in Bufs
        BY DEF Located, InBwrite
    <2>f. flags[call[p].ep] \in SUBSET Flags /\ fresh \in HistType
        BY <2>e DEF BufTypes, HistTypes
    <2>1. BufTypes' /\ HistTypes'
        BY BrelseTypes, <2>e, <2>f
    <2>2. ProcTypes'
        BY <2>e, AfterBwriteTypes
    <2>3. WaitTypes'
        BY <2>e, AwakenTypes
    <2>4. MemTypes' /\ IOTypes'
        BY DEF MemTypes, IOTypes
    <2> QED
        BY <2>1, <2>2, <2>3, <2>4 DEF TypeOK
<1>BiowaitSleep. CASE BiowaitSleep(p)
    <2> USE <1>t, <1>BiowaitSleep DEF BiowaitSleep, At, bufVars, memVars, ioVars, histVars
    <2>c. (IF pc[p] = "biowait" THEN call[p].bp ELSE call[p].ep) \in Chans
        BY DEF Located, InBwrite, Chans
    <2>1. ProcTypes'
        BY <2>c, SleepTypes DEF ProcTypes
    <2>2. WaitTypes'
        BY <2>c, SleepTypes
    <2>3. BufTypes' /\ MemTypes' /\ IOTypes' /\ HistTypes'
        BY DEF BufTypes, MemTypes, IOTypes, HistTypes
    <2> QED
        BY <2>1, <2>2, <2>3 DEF TypeOK
<1>BiowaitDone. CASE BiowaitDone(p)
    <2> USE <1>t, <1>BiowaitDone DEF BiowaitDone, At, bufVars, memVars, ioVars, histVars
    <2>1. ProcTypes'
        BY DEF Hold, ProcTypes, Labels
    <2>2. BufTypes' /\ MemTypes' /\ IOTypes' /\ WaitTypes' /\ HistTypes'
        BY DEF BufTypes, MemTypes, IOTypes, WaitTypes, HistTypes
    <2> QED
        BY <2>1, <2>2 DEF TypeOK
<1>GotBlk. CASE GotBlk(p)
    <2> USE <1>t, <1>GotBlk DEF GotBlk, At, bufVars, memVars, ioVars, histVars
    <2>1. ProcTypes'
        BY DEF Hold, ProcTypes, Labels
    <2>2. BufTypes' /\ MemTypes' /\ IOTypes' /\ WaitTypes' /\ HistTypes'
        BY DEF BufTypes, MemTypes, IOTypes, WaitTypes, HistTypes
    <2> QED
        BY <2>1, <2>2 DEF TypeOK
<1>BreadStart. CASE BreadStart(p)
    <2> USE <1>t, <1>BreadStart DEF BreadStart, At, bufVars, memVars, ioVars, histVars
    <2>b. call[p].bp \in Bufs
        BY DEF Located, InBwrite
    <2>1. BufTypes'
        BY <2>b DEF StartRead, BufTypes, Flags
    <2>2. IOTypes'
        BY <2>b, StrategyTypes DEF StartRead, IOTypes
    <2>3. ProcTypes'
        BY <2>b DEF Goto, ProcTypes, Labels
    <2>4. MemTypes' /\ WaitTypes' /\ HistTypes'
        BY DEF MemTypes, WaitTypes, HistTypes
    <2> QED
        BY <2>1, <2>2, <2>3, <2>4 DEF TypeOK
<1>BreadaStart. CASE BreadaStart(p)
    <2> USE <1>t, <1>BreadaStart DEF BreadaStart, At, bufVars, memVars, ioVars, histVars
    <2>b. call[p].bp \in Bufs
        BY DEF Located, InBwrite
    <2>c. [call[p] EXCEPT !.first = call[p].bp, !.bp = NoBuf] \in CallType
        BY <2>b, WantTypes, FirstType
    <2>1. BufTypes'
        BY <2>b DEF StartRead, BufTypes, Flags
    <2>2. IOTypes'
        BY <2>b, StrategyTypes DEF StartRead, IOTypes
    <2>3. ProcTypes'
        BY <2>b, <2>c DEF ProcTypes, Labels
    <2>4. MemTypes' /\ WaitTypes' /\ HistTypes'
        BY DEF MemTypes, WaitTypes, HistTypes
    <2> QED
        BY <2>1, <2>2, <2>3, <2>4 DEF TypeOK
<1>BreadaIncore. CASE BreadaIncore(p)
    <2> USE <1>t, <1>BreadaIncore DEF BreadaIncore, At, bufVars, memVars, ioVars, histVars
    <2>1. ProcTypes'
        BY WantTypes, FinishBreadaTypes
    <2>2. BufTypes' /\ MemTypes' /\ IOTypes' /\ WaitTypes' /\ HistTypes'
        BY DEF BufTypes, MemTypes, IOTypes, WaitTypes, HistTypes
    <2> QED
        BY <2>1, <2>2 DEF TypeOK
<1>BreadaGetblk. CASE BreadaGetblk(p)
    <2> USE <1>t, <1>BreadaGetblk DEF BreadaGetblk, At, bufVars, memVars, ioVars, histVars
    <2>c. [call[p] EXCEPT !.op = "rahead", !.want = call[p].next, !.next = call[p].want] \in CallType
        BY WantTypes DEF CallType
    <2>1. ProcTypes'
        BY <2>c DEF Goto, ProcTypes, Labels
    <2>2. BufTypes' /\ MemTypes' /\ IOTypes' /\ WaitTypes' /\ HistTypes'
        BY DEF BufTypes, MemTypes, IOTypes, WaitTypes, HistTypes
    <2> QED
        BY <2>1, <2>2 DEF TypeOK
<1>BreadaAhead. CASE BreadaAhead(p)
    <2> USE <1>t, <1>BreadaAhead DEF BreadaAhead, At, bufVars, memVars, ioVars, histVars
    <2>b. call[p].bp \in Bufs
        BY DEF Located
    <2>1. ProcTypes'
        BY WantTypes, FinishBreadaTypes
    <2>2. MemTypes'
        BY DEF MemTypes
    <2>3. CASE Has(call[p].bp, "DONE")
        <3>1. flags[call[p].bp] \in SUBSET Flags /\ fresh \in HistType
            BY <2>b DEF BufTypes, HistTypes
        <3>2. BufTypes' /\ HistTypes'
            BY <2>3, <2>b, <3>1, BrelseTypes
        <3>3. WaitTypes'
            BY <2>3, AwakenTypes
        <3>4. IOTypes'
            BY <2>3 DEF IOTypes
        <3> QED
            BY <2>1, <2>2, <3>2, <3>3, <3>4 DEF TypeOK
    <2>4. CASE ~Has(call[p].bp, "DONE")
        <3>1. BufTypes'
            BY <2>b, <2>4 DEF StartRead, BufTypes, Flags
        <3>2. IOTypes'
            BY <2>b, <2>4, StrategyTypes DEF StartRead, IOTypes
        <3>3. WaitTypes' /\ HistTypes'
            BY <2>4 DEF WaitTypes, HistTypes
        <3> QED
            BY <2>1, <2>2, <3>1, <3>2, <3>3 DEF TypeOK
    <2> QED
        BY <2>3, <2>4
<1>Release. CASE Release(p)
    <2> USE <1>t, <1>Release DEF Release, At, bufVars, memVars, ioVars, histVars
    <2>b. call[p].bp \in Bufs
        BY DEF Located, InBwrite
    <2>f. flags[call[p].bp] \in SUBSET Flags /\ fresh \in HistType
        BY <2>b DEF BufTypes, HistTypes
    <2>1. BufTypes' /\ HistTypes'
        BY BrelseTypes, <2>b, <2>f DEF Flags
    <2>2. ProcTypes'
        BY <2>b, ReturnTypes
    <2>3. WaitTypes'
        BY <2>b, AwakenTypes
    <2>4. MemTypes' /\ IOTypes'
        BY DEF MemTypes, IOTypes
    <2> QED
        BY <2>1, <2>2, <2>3, <2>4 DEF TypeOK
<1>Bdwrite. CASE Bdwrite(p)
    <2> USE <1>t, <1>Bdwrite DEF Bdwrite, At, bufVars, memVars, ioVars, histVars
    <2>b. call[p].bp \in Bufs
        BY DEF Located, MayModify
    <2>f. flags[call[p].bp] \cup {"DELWRI", "DONE"} \in SUBSET Flags
        BY <2>b DEF BufTypes, Flags
    <2>m. Modified(p) \in HistType
        BY <2>b DEF Modified, HistTypes, HistType
    <2>1. BufTypes' /\ HistTypes'
        BY BrelseTypes, <2>b, <2>f, <2>m
    <2>2. ProcTypes'
        BY <2>b, ReturnTypes
    <2>3. WaitTypes'
        BY <2>b, AwakenTypes
    <2>4. MemTypes' /\ IOTypes'
        BY DEF MemTypes, IOTypes
    <2> QED
        BY <2>1, <2>2, <2>3, <2>4 DEF TypeOK
<1>CallWrite. CASE CallWrite(p)
    <2> USE <1>t, <1>CallWrite DEF CallWrite, At, bufVars, memVars, ioVars, histVars
    <2>b. call[p].bp \in Bufs
        BY DEF Located, MayModify
    <2>1. BufTypes'
        BY <2>b DEF BufTypes, Flags
    <2>2. ProcTypes'
        BY <2>b, CallBwriteTypes DEF Returns
    <2>3. HistTypes'
        BY <2>b DEF Modified, HistTypes, HistType
    <2>4. MemTypes' /\ IOTypes' /\ WaitTypes'
        BY DEF MemTypes, IOTypes, WaitTypes
    <2> QED
        BY <2>1, <2>2, <2>3, <2>4 DEF TypeOK
<1>BdwaitSleep. CASE BdwaitSleep(p)
    <2> USE <1>t, <1>BdwaitSleep DEF BdwaitSleep, At, bufVars, memVars, ioVars, histVars
    <2>1. ProcTypes'
        BY SleepTypes DEF ProcTypes, Chans
    <2>2. WaitTypes'
        BY SleepTypes DEF Chans
    <2>3. IOTypes'
        BY DEF IOTypes
    <2>4. BufTypes' /\ MemTypes' /\ HistTypes'
        BY DEF BufTypes, MemTypes, HistTypes
    <2> QED
        BY <2>1, <2>2, <2>3, <2>4 DEF TypeOK
<1>BinvalfreeWrite. CASE BinvalfreeWrite(p)
    <2> USE <1>t, <1>BinvalfreeWrite DEF BinvalfreeWrite, memVars
    <2> DEFINE F(b) == Writing(flags[b] \cup {"ASYNC", "INVAL"}) \cup {"DONE"}
    <2>b. PICK b \in Bufs : BiodoneAsync(b, 0, F(b), fresh)
        OBVIOUS
    <2>1. F(b) \in SUBSET Flags /\ fresh \in HistType /\ biodq' \in SUBSET Bufs
        BY DEF BufTypes, HistTypes, IOTypes, Writing, Flags
    <2> HIDE <1>BinvalfreeWrite DEF F
    <2>2. BufTypes' /\ IOTypes' /\ WaitTypes' /\ HistTypes'
        BY <2>b, <2>1, BiodoneTypes
    <2>3. ProcTypes'
        BY <1>BinvalfreeWrite DEF Goto, ProcTypes, Labels
    <2>4. MemTypes'
        BY <1>BinvalfreeWrite DEF MemTypes
    <2> QED
        BY <2>2, <2>3, <2>4 DEF TypeOK
<1>BinvalfreeDrop. CASE BinvalfreeDrop(p)
    <2> USE <1>t, <1>BinvalfreeDrop DEF BinvalfreeDrop, At, bufVars, memVars, ioVars, histVars
    <2>b. PICK b \in Bufs :
               /\ flags' = [flags EXCEPT ![b] = @ \cup {"INVAL"}]
               /\ blk' = [blk EXCEPT ![b] = NoBlk]
               /\ fresh' = Forget(b)
        OBVIOUS
    <2>1. BufTypes'
        BY <2>b DEF BufTypes, Flags
    <2>2. ProcTypes'
        BY <2>b DEF Goto, ProcTypes, Labels
    <2>3. HistTypes'
        BY <2>b DEF Forget, HistTypes, HistType
    <2>4. MemTypes' /\ IOTypes' /\ WaitTypes'
        BY DEF MemTypes, IOTypes, WaitTypes
    <2> QED
        BY <2>1, <2>2, <2>3, <2>4 DEF TypeOK
<1>BiodDrop. CASE BiodDrop(p)
    <2> USE <1>t, <1>BiodDrop DEF BiodDrop, memVars
    <2> DEFINE F(b) == (flags[b] \ {"READ", "ERROR", "DELWRI"}) \cup {"ASYNC", "INVAL", "DONE"}
    <2>b. PICK b \in Bufs : BiodoneAsync(b, 1, F(b), fresh) /\ biodq' = biodq \ {b}
        BY DEF IOTypes
    <2>1. F(b) \in SUBSET Flags /\ fresh \in HistType /\ biodq' \in SUBSET Bufs
        BY <2>b DEF BufTypes, HistTypes, IOTypes, Flags
    <2>2. BufTypes' /\ IOTypes' /\ WaitTypes' /\ HistTypes'
        BY <2>b, <2>1, BiodoneTypes
    <2>3. ProcTypes'
        BY DEF Goto, ProcTypes, Labels
    <2>4. MemTypes'
        BY DEF MemTypes
    <2> QED
        BY <2>2, <2>3, <2>4 DEF TypeOK
<1>FlushReturn. CASE FlushReturn(p)
    <2> USE <1>t, <1>FlushReturn DEF FlushReturn, At, bufVars, memVars, ioVars, histVars
    <2>1. ProcTypes'
        BY ReturnTypes
    <2>2. BufTypes' /\ MemTypes' /\ IOTypes' /\ WaitTypes' /\ HistTypes'
        BY DEF BufTypes, MemTypes, IOTypes, WaitTypes, HistTypes
    <2> QED
        BY <2>1, <2>2 DEF TypeOK
<1> QED
    BY <1>GetblkFind, <1>GetblkMiss, <1>GetblkBusy, <1>GetblkHit, <1>NoFreeBuf, <1>NewBuf,
       <1>WriteBehind, <1>BreallocSame, <1>BreallocDirty, <1>BreallocShrink,
       <1>BreallocGrow, <1>OverlapBusy, <1>OverlapDirty, <1>OverlapClean, <1>OverlapNone,
       <1>Allocbuf, <1>AllocbufSteal, <1>Steal, <1>BwriteStart, <1>VbwriteGather,
       <1>VbwriteStart, <1>BwriteDone, <1>BiowaitSleep, <1>BiowaitDone, <1>GotBlk,
       <1>BreadStart, <1>BreadaStart, <1>BreadaIncore, <1>BreadaGetblk, <1>BreadaAhead,
       <1>Release, <1>Bdwrite, <1>CallWrite, <1>BdwaitSleep, <1>BinvalfreeWrite,
       <1>BinvalfreeDrop, <1>BiodDrop, <1>FlushReturn DEF Step

\* A call of an operation leaves the variables well typed
LEMMA CallTypes ==
    ASSUME TypeOK, NEW p \in Procs, NEW o, NEW w \in Wants, NEW n \in Wants, NEW l \in Labels,
           Call(p, o, w, n, l)
    PROVE  TypeOK'
<1> USE DEF TypeOK, Call, bufVars, memVars, ioVars, histVars
<1>1. o \in AllOps
    BY ConfAssumption
<1>2. [call[p] EXCEPT !.op = o, !.want = w, !.next = n] \in CallType
    BY <1>1 DEF ProcTypes, CallType
<1>3. ProcTypes'
    BY <1>2 DEF Goto, ProcTypes
<1>4. BufTypes' /\ MemTypes' /\ IOTypes' /\ WaitTypes' /\ HistTypes'
    BY DEF BufTypes, MemTypes, IOTypes, WaitTypes, HistTypes
<1> QED
    BY <1>3, <1>4

\* So does every call that a process can make
LEMMA CallOpTypes == ASSUME TypeOK, NEW p \in Procs, CallOp(p) PROVE TypeOK'
<1>n. NoWant \in Wants
    BY DEF NoWant, Wants
<1>1. CASE CallRead(p)
    <2>1. PICK w \in Blocks : \/ Call(p, "bread", w, NoWant, "getblk")
                              \/ Call(p, "getblk", w, NoWant, "getblk")
                              \/ Call(p, "geteblk", <<NoBlk, w[2]>>, NoWant, "newbuf")
        BY <1>1 DEF CallRead
    <2> QED
        BY <2>1, <1>n, BlockWants, CallTypes DEF Labels
<1>2. CASE CallBreada(p)
    <2>1. PICK w \in Blocks, r \in Blocks :
              Call(p, "breada", w, r, IF Incore(w[1]) = {} THEN "getblk" ELSE "rahead")
        BY <1>2 DEF CallBreada
    <2> QED
        BY <2>1, BlockWants, CallTypes DEF Labels
<1>3. CASE CallFlush(p)
    BY <1>3, <1>n, BlockWants, CallTypes DEF CallFlush, Labels
<1>4. CASE Binval(p)
    <2> USE <1>4 DEF Binval, TypeOK, memVars, ioVars
    <2>1. BufTypes'
        BY DEF BufTypes, Flags
    <2>2. HistTypes'
        BY DEF HistTypes, HistType
    <2>3. MemTypes' /\ IOTypes' /\ ProcTypes' /\ WaitTypes'
        BY DEF MemTypes, IOTypes, ProcTypes, WaitTypes
    <2> QED
        BY <2>1, <2>2, <2>3
<1> QED
    BY <1>1, <1>2, <1>3, <1>4 DEF CallOp

\* What a transfer leaves in memory and on the disk is well typed
LEMMA TransferTypes ==
    ASSUME HistTypes, NEW b \in Bufs
    PROVE  Transferred(b) \in HistType /\ Failed(b) \in HistType
BY DEF Transferred, Failed, Forget, HistTypes, HistType

\* The interrupt leaves the variables well typed
LEMMA DoneTypes == ASSUME TypeOK, NEW b \in Bufs, IODone(b) PROVE TypeOK'
<1>t. BufTypes /\ MemTypes /\ IOTypes /\ ProcTypes /\ WaitTypes /\ HistTypes
    BY DEF TypeOK
<1>h. /\ Transferred(b) \in HistType /\ Failed(b) \in HistType
      /\ flags[b] \cup {"DONE"} \in SUBSET Flags
      /\ flags[b] \cup {"DONE", "ERROR"} \in SUBSET Flags
    BY <1>t, TransferTypes DEF BufTypes, Flags
<1>1. CASE IODoneAsync(b)
    <2> USE <1>t, <1>1 DEF IODoneAsync, memVars
    <2>1. Counted(b) \in Int /\ biodq' \in SUBSET Bufs
        BY DEF Counted, IOTypes
    <2>2. BufTypes' /\ IOTypes' /\ WaitTypes' /\ HistTypes'
        BY <1>h, <2>1, BiodoneTypes
    <2>3. MemTypes' /\ ProcTypes'
        BY DEF MemTypes, ProcTypes
    <2> QED
        BY <2>2, <2>3 DEF TypeOK
<1>2. CASE IODoneSync(b)
    <2> USE <1>t, <1>2 DEF IODoneSync, memVars
    <2>1. BufTypes'
        BY <1>h DEF BufTypes
    <2>2. HistTypes'
        BY <1>h DEF HistTypes
    <2>3. IOTypes'
        BY DEF Completes, Finish, IOTypes
    <2>4. WaitTypes'
        BY AwakenTypes
    <2>5. MemTypes' /\ ProcTypes'
        BY DEF MemTypes, ProcTypes
    <2> QED
        BY <2>1, <2>2, <2>3, <2>4, <2>5 DEF TypeOK
<1>3. CASE BiodTake(b)
    BY <1>t, <1>3 DEF BiodTake, bufVars, memVars, histVars, TypeOK, BufTypes, MemTypes, IOTypes,
                      ProcTypes, WaitTypes, HistTypes
<1> QED
    BY <1>1, <1>2, <1>3 DEF IODone

\* The kernel starts with everything well typed
LEMMA InitTypes == Init => TypeOK /\ Located
<1> SUFFICES ASSUME Init PROVE TypeOK /\ Located
    OBVIOUS
<1> USE DEF Init
<1>1. BufTypes
    BY DEF BufTypes, Flags, Queues
<1>2. MemTypes
    BY ConfAssumption DEF MemTypes
<1>3. IOTypes
    <2>1. ahead \in [Bufs -> SUBSET Bufs]
        OBVIOUS
    <2>2. pend \in SUBSET Bufs /\ biodq \in SUBSET Bufs /\ basyncnt \in Int
        OBVIOUS
    <2>3. basynwait \in BOOLEAN
        BY Zenon
    <2> QED
        BY <2>1, <2>2, <2>3, Zenon DEF IOTypes
<1>4. ProcTypes
    BY NoCallType DEF ProcTypes, Labels
<1>5. WaitTypes /\ HistTypes
    BY DEF WaitTypes, HistTypes, HistType
<1>6. Located
    BY DEF Located, InBwrite
<1> QED
    BY <1>1, <1>2, <1>3, <1>4, <1>5, <1>6 DEF TypeOK

\* Located and TypeOK: a step moves one process, which is where its buffers are
\* known, and leaves the others where they are
LEMMA Moved ==
    ASSUME ProcTypes, Located, NEW p \in Procs,
           \A q \in Procs \ {p} : pc'[q] = pc[q] /\ call'[q] = call[q],
           \/ pc'[p] \in {"hit", "brealloc", "overlap", "allocbuf", "steal", "got", "biowait", "held"}
           \/ pc'[p] \in {"bwrite", "getmem", "bwritewait"} /\ call'[p].ret \in {"overlap", "steal"}
           => call'[p].bp \in Bufs,
           pc'[p] \in {"bwrite", "getmem", "bwritewait"} => call'[p].ep \in Bufs
    PROVE  Located'
BY DEF Located, InBwrite

\* A process that goes on without a buffer of its own
LEMMA MovedFree ==
    ASSUME ProcTypes, Located, NEW p \in Procs,
           NEW l \in {"idle", "getblk", "newbuf", "rahead", "bflush", "bdwait", "blkflush", "binvalfree"},
           pc' = [pc EXCEPT ![p] = l],
           \A q \in Procs \ {p} : call'[q] = call[q]
    PROVE  Located'
<1>1. \A q \in Procs \ {p} : pc'[q] = pc[q] /\ call'[q] = call[q]
    BY DEF ProcTypes
<1>2. pc'[p] = l
    BY DEF ProcTypes
<1> QED
    BY <1>1, <1>2, Moved

\* bwrite returns to brealloc and to allocbuf with their buffer
LEMMA AfterBwriteLocated ==
    ASSUME ProcTypes, Located, NEW p \in Procs, InBwrite(p), AfterBwrite(p) PROVE Located'
<1>1. CASE Return(p)
    BY <1>1, MovedFree DEF Return, ProcTypes
<1>2. CASE /\ call[p].ret # "idle"
           /\ Goto(p, call[p].ret)
           /\ call' = [call EXCEPT ![p] =
                  [call[p] EXCEPT !.ep = NoBuf, !.ret = "idle", !.gset = {},
                        !.bp = IF call[p].ret = "getblk" THEN NoBuf ELSE call[p].bp]]
    <2>1. call[p] \in CallType /\ call[p].ret \in Returns
        BY DEF ProcTypes, CallType
    <2>2. \A q \in Procs \ {p} : pc'[q] = pc[q] /\ call'[q] = call[q]
        BY <1>2 DEF Goto, ProcTypes
    <2>3. pc'[p] = call[p].ret /\ call'[p].bp = IF call[p].ret = "getblk" THEN NoBuf ELSE call[p].bp
        BY <1>2, <2>1 DEF Goto, ProcTypes, CallType
    <2>4. CASE call[p].ret \in {"overlap", "steal"}
        BY <2>2, <2>3, <2>4, Moved DEF Located
    <2>5. CASE call[p].ret \notin {"overlap", "steal"}
        <3>1. pc'[p] \in Returns \ {"overlap", "steal"}
            BY <2>1, <2>3, <2>5
        <3> QED
            BY <2>2, <3>1, Moved DEF Returns
    <2> QED
        BY <2>4, <2>5
<1> QED
    BY <1>1, <1>2 DEF AfterBwrite

\* bwrite waits for the buffer that it writes, or returns
LEMMA WrittenLocated ==
    ASSUME ProcTypes, Located, NEW p \in Procs, InBwrite(p), Written(p) PROVE Located'
<1>1. CASE AfterBwrite(p)
    BY <1>1, AfterBwriteLocated
<1>2. CASE Goto(p, "bwritewait") /\ call' = [call EXCEPT ![p].gset = {}]
    <2>1. \A q \in Procs \ {p} : pc'[q] = pc[q] /\ call'[q] = call[q]
        BY <1>2 DEF Goto, ProcTypes
    <2>2. pc'[p] = "bwritewait" /\ call'[p].ep = call[p].ep /\ call'[p].bp = call[p].bp /\ call'[p].ret = call[p].ret
        BY <1>2 DEF Goto, ProcTypes, CallType
    <2> QED
        BY <2>1, <2>2, Moved DEF Located
<1> QED
    BY <1>1, <1>2 DEF Written

\* bwrite is called for a buffer, from brealloc and allocbuf with theirs
LEMMA CallBwriteLocated ==
    ASSUME ProcTypes, Located, NEW p \in Procs, NEW b \in Bufs, NEW l \in Returns,
           l \in {"overlap", "steal"} => pc[p] = l,
           CallBwrite(p, b, l)
    PROVE  Located'
<1>1. \A q \in Procs \ {p} : pc'[q] = pc[q] /\ call'[q] = call[q]
    BY DEF CallBwrite, Goto, ProcTypes
<1>2. pc'[p] = "bwrite" /\ call'[p].ep = b /\ call'[p].ret = l /\ call'[p].bp = call[p].bp
    BY DEF CallBwrite, Goto, ProcTypes, CallType
<1> QED
    BY <1>1, <1>2, Moved DEF Located

\* breada ends with the buffer of the block, or without one
LEMMA FinishBreadaLocated ==
    ASSUME ProcTypes, Located, NEW p \in Procs, NEW w, FinishBreada(p, w) PROVE Located'
<1>1. \A q \in Procs \ {p} : pc'[q] = pc[q] /\ call'[q] = call[q]
    BY DEF FinishBreada, Goto, ProcTypes
<1>2. call[p].first \in Bufs \cup {NoBuf} /\ call'[p].bp = call[p].first
    BY DEF FinishBreada, NoCall, ProcTypes, CallType
<1>3. pc'[p] = IF call[p].first = NoBuf THEN "getblk" ELSE "biowait"
    BY DEF FinishBreada, Goto, ProcTypes
<1> QED
    BY <1>1, <1>2, <1>3, Moved

\* A process that keeps its local variables, and goes from a place where its
\* buffer is known to another, or stays where it is
LEMMA MovedOn ==
    ASSUME ProcTypes, Located, NEW p \in Procs, call' = call,
           \/ UNCHANGED pc
           \/ /\ pc[p] \in {"hit", "brealloc", "overlap", "allocbuf", "steal", "got", "biowait"}
              /\ \E l \in {"hit", "brealloc", "overlap", "allocbuf", "steal", "got", "biowait", "held"} :
                     pc' = [pc EXCEPT ![p] = l]
    PROVE  Located'
BY DEF Located, InBwrite, ProcTypes

\* A process that gets its buffer
LEMMA MovedWith ==
    ASSUME ProcTypes, Located, NEW p \in Procs, NEW b \in Bufs, SetBp(p, b),
           NEW l \in {"hit", "brealloc"}, Goto(p, l)
    PROVE  Located'
<1>1. \A q \in Procs \ {p} : pc'[q] = pc[q] /\ call'[q] = call[q]
    BY DEF SetBp, Goto, ProcTypes
<1>2. call'[p].bp = b /\ pc'[p] = l
    BY DEF SetBp, Goto, ProcTypes, CallType
<1> QED
    BY <1>1, <1>2, Moved

\* A step of a process leaves the buffers of all processes known
LEMMA LocatedStep ==
    ASSUME TypeOK, Located, NEW p \in Procs, Step(p) PROVE Located'
<1>t. ProcTypes /\ Located
    BY DEF TypeOK
<1>GetblkFind. CASE GetblkFind(p)
    BY <1>t, <1>GetblkFind, MovedWith DEF GetblkFind, At, Incore
<1>GetblkMiss. CASE GetblkMiss(p)
    BY <1>t, <1>GetblkMiss, MovedFree DEF GetblkMiss, At, Goto
<1>GetblkBusy. CASE GetblkBusy(p)
    BY <1>t, <1>GetblkBusy, MovedFree DEF GetblkBusy, At, SetBp, ProcTypes
<1>GetblkHit. CASE GetblkHit(p)
    BY <1>t, <1>GetblkHit, MovedOn DEF GetblkHit, At, Goto, Hold, Resize
<1>NoFreeBuf. CASE NoFreeBuf(p)
    BY <1>t, <1>NoFreeBuf, MovedOn DEF NoFreeBuf, At, AtGetnewbuf
<1>NewBuf. CASE NewBuf(p)
    BY <1>t, <1>NewBuf, MovedWith DEF NewBuf, At, Scan, OnQueue
<1>WriteBehind. CASE WriteBehind(p)
    BY <1>t, <1>WriteBehind, CallBwriteLocated DEF WriteBehind, At, Behind, AtGetnewbuf, Returns
<1>BreallocSame. CASE BreallocSame(p)
    BY <1>t, <1>BreallocSame, MovedOn DEF BreallocSame, At, Goto, Hold, Resize
<1>BreallocDirty. CASE BreallocDirty(p)
    BY <1>t, <1>BreallocDirty, CallBwriteLocated DEF BreallocDirty, At, Located, Returns
<1>BreallocShrink. CASE BreallocShrink(p)
    BY <1>t, <1>BreallocShrink, MovedOn DEF BreallocShrink, At, Goto, Hold, Resize
<1>BreallocGrow. CASE BreallocGrow(p)
    BY <1>t, <1>BreallocGrow, MovedOn DEF BreallocGrow, At, Goto, Hold, Resize
<1>OverlapBusy. CASE OverlapBusy(p)
    BY <1>t, <1>OverlapBusy, MovedOn DEF OverlapBusy, At, AtGetnewbuf
<1>OverlapDirty. CASE OverlapDirty(p)
    BY <1>t, <1>OverlapDirty, CallBwriteLocated DEF OverlapDirty, At, Overlapping, Returns
<1>OverlapClean. CASE OverlapClean(p)
    BY <1>t, <1>OverlapClean, MovedOn DEF OverlapClean, At, Goto, Hold, Resize
<1>OverlapNone. CASE OverlapNone(p)
    BY <1>t, <1>OverlapNone, MovedOn DEF OverlapNone, At, Goto, Hold, Resize
<1>Allocbuf. CASE Allocbuf(p)
    BY <1>t, <1>Allocbuf, MovedOn DEF Allocbuf, At, Goto, Hold, Resize
<1>AllocbufSteal. CASE AllocbufSteal(p)
    BY <1>t, <1>AllocbufSteal, MovedOn DEF AllocbufSteal, At, Goto, Hold, Resize
<1>Steal. CASE Steal(p)
    BY <1>t, <1>Steal, MovedOn DEF Steal, At, Goto, Hold, Resize
<1>BwriteStart. CASE BwriteStart(p)
    BY <1>t, <1>BwriteStart, WrittenLocated DEF BwriteStart, At, InBwrite
<1>VbwriteGather. CASE VbwriteGather(p)
    <2>1. PICK S : call' = [call EXCEPT ![p].gset = S]
        BY <1>VbwriteGather DEF VbwriteGather
    <2>2. pc[p] = "bwrite" /\ pc' = [pc EXCEPT ![p] = "getmem"]
        BY <1>VbwriteGather DEF VbwriteGather, At
    <2>3. \A q \in Procs \ {p} : pc'[q] = pc[q] /\ call'[q] = call[q]
        BY <1>t, <2>1, <2>2 DEF ProcTypes
    <2>4. pc'[p] = "getmem" /\ call'[p].ep = call[p].ep /\ call'[p].bp = call[p].bp /\ call'[p].ret = call[p].ret
        BY <1>t, <2>1, <2>2 DEF ProcTypes, CallType
    <2> QED
        BY <1>t, <2>2, <2>3, <2>4, Moved DEF Located, InBwrite
<1>VbwriteStart. CASE VbwriteStart(p)
    BY <1>t, <1>VbwriteStart, WrittenLocated DEF VbwriteStart, At, InBwrite
<1>BwriteDone. CASE BwriteDone(p)
    BY <1>t, <1>BwriteDone, AfterBwriteLocated DEF BwriteDone, At, InBwrite
<1>BiowaitSleep. CASE BiowaitSleep(p)
    BY <1>t, <1>BiowaitSleep, MovedOn DEF BiowaitSleep, At, AtGetnewbuf
<1>BiowaitDone. CASE BiowaitDone(p)
    BY <1>t, <1>BiowaitDone, MovedOn DEF BiowaitDone, At, Goto, Hold, Resize
<1>GotBlk. CASE GotBlk(p)
    BY <1>t, <1>GotBlk, MovedOn DEF GotBlk, At, Goto, Hold, Resize
<1>BreadStart. CASE BreadStart(p)
    BY <1>t, <1>BreadStart, MovedOn DEF BreadStart, At, Goto, Hold, Resize
<1>BreadaStart. CASE BreadaStart(p)
    BY <1>t, <1>BreadaStart, MovedFree DEF BreadaStart, At, ProcTypes
<1>BreadaIncore. CASE BreadaIncore(p)
    BY <1>t, <1>BreadaIncore, FinishBreadaLocated DEF BreadaIncore, AtRahead, At
<1>BreadaGetblk. CASE BreadaGetblk(p)
    BY <1>t, <1>BreadaGetblk, MovedFree DEF BreadaGetblk, AtRahead, At, Goto, ProcTypes
<1>BreadaAhead. CASE BreadaAhead(p)
    BY <1>t, <1>BreadaAhead, FinishBreadaLocated DEF BreadaAhead, At
<1>Release. CASE Release(p)
    BY <1>t, <1>Release, MovedFree DEF Release, At, Return, ProcTypes
<1>Bdwrite. CASE Bdwrite(p)
    BY <1>t, <1>Bdwrite, MovedFree DEF Bdwrite, At, Return, ProcTypes
<1>CallWrite. CASE CallWrite(p)
    BY <1>t, <1>CallWrite, CallBwriteLocated DEF CallWrite, At, MayModify, Located, Returns
<1>BdwaitSleep. CASE BdwaitSleep(p)
    BY <1>t, <1>BdwaitSleep, MovedOn DEF BdwaitSleep, At, AtGetnewbuf
<1>BinvalfreeWrite. CASE BinvalfreeWrite(p)
    BY <1>t, <1>BinvalfreeWrite, MovedFree DEF BinvalfreeWrite, Goto
<1>BinvalfreeDrop. CASE BinvalfreeDrop(p)
    BY <1>t, <1>BinvalfreeDrop, MovedFree DEF BinvalfreeDrop, At, Goto
<1>BiodDrop. CASE BiodDrop(p)
    BY <1>t, <1>BiodDrop, MovedFree DEF BiodDrop, Goto
<1>FlushReturn. CASE FlushReturn(p)
    BY <1>t, <1>FlushReturn, MovedFree DEF FlushReturn, At, Return, ProcTypes
<1> QED
    BY <1>GetblkFind, <1>GetblkMiss, <1>GetblkBusy, <1>GetblkHit, <1>NoFreeBuf, <1>NewBuf,
       <1>WriteBehind, <1>BreallocSame, <1>BreallocDirty, <1>BreallocShrink,
       <1>BreallocGrow, <1>OverlapBusy, <1>OverlapDirty, <1>OverlapClean, <1>OverlapNone,
       <1>Allocbuf, <1>AllocbufSteal, <1>Steal, <1>BwriteStart, <1>VbwriteGather,
       <1>VbwriteStart, <1>BwriteDone, <1>BiowaitSleep, <1>BiowaitDone, <1>GotBlk,
       <1>BreadStart, <1>BreadaStart, <1>BreadaIncore, <1>BreadaGetblk, <1>BreadaAhead,
       <1>Release, <1>Bdwrite, <1>CallWrite, <1>BdwaitSleep, <1>BinvalfreeWrite, <1>BinvalfreeDrop,
       <1>BiodDrop, <1>FlushReturn DEF Step

\* Calls and interrupts leave them known too
LEMMA LocatedOther ==
    ASSUME TypeOK, Located,
           (\E p \in Procs : CallOp(p)) \/ (\E b \in Bufs : IODone(b))
    PROVE  Located'
<1>t. ProcTypes
    BY DEF TypeOK
<1>1. ASSUME NEW p \in Procs, NEW o, NEW w, NEW n, NEW l \in {"getblk", "newbuf", "rahead", "bflush", "bdwait", "blkflush", "binvalfree"},
             Call(p, o, w, n, l)
      PROVE  Located'
    BY <1>t, <1>1, MovedFree DEF Call, Goto, ProcTypes
<1>2. ASSUME NEW p \in Procs, CallRead(p) \/ CallBreada(p) \/ CallFlush(p) PROVE Located'
    BY <1>1, <1>2 DEF CallRead, CallBreada, CallFlush
<1>3. ASSUME UNCHANGED <<pc, call>> PROVE Located'
    BY <1>3 DEF Located, InBwrite
<1> QED
    BY <1>2, <1>3 DEF CallOp, Binval, IODone, IODoneAsync, IODoneSync, BiodTake

\* What a process works on is always known, and everything has its type
THEOREM TypeCorrect == Spec => [](TypeOK /\ Located)
<1>1. TypeOK /\ Located /\ [Next]_vars => (TypeOK /\ Located)'
    <2> SUFFICES ASSUME TypeOK, Located, [Next]_vars PROVE (TypeOK /\ Located)'
        OBVIOUS
    <2>1. ASSUME NEW p \in Procs, CallOp(p) PROVE (TypeOK /\ Located)'
        BY <2>1, CallOpTypes, LocatedOther
    <2>2. ASSUME NEW p \in Procs, Step(p) PROVE (TypeOK /\ Located)'
        BY <2>2, TypeStep, LocatedStep
    <2>3. ASSUME NEW b \in Bufs, IODone(b) PROVE (TypeOK /\ Located)'
        BY <2>3, DoneTypes, LocatedOther
    <2>4. CASE UNCHANGED vars
        BY <2>4 DEF vars, bufVars, memVars, ioVars, histVars, TypeOK, BufTypes, MemTypes,
                    IOTypes, ProcTypes, WaitTypes, HistTypes, Located, InBwrite
    <2> QED
        BY <2>1, <2>2, <2>3, <2>4 DEF Next
<1> QED
    BY InitTypes, <1>1, PTL DEF Spec

\* Type correctness, as the runs check it
THEOREM TypeInvariant == Spec => []TypeOK
BY TypeCorrect, PTL

-----------------------------------------------------------------------------
(* NoLostWakeup.  It is inductive together with OffQueue: a buffer that is *)
(* taken from a free list is not busy, so nobody sleeps on it.             *)

OffQueue == \A b \in Bufs : onq[b] # "none" => "BUSY" \notin flags[b]
WaitInv == TypeOK /\ Located /\ OffQueue /\ NoLostWakeup

\* Of the processes only p moves
Others(p) == \A q \in Procs \ {p} : pc'[q] = pc[q]

\* No busy buffer loses B_BUSY or B_WANTED, and none gets B_BUSY on a free list
BuffersKept ==
    \A b \in Bufs :
        /\ "BUSY" \in flags[b] => flags[b] \cap {"BUSY", "WANTED"} \subseteq flags'[b]
        /\ onq'[b] # "none" => onq'[b] = onq[b] /\ ("BUSY" \in flags'[b] => "BUSY" \in flags[b])

\* A step that wakes nobody, for which nobody has to be woken
LEMMA Quiet ==
    ASSUME OffQueue, NoLostWakeup, NEW p \in Procs, wchan[p] = Awake,
           Others(p), BuffersKept, wchan' = wchan, freewanted' = freewanted
    PROVE  OffQueue' /\ NoLostWakeup'
<1>1. OffQueue'
    BY DEF OffQueue, BuffersKept
<1>2. \A q \in Procs : wchan[q] # Awake => pc'[q] = pc[q]
    BY DEF Others
<1>3. Awake \notin Bufs /\ Awake # FreeList
    BY BufsAssumption DEF Awake, FreeList
<1>4. ASSUME NEW q \in Procs, wchan[q] \in Bufs, ~InBiowait(q)'
      PROVE  {"BUSY", "WANTED"} \subseteq flags'[wchan[q]]
    BY <1>2, <1>3, <1>4 DEF NoLostWakeup, InBiowait, BuffersKept
<1>5. ASSUME NEW q \in Procs, wchan[q] = FreeList
      PROVE  freewanted' /\ \A b \in Bufs : onq'[b] \notin {"AGE", "LRU"}
    BY <1>5 DEF NoLostWakeup, BuffersKept
<1> QED
    BY <1>1, <1>4, <1>5 DEF NoLostWakeup

\* A step in which p falls asleep for a reason
LEMMA FallsAsleep ==
    ASSUME WaitTypes, OffQueue, NoLostWakeup, NEW p \in Procs, wchan[p] = Awake, NEW c \in Chans,
           Others(p), BuffersKept, Sleep(p, c), freewanted => freewanted',
           c \in Bufs /\ ~InBiowait(p)' => {"BUSY", "WANTED"} \subseteq flags'[c],
           c = FreeList => freewanted' /\ \A b \in Bufs : onq'[b] \notin {"AGE", "LRU"}
    PROVE  OffQueue' /\ NoLostWakeup'
<1>1. OffQueue'
    BY DEF OffQueue, BuffersKept
<1>2. wchan'[p] = c /\ \A q \in Procs \ {p} : wchan'[q] = wchan[q] /\ pc'[q] = pc[q]
    BY DEF Sleep, WaitTypes, Others
<1>4. ASSUME NEW q \in Procs, wchan'[q] \in Bufs, ~InBiowait(q)'
      PROVE  {"BUSY", "WANTED"} \subseteq flags'[wchan'[q]]
    BY <1>2, <1>4 DEF NoLostWakeup, InBiowait, BuffersKept
<1>5. ASSUME NEW q \in Procs, wchan'[q] = FreeList
      PROVE  freewanted' /\ \A b \in Bufs : onq'[b] \notin {"AGE", "LRU"}
    BY <1>2, <1>5 DEF NoLostWakeup, BuffersKept
<1> QED
    BY <1>1, <1>4, <1>5 DEF NoLostWakeup

\* brelse wakes whoever it has to
LEMMA BrelseWaits ==
    ASSUME BufTypes, WaitTypes, OffQueue, NoLostWakeup,
           \A q \in Procs : wchan[q] = Awake \/ pc'[q] = pc[q],
           NEW b \in Bufs, NEW F \in SUBSET Flags, NEW n, NEW H,
           Brelse(b, F, n, H), NEW C, BrelseWakes(b, flags[b]) \subseteq C, Awaken(C)
    PROVE  OffQueue' /\ NoLostWakeup'
<1>1. /\ \A c \in Bufs \ {b} : flags'[c] = flags[c] /\ onq'[c] = onq[c]
      /\ flags'[b] \cap {"BUSY", "WANTED"} = {}
      /\ freewanted' = FALSE
    BY DEF Brelse, Released, BufTypes
<1>2. OffQueue'
    BY <1>1 DEF OffQueue
<1>3. \A q \in Procs : (wchan'[q] = wchan[q] /\ wchan[q] \notin C) \/ wchan'[q] = Awake
    BY DEF Awaken, WaitTypes
<1>4. Awake \notin Bufs /\ Awake # FreeList
    BY BufsAssumption DEF Awake, FreeList
<1>5. ASSUME NEW q \in Procs, wchan'[q] \in Bufs, ~InBiowait(q)'
      PROVE  {"BUSY", "WANTED"} \subseteq flags'[wchan'[q]]
    <2>1. wchan[q] = wchan'[q] /\ wchan[q] \notin C /\ pc'[q] = pc[q]
        BY <1>3, <1>4, <1>5
    <2>2. {"BUSY", "WANTED"} \subseteq flags[wchan[q]]
        BY <1>5, <2>1 DEF NoLostWakeup, InBiowait
    <2>3. wchan[q] # b
        BY <2>1, <2>2 DEF BrelseWakes
    <2> QED
        BY <1>1, <1>5, <2>1, <2>2, <2>3
<1>6. ASSUME NEW q \in Procs, wchan'[q] = FreeList PROVE FALSE
    <2>1. wchan[q] = FreeList /\ FreeList \notin C
        BY <1>3, <1>4, <1>6
    <2> QED
        BY <2>1 DEF NoLostWakeup, BrelseWakes
<1> QED
    BY <1>2, <1>5, <1>6 DEF NoLostWakeup

\* So does biodone of an asynchronous request
LEMMA BiodoneWaits ==
    ASSUME BufTypes, WaitTypes, OffQueue, NoLostWakeup,
           \A q \in Procs : wchan[q] = Awake \/ pc'[q] = pc[q],
           NEW b \in Bufs, NEW n, NEW F \in SUBSET Flags, NEW H, BiodoneAsync(b, n, F, H)
    PROVE  OffQueue' /\ NoLostWakeup'
<1> DEFINE C == BrelseWakes(b, flags[b])
                \cup (IF basynwait /\ basyncnt = n THEN {AsyncDone} ELSE {})
<1>1. Awaken(C) /\ BrelseWakes(b, flags[b]) \subseteq C /\ Brelse(b, F, bufsize[b], H)
    BY DEF BiodoneAsync
<1> QED
    BY <1>1, BrelseWaits

\* A step of a process leaves nobody asleep without a reason
LEMMA WaitStep ==
    ASSUME WaitInv, NEW p \in Procs, Step(p) PROVE OffQueue' /\ NoLostWakeup'
<1>t. /\ BufTypes /\ ProcTypes /\ WaitTypes /\ HistTypes
      /\ Located /\ OffQueue /\ NoLostWakeup
    BY DEF WaitInv, TypeOK
<1>GetblkFind. CASE GetblkFind(p)
    <2> USE <1>t, <1>GetblkFind DEF GetblkFind, At, bufVars, memVars, ioVars, histVars
    <2>1. wchan[p] = Awake
        OBVIOUS
    <2>2. Others(p)
        BY DEF Goto, ProcTypes, Others
    <2>3. BuffersKept
        BY DEF BufTypes, BuffersKept
    <2> QED
        BY <2>1, <2>2, <2>3, Quiet
<1>GetblkMiss. CASE GetblkMiss(p)
    <2> USE <1>t, <1>GetblkMiss DEF GetblkMiss, At, bufVars, memVars, ioVars, histVars
    <2>1. wchan[p] = Awake
        OBVIOUS
    <2>2. Others(p)
        BY DEF Goto, ProcTypes, Others
    <2>3. BuffersKept
        BY DEF BufTypes, BuffersKept
    <2> QED
        BY <2>1, <2>2, <2>3, Quiet
<1>GetblkBusy. CASE GetblkBusy(p)
    <2> USE <1>t, <1>GetblkBusy DEF GetblkBusy, At, bufVars, memVars, ioVars, histVars
    <2>1. wchan[p] = Awake
        BY DEF AtGetnewbuf
    <2>2. Others(p)
        BY DEF ProcTypes, Others
    <2>b. call[p].bp \in Bufs /\ call[p].bp \in Chans
        BY DEF Located, Chans
    <2>3. BuffersKept
        BY <2>b DEF Want, BufTypes, BuffersKept
    <2>4. {"BUSY", "WANTED"} \subseteq flags'[call[p].bp]
        BY <2>b DEF Want, Has, BufTypes
    <2>5. call[p].bp # FreeList
        BY <2>b, BufsAssumption
    <2> QED
        BY <2>1, <2>2, <2>3, <2>b, <2>4, <2>5, FallsAsleep DEF Want
<1>GetblkHit. CASE GetblkHit(p)
    <2> USE <1>t, <1>GetblkHit DEF GetblkHit, At, bufVars, memVars, ioVars, histVars
    <2>1. wchan[p] = Awake
        OBVIOUS
    <2>2. Others(p)
        BY DEF Goto, ProcTypes, Others
    <2>b. call[p].bp \in Bufs
        BY DEF Located
    <2>3. BuffersKept
        BY <2>b DEF Notavail, BufTypes, BuffersKept
    <2> QED
        BY <2>1, <2>2, <2>3, Quiet
<1>NoFreeBuf. CASE NoFreeBuf(p)
    <2> USE <1>t, <1>NoFreeBuf DEF NoFreeBuf, At, bufVars, memVars, ioVars, histVars
    <2>1. wchan[p] = Awake
        BY DEF AtGetnewbuf
    <2>2. Others(p)
        BY DEF ProcTypes, Others
    <2>3. BuffersKept
        BY DEF BufTypes, BuffersKept
    <2>4. \A b \in Bufs : onq[b] \notin {"AGE", "LRU"}
        BY DEF Scan, OnQueue
    <2>5. FreeList \in Chans /\ FreeList \notin Bufs
        BY BufsAssumption DEF Chans
    <2> QED
        BY <2>1, <2>2, <2>3, <2>4, <2>5, FallsAsleep
<1>NewBuf. CASE NewBuf(p)
    <2> USE <1>t, <1>NewBuf DEF NewBuf, At, bufVars, memVars, ioVars, histVars
    <2>1. wchan[p] = Awake
        OBVIOUS
    <2>2. Others(p)
        BY DEF Goto, ProcTypes, Others
    <2>b. PICK b \in Bufs :
               /\ onq[b] # "none"
               /\ onq' = [onq EXCEPT ![b] = "none"]
               /\ flags' = [flags EXCEPT ![b] =
                            {"BUSY"} \cup (IF call[p].op = "geteblk" THEN {"INVAL"} ELSE {})]
        BY DEF Scan, OnQueue
    <2>3. BuffersKept
        BY <2>b DEF BufTypes, OffQueue, BuffersKept
    <2> QED
        BY <2>1, <2>2, <2>3, Quiet
<1>WriteBehind. CASE WriteBehind(p)
    <2> USE <1>t, <1>WriteBehind DEF WriteBehind, At, bufVars, memVars, ioVars, histVars
    <2>1. wchan[p] = Awake
        BY DEF AtGetnewbuf, Behind, MayModify
    <2>2. Others(p)
        BY DEF CallBwrite, Goto, ProcTypes, Others
    <2>b. PICK b \in Bufs : Notavail(b, {"ASYNC"})
        BY DEF Behind
    <2>3. BuffersKept
        BY <2>b DEF Notavail, BufTypes, BuffersKept
    <2> QED
        BY <2>1, <2>2, <2>3, Quiet
<1>BreallocSame. CASE BreallocSame(p)
    <2> USE <1>t, <1>BreallocSame DEF BreallocSame, At, bufVars, memVars, ioVars, histVars
    <2>1. wchan[p] = Awake
        OBVIOUS
    <2>2. Others(p)
        BY DEF Goto, ProcTypes, Others
    <2>3. BuffersKept
        BY DEF BufTypes, BuffersKept
    <2> QED
        BY <2>1, <2>2, <2>3, Quiet
<1>BreallocDirty. CASE BreallocDirty(p)
    <2> USE <1>t, <1>BreallocDirty DEF BreallocDirty, At, bufVars, memVars, ioVars, histVars
    <2>1. wchan[p] = Awake
        OBVIOUS
    <2>2. Others(p)
        BY DEF CallBwrite, Goto, ProcTypes, Others
    <2>3. BuffersKept
        BY DEF BufTypes, BuffersKept
    <2> QED
        BY <2>1, <2>2, <2>3, Quiet
<1>BreallocShrink. CASE BreallocShrink(p)
    <2> USE <1>t, <1>BreallocShrink DEF BreallocShrink, At, bufVars, memVars, ioVars, histVars
    <2>1. wchan[p] = Awake
        OBVIOUS
    <2>2. Others(p)
        BY DEF Resize, Goto, ProcTypes, Others
    <2>3. BuffersKept
        BY DEF Resize, BufTypes, BuffersKept
    <2> QED
        BY <2>1, <2>2, <2>3, Quiet DEF Resize
<1>BreallocGrow. CASE BreallocGrow(p)
    <2> USE <1>t, <1>BreallocGrow DEF BreallocGrow, At, bufVars, memVars, ioVars, histVars
    <2>1. wchan[p] = Awake
        OBVIOUS
    <2>2. Others(p)
        BY DEF Goto, ProcTypes, Others
    <2>b. call[p].bp \in Bufs
        BY DEF Located
    <2>3. BuffersKept
        BY <2>b DEF Outgrown, BufTypes, BuffersKept
    <2> QED
        BY <2>1, <2>2, <2>3, Quiet
<1>OverlapBusy. CASE OverlapBusy(p)
    <2> USE <1>t, <1>OverlapBusy DEF OverlapBusy, At, bufVars, memVars, ioVars, histVars
    <2>1. wchan[p] = Awake
        BY DEF AtGetnewbuf
    <2>2. Others(p)
        BY DEF ProcTypes, Others
    <2>b. PICK b \in Bufs : Has(b, "BUSY") /\ Want(p, b)
        BY DEF Overlapping
    <2>3. BuffersKept
        BY <2>b DEF Want, BufTypes, BuffersKept
    <2>4. {"BUSY", "WANTED"} \subseteq flags'[b]
        BY <2>b DEF Want, Has, BufTypes
    <2>5. b # FreeList /\ b \in Chans
        BY BufsAssumption DEF Chans
    <2> QED
        BY <2>1, <2>2, <2>3, <2>b, <2>4, <2>5, FallsAsleep DEF Want
<1>OverlapDirty. CASE OverlapDirty(p)
    <2> USE <1>t, <1>OverlapDirty DEF OverlapDirty, At, bufVars, memVars, ioVars, histVars
    <2>1. wchan[p] = Awake
        OBVIOUS
    <2>2. Others(p)
        BY DEF CallBwrite, Goto, ProcTypes, Others
    <2>b. PICK b \in Bufs : Notavail(b, {})
        BY DEF Overlapping
    <2>3. BuffersKept
        BY <2>b DEF Notavail, BufTypes, BuffersKept
    <2> QED
        BY <2>1, <2>2, <2>3, Quiet
<1>OverlapClean. CASE OverlapClean(p)
    <2> USE <1>t, <1>OverlapClean DEF OverlapClean, At, bufVars, memVars, ioVars, histVars
    <2>1. Others(p) /\ wchan[p] = Awake
        BY DEF Goto, ProcTypes, Others
    <2>2. \A q \in Procs : wchan[q] = Awake \/ pc'[q] = pc[q]
        BY <2>1 DEF Others
    <2>b. PICK b \in Bufs : /\ Brelse(b, flags[b] \cup {"INVAL"}, bufsize[b], fresh)
                            /\ Awaken(BrelseWakes(b, flags[b]))
        BY DEF Overlapping
    <2>3. flags[b] \cup {"INVAL"} \in SUBSET Flags
        BY DEF BufTypes, Flags
    <2> QED
        BY <2>2, <2>b, <2>3, BrelseWaits
<1>OverlapNone. CASE OverlapNone(p)
    <2> USE <1>t, <1>OverlapNone DEF OverlapNone, At, bufVars, memVars, ioVars, histVars
    <2>1. wchan[p] = Awake
        OBVIOUS
    <2>2. Others(p)
        BY DEF Goto, ProcTypes, Others
    <2>3. BuffersKept
        BY DEF BufTypes, BuffersKept
    <2> QED
        BY <2>1, <2>2, <2>3, Quiet
<1>Allocbuf. CASE Allocbuf(p)
    <2> USE <1>t, <1>Allocbuf DEF Allocbuf, At, bufVars, memVars, ioVars, histVars
    <2>1. wchan[p] = Awake
        OBVIOUS
    <2>2. Others(p)
        BY DEF Resize, Goto, ProcTypes, Others
    <2>3. BuffersKept
        BY DEF Resize, BufTypes, BuffersKept
    <2> QED
        BY <2>1, <2>2, <2>3, Quiet DEF Resize
<1>AllocbufSteal. CASE AllocbufSteal(p)
    <2> USE <1>t, <1>AllocbufSteal DEF AllocbufSteal, At, bufVars, memVars, ioVars, histVars
    <2>1. wchan[p] = Awake
        OBVIOUS
    <2>2. Others(p)
        BY DEF Goto, ProcTypes, Others
    <2>3. BuffersKept
        BY DEF BufTypes, BuffersKept
    <2> QED
        BY <2>1, <2>2, <2>3, Quiet
<1>Steal. CASE Steal(p)
    <2> USE <1>t, <1>Steal DEF Steal, At, bufVars, memVars, ioVars, histVars
    <2>b. PICK b \in Bufs :
               /\ onq[b] # "none"
               /\ flags' = [flags EXCEPT ![b] = {"INVAL"}]
               /\ onq' = [onq EXCEPT ![b] = "EMPTY"]
        BY DEF Scan, OnQueue
    <2>1. Others(p) /\ wchan[p] = Awake
        BY DEF Goto, ProcTypes, Others
    <2>2. /\ \A c \in Bufs \ {b} : flags'[c] = flags[c] /\ onq'[c] = onq[c]
          /\ "BUSY" \notin flags[b] /\ flags'[b] = {"INVAL"} /\ onq'[b] = "EMPTY"
        BY <2>b DEF BufTypes, OffQueue
    <2>3. \A q \in Procs : \/ wchan'[q] = wchan[q] /\ ~(freewanted /\ wchan[q] = FreeList)
                           \/ wchan'[q] = Awake
        BY DEF Awaken, WaitTypes
    <2>4. Awake \notin Bufs /\ Awake # FreeList
        BY BufsAssumption DEF Awake, FreeList
    <2>5. OffQueue'
        BY <2>2 DEF OffQueue
    <2>6. ASSUME NEW q \in Procs, wchan'[q] \in Bufs, ~InBiowait(q)'
          PROVE  {"BUSY", "WANTED"} \subseteq flags'[wchan'[q]]
        <3>1. wchan[q] = wchan'[q] /\ pc'[q] = pc[q]
            BY <2>1, <2>3, <2>4, <2>6 DEF Others
        <3>2. {"BUSY", "WANTED"} \subseteq flags[wchan[q]]
            BY <2>6, <3>1 DEF NoLostWakeup, InBiowait
        <3> QED
            BY <2>2, <2>6, <3>1, <3>2
    <2>7. ASSUME NEW q \in Procs, wchan'[q] = FreeList PROVE FALSE
        BY <2>3, <2>4, <2>7 DEF NoLostWakeup
    <2> QED
        BY <2>5, <2>6, <2>7 DEF NoLostWakeup
<1>BwriteStart. CASE BwriteStart(p)
    <2> USE <1>t, <1>BwriteStart DEF BwriteStart, At, bufVars, memVars, ioVars, histVars
    <2>1. wchan[p] = Awake
        OBVIOUS
    <2>2. Others(p)
        BY DEF Written, AfterBwrite, Return, Goto, ProcTypes, Others
    <2>b. call[p].ep \in Bufs
        BY DEF Located, InBwrite
    <2>3. BuffersKept
        BY <2>b DEF Writing, BufTypes, BuffersKept
    <2> QED
        BY <2>1, <2>2, <2>3, Quiet
<1>VbwriteGather. CASE VbwriteGather(p)
    <2> USE <1>t, <1>VbwriteGather DEF VbwriteGather, At, bufVars, memVars, ioVars, histVars
    <2>1. wchan[p] = Awake
        OBVIOUS
    <2>2. Others(p)
        BY DEF ProcTypes, Others
    <2>b. call[p].ep \in Bufs
        BY DEF Located, InBwrite
    <2>3. BuffersKept
        BY <2>b DEF Writing, BufTypes, BuffersKept
    <2> QED
        BY <2>1, <2>2, <2>3, Quiet
<1>VbwriteStart. CASE VbwriteStart(p)
    <2> USE <1>t, <1>VbwriteStart DEF VbwriteStart, At, bufVars, memVars, ioVars, histVars
    <2>1. wchan[p] = Awake
        OBVIOUS
    <2>2. Others(p)
        BY DEF Written, AfterBwrite, Return, Goto, ProcTypes, Others
    <2>3. BuffersKept
        BY DEF Writing, BufTypes, BuffersKept
    <2> QED
        BY <2>1, <2>2, <2>3, Quiet
<1>BwriteDone. CASE BwriteDone(p)
    <2> USE <1>t, <1>BwriteDone DEF BwriteDone, At, bufVars, memVars, ioVars, histVars
    <2>1. Others(p) /\ wchan[p] = Awake
        BY DEF AfterBwrite, Return, Goto, ProcTypes, Others
    <2>2. \A q \in Procs : wchan[q] = Awake \/ pc'[q] = pc[q]
        BY <2>1 DEF Others
    <2>b. call[p].ep \in Bufs
        BY DEF Located, InBwrite, MayModify
    <2>3. flags[call[p].ep] \in SUBSET Flags
        BY <2>b DEF BufTypes
    <2> QED
        BY <2>2, <2>b, <2>3, BrelseWaits
<1>BiowaitSleep. CASE BiowaitSleep(p)
    <2> USE <1>t, <1>BiowaitSleep DEF BiowaitSleep, At, bufVars, memVars, ioVars, histVars
    <2>1. wchan[p] = Awake
        BY DEF AtGetnewbuf
    <2>2. Others(p)
        BY DEF ProcTypes, Others
    <2> DEFINE b == IF pc[p] = "biowait" THEN call[p].bp ELSE call[p].ep
    <2>3. BuffersKept
        BY DEF BufTypes, BuffersKept
    <2>4. InBiowait(p)'
        BY DEF InBiowait
    <2>5. b \in Chans /\ b # FreeList
        BY BufsAssumption DEF Located, InBwrite, Chans
    <2> QED
        BY <2>1, <2>2, <2>3, <2>4, <2>5, FallsAsleep
<1>BiowaitDone. CASE BiowaitDone(p)
    <2> USE <1>t, <1>BiowaitDone DEF BiowaitDone, At, bufVars, memVars, ioVars, histVars
    <2>1. wchan[p] = Awake
        OBVIOUS
    <2>2. Others(p)
        BY DEF Hold, ProcTypes, Others
    <2>3. BuffersKept
        BY DEF BufTypes, BuffersKept
    <2> QED
        BY <2>1, <2>2, <2>3, Quiet
<1>GotBlk. CASE GotBlk(p)
    <2> USE <1>t, <1>GotBlk DEF GotBlk, At, bufVars, memVars, ioVars, histVars
    <2>1. wchan[p] = Awake
        OBVIOUS
    <2>2. Others(p)
        BY DEF Hold, ProcTypes, Others
    <2>3. BuffersKept
        BY DEF BufTypes, BuffersKept
    <2> QED
        BY <2>1, <2>2, <2>3, Quiet
<1>BreadStart. CASE BreadStart(p)
    <2> USE <1>t, <1>BreadStart DEF BreadStart, At, bufVars, memVars, ioVars, histVars
    <2>1. wchan[p] = Awake
        OBVIOUS
    <2>2. Others(p)
        BY DEF Goto, ProcTypes, Others
    <2>b. call[p].bp \in Bufs
        BY DEF Located
    <2>3. BuffersKept
        BY <2>b DEF StartRead, BufTypes, BuffersKept
    <2> QED
        BY <2>1, <2>2, <2>3, Quiet
<1>BreadaStart. CASE BreadaStart(p)
    <2> USE <1>t, <1>BreadaStart DEF BreadaStart, At, bufVars, memVars, ioVars, histVars
    <2>1. wchan[p] = Awake
        OBVIOUS
    <2>2. Others(p)
        BY DEF Goto, ProcTypes, Others
    <2>b. call[p].bp \in Bufs
        BY DEF Located
    <2>3. BuffersKept
        BY <2>b DEF StartRead, BufTypes, BuffersKept
    <2> QED
        BY <2>1, <2>2, <2>3, Quiet
<1>BreadaIncore. CASE BreadaIncore(p)
    <2> USE <1>t, <1>BreadaIncore DEF BreadaIncore, AtRahead, At, bufVars, memVars, ioVars, histVars
    <2>1. wchan[p] = Awake
        OBVIOUS
    <2>2. Others(p)
        BY DEF FinishBreada, Goto, ProcTypes, Others
    <2>3. BuffersKept
        BY DEF BufTypes, BuffersKept
    <2> QED
        BY <2>1, <2>2, <2>3, Quiet
<1>BreadaGetblk. CASE BreadaGetblk(p)
    <2> USE <1>t, <1>BreadaGetblk DEF BreadaGetblk, AtRahead, At, bufVars, memVars, ioVars, histVars
    <2>1. wchan[p] = Awake
        OBVIOUS
    <2>2. Others(p)
        BY DEF Goto, ProcTypes, Others
    <2>3. BuffersKept
        BY DEF BufTypes, BuffersKept
    <2> QED
        BY <2>1, <2>2, <2>3, Quiet
<1>BreadaAhead. CASE BreadaAhead(p)
    <2> USE <1>t, <1>BreadaAhead DEF BreadaAhead, At, bufVars, memVars, ioVars, histVars
    <2>b. call[p].bp \in Bufs
        BY DEF Located
    <2>1. Others(p) /\ wchan[p] = Awake
        BY DEF FinishBreada, Goto, ProcTypes, Others
    <2>2. CASE Has(call[p].bp, "DONE")
        <3>1. flags[call[p].bp] \in SUBSET Flags
            BY <2>b DEF BufTypes
        <3>2. \A q \in Procs : wchan[q] = Awake \/ pc'[q] = pc[q]
            BY <2>1 DEF Others
        <3> QED
            BY <2>2, <2>b, <3>1, <3>2, BrelseWaits
    <2>3. CASE ~Has(call[p].bp, "DONE")
        <3>1. BuffersKept
            BY <2>3, <2>b DEF StartRead, BufTypes, BuffersKept
        <3> QED
            BY <2>1, <2>3, <3>1, Quiet
    <2> QED
        BY <2>2, <2>3
<1>Release. CASE Release(p)
    <2> USE <1>t, <1>Release DEF Release, At, bufVars, memVars, ioVars, histVars
    <2>1. Others(p) /\ wchan[p] = Awake
        BY DEF Return, ProcTypes, Others
    <2>2. \A q \in Procs : wchan[q] = Awake \/ pc'[q] = pc[q]
        BY <2>1 DEF Others
    <2>b. call[p].bp \in Bufs
        BY DEF Located, InBwrite, MayModify
    <2>3. PICK F \in {{}, {"AGE"}, {"NOCACHE"}} : Brelse(call[p].bp, flags[call[p].bp] \cup F, bufsize[call[p].bp], fresh)
        OBVIOUS
    <2>4. flags[call[p].bp] \cup F \in SUBSET Flags
        BY <2>b DEF BufTypes, Flags
    <2> QED
        BY <2>2, <2>b, <2>3, <2>4, BrelseWaits
<1>Bdwrite. CASE Bdwrite(p)
    <2> USE <1>t, <1>Bdwrite DEF Bdwrite, At, bufVars, memVars, ioVars, histVars
    <2>1. Others(p) /\ wchan[p] = Awake
        BY DEF MayModify, Return, ProcTypes, Others
    <2>2. \A q \in Procs : wchan[q] = Awake \/ pc'[q] = pc[q]
        BY <2>1 DEF Others
    <2>b. call[p].bp \in Bufs
        BY DEF Located, InBwrite, MayModify
    <2>3. flags[call[p].bp] \cup {"DELWRI", "DONE"} \in SUBSET Flags
        BY <2>b DEF BufTypes, Flags
    <2> QED
        BY <2>2, <2>b, <2>3, BrelseWaits
<1>CallWrite. CASE CallWrite(p)
    <2> USE <1>t, <1>CallWrite DEF CallWrite, At, bufVars, memVars, ioVars, histVars
    <2>1. wchan[p] = Awake
        BY DEF AtGetnewbuf, Behind, MayModify
    <2>2. Others(p)
        BY DEF CallBwrite, Goto, ProcTypes, Others
    <2>b. call[p].bp \in Bufs
        BY DEF Located, MayModify
    <2>3. BuffersKept
        BY <2>b DEF BufTypes, BuffersKept
    <2> QED
        BY <2>1, <2>2, <2>3, Quiet
<1>BdwaitSleep. CASE BdwaitSleep(p)
    <2> USE <1>t, <1>BdwaitSleep DEF BdwaitSleep, At, bufVars, memVars, ioVars, histVars
    <2>1. wchan[p] = Awake
        BY DEF AtGetnewbuf
    <2>2. Others(p)
        BY DEF ProcTypes, Others
    <2>3. BuffersKept
        BY DEF BufTypes, BuffersKept
    <2>4. AsyncDone \in Chans /\ AsyncDone # FreeList /\ AsyncDone \notin Bufs
        BY BufsAssumption DEF Chans, AsyncDone, FreeList
    <2> QED
        BY <2>1, <2>2, <2>3, <2>4, FallsAsleep
<1>BinvalfreeDrop. CASE BinvalfreeDrop(p)
    <2> USE <1>t, <1>BinvalfreeDrop DEF BinvalfreeDrop, At, bufVars, memVars, ioVars, histVars
    <2>1. wchan[p] = Awake
        OBVIOUS
    <2>2. Others(p)
        BY DEF Goto, ProcTypes, Others
    <2>3. BuffersKept
        BY DEF BufTypes, BuffersKept
    <2> QED
        BY <2>1, <2>2, <2>3, Quiet
<1>BinvalfreeWrite. CASE BinvalfreeWrite(p)
    <2> USE <1>t, <1>BinvalfreeWrite DEF BinvalfreeWrite, At
    <2> DEFINE F(b) == Writing(flags[b] \cup {"ASYNC", "INVAL"}) \cup {"DONE"}
    <2>1. Others(p) /\ wchan[p] = Awake
        BY DEF Goto, ProcTypes, Others
    <2>2. \A q \in Procs : wchan[q] = Awake \/ pc'[q] = pc[q]
        BY <2>1 DEF Others
    <2>b. PICK b \in Bufs : Has(b, "DELWRI") /\ Droppable(b) /\ BiodoneAsync(b, 0, F(b), fresh)
        OBVIOUS
    <2>3. F(b) \in SUBSET Flags
        BY DEF BufTypes, Writing, Flags
    <2> QED
        BY <2>2, <2>b, <2>3, BiodoneWaits
<1>BiodDrop. CASE BiodDrop(p)
    <2> USE <1>t, <1>BiodDrop DEF BiodDrop, NoneDroppable, At
    <2> DEFINE F(b) == (flags[b] \ {"READ", "ERROR", "DELWRI"}) \cup {"ASYNC", "INVAL", "DONE"}
    <2>1. Others(p) /\ wchan[p] = Awake
        BY DEF Goto, ProcTypes, Others
    <2>2. \A q \in Procs : wchan[q] = Awake \/ pc'[q] = pc[q]
        BY <2>1 DEF Others
    <2>b. PICK b \in Bufs : BiodoneAsync(b, 1, F(b), fresh)
        BY DEF WaitInv, TypeOK, IOTypes
    <2>3. F(b) \in SUBSET Flags
        BY DEF BufTypes, Flags
    <2> QED
        BY <2>2, <2>b, <2>3, BiodoneWaits
<1>FlushReturn. CASE FlushReturn(p)
    <2> USE <1>t, <1>FlushReturn DEF FlushReturn, At, bufVars, memVars, ioVars, histVars
    <2>1. wchan[p] = Awake
        BY DEF NoneDroppable
    <2>2. Others(p)
        BY DEF Return, ProcTypes, Others
    <2>3. BuffersKept
        BY DEF BufTypes, BuffersKept
    <2> QED
        BY <2>1, <2>2, <2>3, Quiet
<1> QED
    BY <1>GetblkFind, <1>GetblkMiss, <1>GetblkBusy, <1>GetblkHit, <1>NoFreeBuf, <1>NewBuf,
       <1>WriteBehind, <1>BreallocSame, <1>BreallocDirty, <1>BreallocShrink,
       <1>BreallocGrow, <1>OverlapBusy, <1>OverlapDirty, <1>OverlapClean, <1>OverlapNone,
       <1>Allocbuf, <1>AllocbufSteal, <1>Steal, <1>BwriteStart, <1>VbwriteGather,
       <1>VbwriteStart, <1>BwriteDone, <1>BiowaitSleep, <1>BiowaitDone, <1>GotBlk,
       <1>BreadStart, <1>BreadaStart, <1>BreadaIncore, <1>BreadaGetblk, <1>BreadaAhead,
       <1>Release, <1>Bdwrite, <1>CallWrite, <1>BdwaitSleep, <1>BinvalfreeWrite, <1>BinvalfreeDrop,
       <1>BiodDrop, <1>FlushReturn DEF Step

\* Nor does a call
LEMMA WaitCall ==
    ASSUME WaitInv, NEW p \in Procs, CallOp(p) PROVE OffQueue' /\ NoLostWakeup'
<1>t. BufTypes /\ ProcTypes /\ OffQueue /\ NoLostWakeup
    BY DEF WaitInv, TypeOK
<1>1. ASSUME NEW o, NEW w, NEW n, NEW l, Call(p, o, w, n, l) PROVE OffQueue' /\ NoLostWakeup'
    <2> USE <1>t, <1>1 DEF Call, bufVars
    <2>1. wchan[p] = Awake /\ Others(p)
        BY DEF At, Goto, ProcTypes, Others
    <2>2. BuffersKept
        BY DEF BuffersKept
    <2> QED
        BY <2>1, <2>2, Quiet
<1>2. CASE CallRead(p) \/ CallBreada(p) \/ CallFlush(p)
    BY <1>1, <1>2 DEF CallRead, CallBreada, CallFlush
<1>3. CASE Binval(p)
    <2> USE <1>t, <1>3 DEF Binval
    <2>1. wchan[p] = Awake /\ Others(p)
        BY DEF At, Others
    <2>2. BuffersKept
        BY DEF BufTypes, BuffersKept
    <2> QED
        BY <2>1, <2>2, Quiet
<1> QED
    BY <1>2, <1>3 DEF CallOp

\* Nor does the interrupt: biodone wakes the sleepers on the buffer
LEMMA WaitDone ==
    ASSUME WaitInv, NEW b \in Bufs, IODone(b) PROVE OffQueue' /\ NoLostWakeup'
<1>t. BufTypes /\ WaitTypes /\ OffQueue /\ NoLostWakeup
    BY DEF WaitInv, TypeOK
<1>1. CASE IODoneAsync(b)
    <2> USE <1>t, <1>1 DEF IODoneAsync
    <2>1. /\ flags[b] \cup {"DONE"} \in SUBSET Flags
          /\ flags[b] \cup {"DONE", "ERROR"} \in SUBSET Flags
        BY DEF BufTypes, Flags
    <2>2. \A q \in Procs : wchan[q] = Awake \/ pc'[q] = pc[q]
        OBVIOUS
    <2> QED
        BY <2>1, <2>2, BiodoneWaits
<1>2. CASE IODoneSync(b)
    <2> USE <1>t, <1>2 DEF IODoneSync
    <2>1. /\ \A c \in Bufs \ {b} : flags'[c] = flags[c]
          /\ "BUSY" \in flags'[b] => "BUSY" \in flags[b]
          /\ onq' = onq
        BY DEF BufTypes
    <2>2. \A q \in Procs : (wchan'[q] = wchan[q] /\ wchan[q] # b) \/ wchan'[q] = Awake
        BY DEF Awaken, WaitTypes
    <2>3. Awake \notin Bufs /\ Awake # FreeList
        BY BufsAssumption DEF Awake, FreeList
    <2>4. OffQueue'
        BY <2>1 DEF OffQueue
    <2>5. ASSUME NEW q \in Procs, wchan'[q] \in Bufs, ~InBiowait(q)'
          PROVE  {"BUSY", "WANTED"} \subseteq flags'[wchan'[q]]
        BY <2>1, <2>2, <2>3, <2>5 DEF NoLostWakeup, InBiowait
    <2>6. ASSUME NEW q \in Procs, wchan'[q] = FreeList
          PROVE  freewanted' /\ \A c \in Bufs : onq'[c] \notin {"AGE", "LRU"}
        BY <2>1, <2>2, <2>3, <2>6 DEF NoLostWakeup
    <2> QED
        BY <2>4, <2>5, <2>6 DEF NoLostWakeup
<1>3. CASE BiodTake(b)
    BY <1>t, <1>3 DEF BiodTake, bufVars, OffQueue, NoLostWakeup, InBiowait
<1> QED
    BY <1>1, <1>2, <1>3 DEF IODone

\* No process sleeps in getblk, brealloc, blkflush or getnewbuf for a buffer
\* that is free already, whatever the number of processes and of buffers
THEOREM NoLostWakeupHolds == Spec => []NoLostWakeup
<1>1. Init => OffQueue /\ NoLostWakeup
    BY BufsAssumption DEF Init, OffQueue, NoLostWakeup, Awake, FreeList
<1>2. TypeOK /\ Located /\ (OffQueue /\ NoLostWakeup) /\ [Next]_vars => (OffQueue /\ NoLostWakeup)'
    <2> SUFFICES ASSUME WaitInv, [Next]_vars PROVE (OffQueue /\ NoLostWakeup)'
        BY DEF WaitInv
    <2>1. CASE UNCHANGED vars
        BY <2>1 DEF WaitInv, vars, bufVars, OffQueue, NoLostWakeup, InBiowait
    <2> QED
        BY <2>1, WaitCall, WaitStep, WaitDone DEF Next
<1> QED
    BY <1>1, <1>2, TypeCorrect, PTL DEF Spec

-----------------------------------------------------------------------------
(* MemoryConserved.  It is inductive, with the types and with the buffers  *)
(* that the processes work on: memory moves between bufmap and one buffer. *)

\* MemoryConserved, in terms of the lemmas on sums
MemInv ==
    /\ mem >= 0
    /\ mem + SumFunctionOnSet(bufsize, DOMAIN bufsize) = Mem
    /\ \A b \in Bufs : bcount[b] <= bufsize[b]

LEMMA MemInvSays == MemInv => MemoryConserved
BY Zenon DEF MemoryConserved, MemInv, FoldFunction, SumFunctionOnSet

\* One buffer gets n units: what it had goes to bufmap, and n come from there
LEMMA MemMoved ==
    ASSUME TypeOK, MemInv, NEW b \in Bufs, NEW n \in Nat,
           mem' = mem + (bufsize[b] - n), mem' >= 0,
           bufsize' = [bufsize EXCEPT ![b] = n],
           bcount' = [bcount EXCEPT ![b] = n]
    PROVE  MemInv'
<1>1. bufsize \in [Bufs -> Nat] /\ bcount \in [Bufs -> Nat] /\ mem \in Int /\ IsFiniteSet(Bufs)
    BY BufsAssumption DEF TypeOK, MemTypes
<1>2. bufsize \in [Bufs -> Int] /\ bufsize' \in [Bufs -> Int] /\ DOMAIN bufsize = Bufs /\ DOMAIN bufsize' = Bufs
    BY <1>1
<1>3. mem + SumFunctionOnSet(bufsize, Bufs) = Mem
    BY <1>2 DEF MemInv
<1>4. SumFunctionOnSet(bufsize, Bufs) \in Int /\ bufsize[b] \in Int /\ n \in Int
    BY <1>1, <1>2, SumRemove
<1>5. SumFunctionOnSet(bufsize', Bufs) = SumFunctionOnSet(bufsize, Bufs) - bufsize[b] + n
    <2>1. /\ bufsize \in [Bufs -> Int] /\ bufsize' \in [Bufs -> Int]
          /\ bufsize'[b] = n /\ \A c \in Bufs \ {b} : bufsize'[c] = bufsize[c]
        BY <1>1, <1>2
    <2>2. SumFunctionOnSet(bufsize', Bufs) = SumFunctionOnSet(bufsize, Bufs) - bufsize[b] + bufsize'[b]
        <3>1. PICK f \in [Bufs -> Int], g \in [Bufs -> Int] : f = bufsize /\ g = bufsize'
            BY <2>1
        <3>2. \A c \in Bufs \ {b} : g[c] = f[c]
            BY <2>1, <3>1
        <3>3. SumFunctionOnSet(g, Bufs) = SumFunctionOnSet(f, Bufs) - f[b] + g[b]
            BY <1>1, <3>2, SumChange
        <3> QED
            BY <3>1, <3>3
    <2> QED
        BY <2>1, <2>2
<1>6. mem' + SumFunctionOnSet(bufsize', Bufs) = Mem
    BY <1>1, <1>3, <1>4, <1>5
<1>7. mem' + SumFunctionOnSet(bufsize', DOMAIN bufsize') = Mem
    BY <1>2, <1>6
<1>8. \A c \in Bufs : bcount'[c] <= bufsize'[c]
    BY <1>1 DEF MemInv
<1> QED
    BY <1>7, <1>8 DEF MemInv

\* Only getnewbuf, brealloc and allocbuf change sizes or take memory
LEMMA MemFrame ==
    ASSUME NEW p \in Procs, Step(p), ~NewBuf(p), ~BreallocShrink(p), ~Allocbuf(p), ~Steal(p)
    PROVE  UNCHANGED memVars
<1> USE DEF bufVars
<1>1. ASSUME GetblkFind(p) \/ GetblkMiss(p) \/ GetblkBusy(p) \/ GetblkHit(p) \/ NoFreeBuf(p) \/ WriteBehind(p)
      PROVE  UNCHANGED memVars
    BY <1>1 DEF GetblkFind, GetblkMiss, GetblkBusy, GetblkHit, NoFreeBuf, WriteBehind
<1>2. ASSUME \/ BreallocSame(p) \/ BreallocDirty(p) \/ BreallocGrow(p)
             \/ OverlapBusy(p) \/ OverlapDirty(p) \/ OverlapClean(p) \/ OverlapNone(p) \/ AllocbufSteal(p)
      PROVE  UNCHANGED memVars
    BY <1>2 DEF BreallocSame, BreallocDirty, BreallocGrow, OverlapBusy, OverlapDirty, OverlapClean,
                OverlapNone, AllocbufSteal
<1>3. ASSUME \/ BwriteStart(p) \/ VbwriteGather(p) \/ VbwriteStart(p) \/ BwriteDone(p)
             \/ BiowaitSleep(p) \/ BiowaitDone(p) \/ GotBlk(p) \/ BreadStart(p)
      PROVE  UNCHANGED memVars
    BY <1>3 DEF BwriteStart, VbwriteGather, VbwriteStart, BwriteDone, BiowaitSleep, BiowaitDone, GotBlk, BreadStart
<1>4. ASSUME \/ BreadaStart(p) \/ BreadaIncore(p) \/ BreadaGetblk(p) \/ BreadaAhead(p)
             \/ Release(p) \/ Bdwrite(p) \/ CallWrite(p)
      PROVE  UNCHANGED memVars
    BY <1>4 DEF BreadaStart, BreadaIncore, BreadaGetblk, BreadaAhead, Release, Bdwrite, CallWrite
<1>5. ASSUME \/ BdwaitSleep(p) \/ BinvalfreeWrite(p) \/ BinvalfreeDrop(p) \/ BiodDrop(p) \/ FlushReturn(p)
      PROVE  UNCHANGED memVars
    BY <1>5 DEF BdwaitSleep, BinvalfreeWrite, BinvalfreeDrop, BiodDrop, FlushReturn
<1> QED
    BY <1>1, <1>2, <1>3, <1>4, <1>5 DEF Step

\* A step of a process conserves the memory
LEMMA MemStep ==
    ASSUME TypeOK, Located, MemInv, NEW p \in Procs, Step(p) PROVE MemInv'
<1>1. bufsize \in [Bufs -> Nat] /\ bcount \in [Bufs -> Nat] /\ mem \in Int /\ mem >= 0
    BY DEF TypeOK, MemTypes, MemInv
<1>2. Size(p) \in Nat
    <2>1. call[p].want \in Wants
        BY DEF TypeOK, ProcTypes, CallType
    <2> QED
        BY <2>1, BlockAssumption DEF Size, Wants, Sizes
<1>3. CASE BreallocShrink(p)
    <2>1. PICK b \in Bufs : b = call[p].bp
        BY <1>3 DEF BreallocShrink, At, Located
    <2>2. Size(p) < bcount[b] /\ Resize(p, b)
        BY <1>3, <2>1 DEF BreallocShrink
    <2>3. bcount[b] <= bufsize[b]
        BY DEF MemInv
    <2>4. mem' = mem + (bufsize[b] - Size(p)) /\ mem' >= 0
        BY <1>1, <1>2, <2>2, <2>3 DEF Resize, Freed
    <2> QED
        BY <1>2, <2>2, <2>4, MemMoved DEF Resize
<1>4. CASE Allocbuf(p)
    <2>1. PICK b \in Bufs : b = call[p].bp
        BY <1>4 DEF Allocbuf, At, Located
    <2>2. Size(p) <= bufsize[b] \/ Size(p) <= mem
        BY <1>4, <2>1 DEF Allocbuf
    <2>3. Resize(p, b)
        BY <1>4, <2>1 DEF Allocbuf
    <2>4. mem' = mem + (bufsize[b] - Size(p)) /\ mem' >= 0
        BY <1>1, <1>2, <2>2, <2>3 DEF Resize, Freed
    <2> QED
        BY <1>2, <2>3, <2>4, MemMoved DEF Resize
<1>5. CASE Steal(p)
    <2>1. PICK b \in Bufs : /\ mem' = mem + bufsize[b]
                            /\ bufsize' = [bufsize EXCEPT ![b] = 0]
                            /\ bcount' = [bcount EXCEPT ![b] = 0]
        BY <1>5 DEF Steal, Scan, OnQueue
    <2>2. mem' = mem + (bufsize[b] - 0) /\ mem' >= 0
        BY <1>1, <2>1
    <2> QED
        BY <2>1, <2>2, MemMoved
<1>6. CASE NewBuf(p)
    <2>1. PICK b \in Bufs : bcount' = [bcount EXCEPT ![b] = 0]
        BY <1>6 DEF NewBuf, Scan, OnQueue
    <2>2. bufsize' = bufsize /\ mem' = mem
        BY <1>6 DEF NewBuf
    <2>3. \A c \in Bufs : bcount'[c] <= bufsize'[c]
        BY <1>1, <2>1, <2>2 DEF MemInv
    <2> QED
        BY <2>2, <2>3 DEF MemInv
<1>7. CASE UNCHANGED memVars
    BY <1>7 DEF memVars, MemInv
<1> QED
    BY <1>3, <1>4, <1>5, <1>6, <1>7, MemFrame

\* The units of memory are in bufmap or in a buffer, none twice, none lost, and
\* no buffer holds more than it has memory for (MemoryConserved)
THEOREM MemoryConservedHolds == Spec => []MemoryConserved
<1>1. Init => MemInv
    <2> SUFFICES ASSUME Init PROVE MemInv
        OBVIOUS
    <2>1. /\ bufsize = [b \in Bufs |-> 0] /\ bcount = [b \in Bufs |-> 0]
          /\ mem = Mem /\ IsFiniteSet(Bufs) /\ Mem \in Nat
        BY BufsAssumption, ConfAssumption DEF Init
    <2>2. SumFunctionOnSet(bufsize, Bufs) = 0
        BY <2>1, SumZero
    <2> QED
        BY <2>1, <2>2 DEF MemInv
<1>2. TypeOK /\ Located /\ MemInv /\ [Next]_vars => MemInv'
    <2> SUFFICES ASSUME TypeOK, Located, MemInv, [Next]_vars PROVE MemInv'
        OBVIOUS
    <2>1. ASSUME NEW p \in Procs, Step(p) PROVE MemInv'
        BY <2>1, MemStep
    <2>2. ASSUME UNCHANGED memVars PROVE MemInv'
        BY <2>2 DEF memVars, MemInv
    <2>3. ASSUME NEW p \in Procs, CallOp(p) PROVE UNCHANGED memVars
        BY <2>3 DEF CallOp, CallRead, CallBreada, CallFlush, Binval, Call, bufVars
    <2>4. ASSUME NEW b \in Bufs, IODone(b) PROVE UNCHANGED memVars
        BY <2>4 DEF IODone, BiodTake, IODoneAsync, IODoneSync, bufVars
    <2>5. CASE UNCHANGED vars
        BY <2>5, <2>2 DEF vars, bufVars
    <2> QED
        BY <2>1, <2>2, <2>3, <2>4, <2>5 DEF Next
<1> QED
    BY <1>1, <1>2, TypeCorrect, MemInvSays, PTL DEF Spec

-----------------------------------------------------------------------------
(* Who has a buffer: the invariant                                         *)

\* The flags, the free list and the requests of a buffer agree
BufferKept(b) ==
    /\ Has(b, "BUSY") <=> onq[b] = "none"
    /\ b \in pend => Has(b, "BUSY") /\ ~Has(b, "DONE")
    /\ ~Has(b, "BUSY") => ~Has(b, "ASYNC")
    /\ b \in biodq => b \in pend /\ Has(b, "ASYNC")

\* No request of b is under way; or one that p waits for is, or it is over
Settled(b) == Has(b, "BUSY") /\ ~Has(b, "ASYNC") /\ b \notin pend
Waited(b)  == Has(b, "BUSY") /\ ~Has(b, "ASYNC") /\ (Has(b, "DONE") \/ b \in pend)

\* The buffer that p works on, the one that bwrite writes, and the first one of breada
BpKept(p) ==
    /\ \/ pc[p] \in {"brealloc", "overlap", "allocbuf", "steal", "got", "held"}
       \/ InBwrite(p) /\ call[p].ret \in {"overlap", "steal"}
       => Settled(call[p].bp)
    /\ pc[p] = "biowait" => Waited(call[p].bp)
EpKept(p) ==
    /\ pc[p] \in {"bwrite", "getmem"} => Has(call[p].ep, "BUSY") /\ call[p].ep \notin pend
    /\ pc[p] = "getmem" => ~Has(call[p].ep, "DONE")
    /\ pc[p] = "bwritewait" => Waited(call[p].ep)
FirstKept(p) == call[p].first # NoBuf => Waited(call[p].first)

\* Where p has no buffer to work on, and which of its buffers differ
Places(p) ==
    /\ pc[p] \in {"idle", "getblk", "newbuf", "rahead", "bflush", "bdwait", "blkflush",
                  "binvalfree"}
       => call[p].bp = NoBuf
    /\ InBwrite(p) =>
          /\ call[p].ret \in {"newbuf", "bflush", "blkflush"} => call[p].bp = NoBuf
          /\ call[p].ret \in {"idle", "getblk"} => call[p].bp = call[p].ep
          /\ call[p].ret \in {"overlap", "steal"} => call[p].bp # call[p].ep
          /\ call[p].ret # "binvalfree"
          /\ call[p].ep # call[p].first
    /\ call[p].first # NoBuf =>
          /\ \/ pc[p] \in {"rahead", "getblk", "hit", "newbuf", "brealloc", "overlap",
                           "allocbuf", "steal", "got"}
             \/ InBwrite(p) /\ call[p].ret \in {"getblk", "newbuf", "overlap", "steal"}
          /\ pc[p] # "rahead" => call[p].op = "rahead"
          /\ pc[p] # "hit" => call[p].bp # call[p].first

\* Nobody else runs while getmem looks for memory
Gathering(p) == pc[p] = "getmem" => cpu = p /\ \A b \in call[p].gset : ~Has(b, "BUSY")

\* A sleeper in biowait sleeps on the buffer that it waits for
Sleeping(p) == wchan[p] \in Bufs /\ InBiowait(p) =>
                  /\ wchan[p] = IF pc[p] = "biowait" THEN call[p].bp ELSE call[p].ep
                  /\ wchan[p] \in pend

ProcKept(p) == /\ Places(p) /\ BpKept(p) /\ EpKept(p) /\ FirstKept(p)
               /\ Gathering(p) /\ Sleeping(p)

\* A busy buffer belongs to the device, or somebody has it
OnDevice(b) == b \in pend /\ Has(b, "ASYNC")
Owned(b) == Has(b, "BUSY") => OnDevice(b) \/ \E p \in Procs : b \in Holds(p)

OwnInv ==
    /\ \A b \in Bufs : BufferKept(b) /\ Owned(b)
    /\ \A p \in Procs : ProcKept(p)
    /\ \A p, q \in Procs : p # q => Holds(p) \cap Holds(q) = {}

-----------------------------------------------------------------------------
(* What a step has to leave alone                                          *)

\* A buffer that somebody has is busy, and the device does not own it
LEMMA HeldBusy ==
    ASSUME TypeOK, Located, NEW p \in Procs, ProcKept(p), NEW b \in Holds(p)
    PROVE  b \in Bufs /\ Has(b, "BUSY") /\ ~OnDevice(b)
<1>t. pc[p] \in Labels /\ call[p] \in CallType /\ NoBuf \notin Bufs
    BY BufsAssumption DEF TypeOK, ProcTypes
<1>r. call[p].ret \in Returns
    BY <1>t DEF CallType
<1>1. b \in Bufs
    BY DEF Holds
<1>2. CASE b = call[p].first
    BY <1>1, <1>2, <1>t DEF ProcKept, FirstKept, Waited, Has, OnDevice
<1>3. CASE b = call[p].ep /\ InBwrite(p)
    <2>1. CASE pc[p] = "bwritewait"
        BY <1>1, <1>3, <2>1 DEF ProcKept, EpKept, Waited, OnDevice
    <2>2. CASE pc[p] \in {"bwrite", "getmem"}
        BY <1>1, <1>3, <2>2 DEF ProcKept, EpKept, OnDevice
    <2> QED
        BY <1>3, <2>1, <2>2 DEF InBwrite
<1>4. CASE b = call[p].bp /\ pc[p] # "hit" /\ ~InBwrite(p)
    <2>1. pc[p] \in {"brealloc", "overlap", "allocbuf", "steal", "got", "held", "biowait"}
        BY <1>1, <1>4, <1>t DEF ProcKept, Places, InBwrite, Labels
    <2> QED
        BY <1>1, <1>4, <2>1 DEF ProcKept, BpKept, Settled, Waited, OnDevice
<1>5. CASE b = call[p].bp /\ InBwrite(p)
    <2>1. CASE call[p].ret \in {"overlap", "steal"}
        BY <1>1, <1>5, <2>1 DEF ProcKept, BpKept, Settled, OnDevice
    <2>2. CASE call[p].ret \notin {"overlap", "steal"}
        BY <1>1, <1>3, <1>5, <2>2, <1>t, <1>r DEF ProcKept, Places, Returns
    <2> QED
        BY <2>1, <2>2
<1> QED
    BY <1>1, <1>2, <1>3, <1>4, <1>5 DEF Holds

\* Nothing that OwnInv says of b changes, but that a daemon may take its request
Same(b) ==
    /\ \A f \in {"BUSY", "ASYNC", "DONE"} : Has(b, f)' <=> Has(b, f)
    /\ onq'[b] = "none" <=> onq[b] = "none"
    /\ b \in pend' <=> b \in pend
    /\ b \in biodq' => b \in biodq

\* The others stay where they are, if they are not woken
OthersStay(p) ==
    \A q \in Procs \ {p} : /\ pc'[q] = pc[q]
                           /\ call'[q] = call[q]
                           /\ wchan'[q] = wchan[q] \/ wchan'[q] = Awake

\* A process keeps what OwnInv says of it, if its buffers stay the same, or are done
LEMMA Undisturbed ==
    ASSUME TypeOK, Located, NEW q \in Procs, ProcKept(q),
           pc[q] = "getmem" => cpu' = cpu /\ \A b \in call[q].gset : ~Has(b, "BUSY")',
           pc'[q] = pc[q], call'[q] = call[q], wchan'[q] = wchan[q] \/ wchan'[q] = Awake,
           \A b \in Holds(q) : Same(b) \/ (b \in pend /\ Waited(b)' /\ wchan'[q] # b)
    PROVE  ProcKept(q)' /\ Holds(q)' = Holds(q)
<1>t. NoBuf \notin Bufs /\ Awake \notin Bufs /\ call[q] \in CallType
    BY BufsAssumption DEF TypeOK, ProcTypes
<1>1. Holds(q)' = Holds(q)
    BY DEF Holds, InBwrite
<1>2. Places(q)'
    BY DEF ProcKept, Places, InBwrite
<1>w. ASSUME NEW b \in Holds(q), Waited(b) PROVE Waited(b)'
    BY <1>w DEF Same, Waited, Has
<1>s. ASSUME NEW b \in Holds(q), b \notin pend PROVE Same(b)
    BY <1>s
<1>3. BpKept(q)'
    <2>1. CASE pc[q] = "biowait"
        <3>1. call[q].bp \in Holds(q) /\ Waited(call[q].bp)
            BY <2>1 DEF Located, Holds, ProcKept, BpKept
        <3>2. PICK b \in Holds(q) : b = call[q].bp /\ Waited(b)'
            BY <1>w, <3>1
        <3> QED
            BY <2>1, <3>2 DEF BpKept, InBwrite
    <2>2. CASE \/ pc[q] \in {"brealloc", "overlap", "allocbuf", "steal", "got", "held"}
               \/ InBwrite(q) /\ call[q].ret \in {"overlap", "steal"}
        <3>1. call[q].bp \in Holds(q) /\ Settled(call[q].bp)
            BY <2>2 DEF Located, Holds, InBwrite, ProcKept, BpKept
        <3>2. Same(call[q].bp)
            BY <1>s, <3>1 DEF Settled
        <3> QED
            BY <2>2, <3>1, <3>2 DEF BpKept, Same, Settled, InBwrite, Has
    <2> QED
        BY <2>1, <2>2 DEF BpKept, InBwrite
<1>4. EpKept(q)'
    <2>1. SUFFICES ASSUME InBwrite(q) PROVE EpKept(q)'
        BY DEF EpKept, InBwrite
    <2>2. PICK b \in Holds(q) : b = call[q].ep
        BY <2>1 DEF Located, Holds
    <2>3. CASE pc[q] = "bwritewait"
        <3>1. Waited(b)'
            BY <1>w, <2>2, <2>3 DEF ProcKept, EpKept
        <3> QED
            BY <2>2, <2>3, <3>1 DEF EpKept
    <2>4. CASE pc[q] # "bwritewait"
        <3>1. Has(b, "BUSY") /\ b \notin pend /\ (pc[q] = "getmem" => ~Has(b, "DONE"))
            BY <2>1, <2>2, <2>4 DEF ProcKept, EpKept, InBwrite
        <3>2. Same(b)
            BY <1>s, <3>1
        <3> QED
            BY <2>2, <2>4, <3>1, <3>2 DEF EpKept, Same, Has
    <2> QED
        BY <2>3, <2>4
<1>5. FirstKept(q)'
    <2>1. SUFFICES ASSUME call[q].first # NoBuf PROVE FirstKept(q)'
        BY DEF FirstKept
    <2>2. PICK b \in Holds(q) : b = call[q].first
        BY <2>1, <1>t DEF CallType, Holds
    <2>3. Waited(b)'
        BY <1>w, <2>1, <2>2 DEF ProcKept, FirstKept
    <2> QED
        BY <2>2, <2>3 DEF FirstKept
<1>6. Gathering(q)'
    BY DEF ProcKept, Gathering, Has
<1>7. Sleeping(q)'
    <2>1. SUFFICES ASSUME wchan[q] \in Bufs, wchan'[q] = wchan[q], InBiowait(q) PROVE Sleeping(q)'
        BY <1>t DEF Sleeping, InBiowait
    <2>2. wchan[q] \in Holds(q)
        BY <2>1 DEF ProcKept, Sleeping, Holds, InBiowait, InBwrite
    <2>3. wchan[q] \in pend'
        BY <2>1, <2>2 DEF ProcKept, Sleeping, Same
    <2> QED
        BY <2>1, <2>3 DEF ProcKept, Sleeping, InBiowait
<1> QED
    BY <1>1, <1>2, <1>3, <1>4, <1>5, <1>6, <1>7 DEF ProcKept

\* A step of p that changes only the buffers of X, which are its own or nobody's
LEMMA Frame ==
    ASSUME TypeOK, Located, OwnInv, NEW p \in Procs, NEW X \in SUBSET Bufs,
           cpu \in {p, NoProc}, OthersStay(p),
           \A b \in Bufs \ X : Same(b),
           \A b \in X : BufferKept(b)' /\ (b \in Holds(p) \/ ~Has(b, "BUSY") \/ OnDevice(b)),
           \A b \in X \cup Holds(p) : b \in Holds(p)' \/ ~Has(b, "BUSY")' \/ OnDevice(b)',
           Holds(p)' \subseteq X \cup Holds(p),
           ProcKept(p)'
    PROVE  OwnInv'
<1>1. ASSUME NEW q \in Procs \ {p} PROVE pc[q] # "getmem" /\ Holds(q) \cap X = {}
    <2>1. ProcKept(q) /\ Holds(p) \cap Holds(q) = {}
        BY DEF OwnInv
    <2>2. pc[q] # "getmem"
        BY <2>1, ProcsAssumption DEF ProcKept, Gathering
    <2>3. \A b \in Holds(q) : Has(b, "BUSY") /\ ~OnDevice(b)
        BY <2>1, HeldBusy
    <2> QED
        BY <2>1, <2>2, <2>3
<1>2. ASSUME NEW q \in Procs \ {p} PROVE ProcKept(q)' /\ Holds(q)' = Holds(q)
    <2>1. Holds(q) \subseteq Bufs \ X
        BY <1>1 DEF Holds
    <2>2. ProcKept(q)
        BY DEF OwnInv
    <2> QED
        BY <1>1, <2>1, <2>2, Undisturbed DEF OthersStay
<1>3. ASSUME NEW b \in Bufs PROVE BufferKept(b)'
    <2>1. CASE b \in X
        BY <2>1
    <2>2. CASE b \notin X
        BY <2>2 DEF OwnInv, BufferKept, Same, Has
    <2> QED
        BY <2>1, <2>2
<1>4. ASSUME NEW b \in Bufs PROVE Owned(b)'
    <2>1. CASE b \in X \cup Holds(p)
        BY <2>1 DEF Owned
    <2>2. CASE b \notin X \cup Holds(p)
        <3>1. Same(b) /\ Owned(b)
            BY <2>2 DEF OwnInv
        <3>2. ASSUME OnDevice(b) PROVE OnDevice(b)'
            BY <3>1, <3>2 DEF Same, OnDevice, Has
        <3>3. ASSUME NEW q \in Procs, b \in Holds(q) PROVE b \in Holds(q)'
            BY <1>2, <2>2, <3>3
        <3>4. Has(b, "BUSY")' => Has(b, "BUSY")
            BY <3>1 DEF Same
        <3> QED
            BY <3>1, <3>2, <3>3, <3>4 DEF Owned
    <2> QED
        BY <2>1, <2>2
<1>5. ASSUME NEW q \in Procs, NEW r \in Procs, q # r PROVE Holds(q)' \cap Holds(r)' = {}
    <2>2. CASE q # p /\ r # p
        BY <1>2, <1>5, <2>2 DEF OwnInv
    <2>3. CASE q = p \/ r = p
        BY <1>1, <1>2, <1>5, <2>3 DEF OwnInv
    <2> QED
        BY <2>2, <2>3
<1> QED
    BY <1>2, <1>3, <1>4, <1>5 DEF OwnInv

-----------------------------------------------------------------------------
(* The building blocks of the actions                                      *)

\* A buffer that is released is on a free list and not busy, the others stay as they are
LEMMA BrelseKept ==
    ASSUME BufTypes, NEW b \in Bufs, NEW F, NEW n, NEW H, Brelse(b, F, n, H)
    PROVE  /\ onq'[b] # "none" /\ ~Has(b, "BUSY")' /\ ~Has(b, "ASYNC")'
           /\ \A c \in Bufs \ {b} : flags'[c] = flags[c] /\ onq'[c] = onq[c]
BY DEF Brelse, Released, BufTypes, Has

\* Only asynchronous requests are left to a daemon
LEMMA StrategyKept ==
    ASSUME NEW S \in SUBSET Bufs, Strategy(S)
    PROVE  /\ pend' = pend \cup S
           /\ biodq \subseteq biodq' /\ biodq' \subseteq biodq \cup S
           /\ \A b \in biodq' \ biodq : Has(b, "ASYNC")'
BY DEF Strategy, Has

\* A wakeup leaves nobody asleep on another channel
LEMMA AwakenStays ==
    ASSUME WaitTypes, NEW C, Awaken(C), NEW q \in Procs
    PROVE  /\ wchan'[q] = wchan[q] \/ wchan'[q] = Awake
           /\ wchan[q] = Awake => wchan'[q] = Awake
BY DEF Awaken, WaitTypes

\* bwrite returns without the buffer that it has written
LEMMA AfterBwriteKept ==
    ASSUME TypeOK, Located, NEW p \in Procs, ProcKept(p), InBwrite(p), AfterBwrite(p),
           wchan'[p] = Awake, \A b \in Holds(p) \ {call[p].ep} : Same(b)
    PROVE  ProcKept(p)' /\ Holds(p)' = Holds(p) \ {call[p].ep}
<1>t. /\ pc \in [Procs -> Labels] /\ call \in [Procs -> CallType] /\ call[p].ret \in Returns
      /\ NoBuf \notin Bufs /\ Awake \notin Bufs /\ call[p] \in CallType
      /\ call[p].ep \in Bufs
    BY BufsAssumption DEF TypeOK, ProcTypes, Located, CallType
<1>1. CASE call[p].ret = "idle" /\ Return(p)
    <2>1. call'[p] = NoCall /\ pc'[p] = "idle"
        BY <1>1, <1>t DEF Return
    <2>2. call[p].bp = call[p].ep /\ call[p].first = NoBuf
        BY <1>1 DEF ProcKept, Places, InBwrite
    <2> QED
        BY <1>t, <2>1, <2>2 DEF NoCall, ProcKept, Places, BpKept, EpKept, FirstKept, Gathering,
           Sleeping, Holds, InBwrite, InBiowait
<1>2. CASE /\ call[p].ret # "idle"
           /\ Goto(p, call[p].ret)
           /\ call' = [call EXCEPT ![p] =
                  [@ EXCEPT !.ep = NoBuf, !.ret = "idle", !.gset = {},
                            !.bp = IF call[p].ret = "getblk" THEN NoBuf ELSE call[p].bp]]
    <2>1. /\ call[p].ret # "idle" /\ pc'[p] = call[p].ret
          /\ call'[p].ep = NoBuf /\ call'[p].ret = "idle" /\ call'[p].first = call[p].first
          /\ call'[p].op = call[p].op
          /\ call'[p].bp = IF call[p].ret = "getblk" THEN NoBuf ELSE call[p].bp
        BY <1>2, <1>t DEF Goto, CallType
    <2>2. ~InBwrite(p)' /\ ~InBiowait(p)' /\ pc'[p] \notin {"hit", "rahead"}
        BY <1>t, <2>1 DEF Returns, InBwrite, InBiowait
    <2>3. Holds(p)' = Holds(p) \ {call[p].ep}
        BY <1>t, <2>1, <2>2 DEF ProcKept, Places, Holds, InBwrite, Returns
    <2>4. FirstKept(p)'
        <3>1. SUFFICES ASSUME call[p].first # NoBuf PROVE FirstKept(p)'
            BY <2>1 DEF FirstKept
        <3>2. Same(call[p].first)
            BY <1>t, <3>1 DEF Holds, CallType, ProcKept, Places
        <3> QED
            BY <2>1, <3>1, <3>2 DEF FirstKept, ProcKept, Waited, Same, Has
    <2>5. Places(p)'
        BY <1>t, <2>1, <2>2 DEF Places, ProcKept, InBwrite, Returns
    <2>6. BpKept(p)'
        <3>1. SUFFICES ASSUME call[p].ret \in {"overlap", "steal"} PROVE BpKept(p)'
            BY <1>t, <2>1, <2>2 DEF BpKept, Returns, InBwrite
        <3>2. Same(call[p].bp)
            BY <1>t, <3>1 DEF Located, Holds, ProcKept, Places, InBwrite
        <3> QED
            BY <2>1, <2>2, <3>1, <3>2 DEF BpKept, ProcKept, Settled, Same, Has
    <2> QED
        BY <1>t, <2>2, <2>3, <2>4, <2>5, <2>6 DEF ProcKept, EpKept, Gathering, Sleeping, InBwrite
<1> QED
    BY <1>1, <1>2 DEF AfterBwrite

\* A step of p that changes no buffer
LEMMA Elsewhere ==
    ASSUME TypeOK, Located, OwnInv, NEW p \in Procs, cpu \in {p, NoProc}, OthersStay(p),
           \A b \in Bufs : Same(b), Holds(p)' = Holds(p), ProcKept(p)'
    PROVE  OwnInv'
<1>1. {} \in SUBSET Bufs /\ \A b \in Bufs \ {} : Same(b)
    OBVIOUS
<1>2. \A b \in {} : BufferKept(b)' /\ (b \in Holds(p) \/ ~Has(b, "BUSY") \/ OnDevice(b))
    OBVIOUS
<1>3. /\ Holds(p)' \subseteq {} \cup Holds(p)
      /\ \A b \in {} \cup Holds(p) : b \in Holds(p)' \/ ~Has(b, "BUSY")' \/ OnDevice(b)'
    OBVIOUS
<1> QED
    BY <1>1, <1>2, <1>3, Frame

\* A step of p that changes b, its own or nobody's
LEMMA OneBuffer ==
    ASSUME TypeOK, Located, OwnInv, NEW p \in Procs, cpu \in {p, NoProc}, OthersStay(p),
           NEW b \in Bufs, \A c \in Bufs \ {b} : Same(c), BufferKept(b)',
           b \in Holds(p) \/ ~Has(b, "BUSY") \/ OnDevice(b),
           b \in Holds(p)' \/ ~Has(b, "BUSY")' \/ OnDevice(b)',
           Holds(p)' \ {b} = Holds(p) \ {b}, ProcKept(p)'
    PROVE  OwnInv'
<1>1. Holds(p)' \subseteq {b} \cup Holds(p)
    OBVIOUS
<1>2. \A c \in {b} \cup Holds(p) : c \in Holds(p)' \/ ~Has(c, "BUSY")' \/ OnDevice(c)'
    OBVIOUS
<1> QED
    BY <1>1, <1>2, Frame

\* p starts to write a free buffer, which it takes, besides the one that it has
LEMMA BwriteOther ==
    ASSUME TypeOK, Located, OwnInv, NEW p \in Procs, cpu \in {p, NoProc}, OthersStay(p),
           NEW b \in Bufs, ~Has(b, "BUSY"), \A c \in Bufs \ {b} : Same(c),
           Has(b, "BUSY")', BufferKept(b)', b \notin pend, pend' = pend,
           pc[p] \in {"newbuf", "steal", "bflush", "overlap", "blkflush"}, wchan'[p] = Awake,
           pc'[p] = "bwrite", call'[p].bp = call[p].bp, call'[p].first = call[p].first,
           call'[p].op = call[p].op, call'[p].ep = b, call'[p].ret = pc[p]
    PROVE  OwnInv'
<1>t. NoBuf \notin Bufs /\ Awake \notin Bufs /\ call[p] \in CallType /\ ProcKept(p)
    BY BufsAssumption DEF TypeOK, ProcTypes, OwnInv
<1>1. b \notin Holds(p)
    BY <1>t, HeldBusy
<1>2. Holds(p)' = Holds(p) \cup {b}
    BY DEF Holds, InBwrite
<1>3. FirstKept(p)' /\ call[p].first # b
    <2>1. call[p].first # b
        BY <1>1 DEF Holds
    <2>2. SUFFICES ASSUME call[p].first # NoBuf PROVE FirstKept(p)'
        BY <2>1 DEF FirstKept
    <2>3. Same(call[p].first)
        BY <1>t, <2>1, <2>2 DEF CallType
    <2> QED
        BY <1>t, <2>2, <2>3 DEF ProcKept, FirstKept, Waited, Same, Has
<1>4. BpKept(p)' /\ call[p].bp # b
    <2>1. call[p].bp # b
        BY <1>1 DEF Holds
    <2>2. SUFFICES ASSUME pc[p] \in {"overlap", "steal"} PROVE BpKept(p)'
        BY <2>1 DEF BpKept, InBwrite
    <2>3. Same(call[p].bp)
        BY <2>1, <2>2 DEF Located
    <2> QED
        BY <1>t, <2>2, <2>3 DEF ProcKept, BpKept, Settled, Same, Has
<1>5. Places(p)'
    BY <1>t, <1>3, <1>4 DEF ProcKept, Places, InBwrite
<1>6. ProcKept(p)'
    BY <1>t, <1>3, <1>4, <1>5 DEF ProcKept, EpKept, Gathering, Sleeping
<1> QED
    BY <1>1, <1>2, <1>6, OneBuffer

\* p changes and lets go of a buffer of nobody's or of the device, and keeps its own
LEMMA FreeOther ==
    ASSUME TypeOK, Located, OwnInv, NEW p \in Procs, cpu \in {p, NoProc}, OthersStay(p),
           NEW b \in Bufs, ~Has(b, "BUSY") \/ OnDevice(b), \A c \in Bufs \ {b} : Same(c),
           ~Has(b, "BUSY")', BufferKept(b)', call' = call, wchan'[p] = Awake,
           pc[p] \in {"overlap", "steal", "binvalfree"},
           pc'[p] = IF pc[p] = "steal" THEN "allocbuf" ELSE pc[p]
    PROVE  OwnInv'
<1>t. NoBuf \notin Bufs /\ Awake \notin Bufs /\ call[p] \in CallType /\ ProcKept(p)
    BY BufsAssumption DEF TypeOK, ProcTypes, OwnInv
<1>1. b \notin Holds(p)
    BY <1>t, HeldBusy
<1>2. Holds(p)' = Holds(p)
    BY DEF Holds, InBwrite
<1>3. FirstKept(p)'
    <2>1. SUFFICES ASSUME call[p].first # NoBuf PROVE FirstKept(p)'
        BY DEF FirstKept
    <2>2. Same(call[p].first)
        BY <1>t, <1>1, <2>1 DEF CallType, Holds
    <2> QED
        BY <1>t, <2>1, <2>2 DEF ProcKept, FirstKept, Waited, Same, Has
<1>4. BpKept(p)'
    <2>1. SUFFICES ASSUME pc[p] \in {"overlap", "steal"} PROVE BpKept(p)'
        BY DEF BpKept, InBwrite
    <2>2. Same(call[p].bp)
        BY <1>1, <2>1 DEF Located, Holds
    <2> QED
        BY <1>t, <2>1, <2>2 DEF ProcKept, BpKept, Settled, Same, Has
<1>5. ProcKept(p)'
    BY <1>t, <1>3, <1>4 DEF ProcKept, Places, EpKept, Gathering, Sleeping, InBwrite
<1> QED
    BY <1>1, <1>2, <1>5, OneBuffer

\* p gives back the buffer that it has, and returns
LEMMA GiveBack ==
    ASSUME TypeOK, Located, OwnInv, NEW p \in Procs, cpu \in {p, NoProc}, OthersStay(p),
           pc[p] = "held", NEW b, b = call[p].bp, \A c \in Bufs \ {b} : Same(c),
           ~Has(b, "BUSY")', BufferKept(b)', wchan'[p] = Awake,
           pc'[p] = "idle", call'[p] = NoCall
    PROVE  OwnInv'
<1>t. /\ NoBuf \notin Bufs /\ Awake \notin Bufs /\ call[p] \in CallType /\ ProcKept(p)
      /\ b \in Bufs
    BY BufsAssumption DEF TypeOK, ProcTypes, OwnInv, Located
<1>1. Holds(p) = {b}
    BY <1>t DEF Holds, InBwrite, ProcKept, Places
<1>2. Holds(p)' = {}
    BY <1>t DEF Holds, InBwrite, NoCall
<1>3. ProcKept(p)'
    BY <1>t DEF ProcKept, Places, BpKept, EpKept, FirstKept, Gathering, Sleeping, InBwrite,
       InBiowait, NoCall
<1> QED
    BY <1>t, <1>1, <1>2, <1>3, OneBuffer

\* bwrite has given the buffer to the device: p waits for it, or goes on without it
LEMMA WrittenKept ==
    ASSUME TypeOK, Located, NEW p \in Procs, ProcKept(p), InBwrite(p), Written(p),
           wchan'[p] = Awake, NEW b, b = call[p].ep, \A c \in Holds(p) \ {b} : Same(c),
           Has(b, "BUSY")', b \in pend', Has(b, "ASYNC")' <=> Has(b, "ASYNC")
    PROVE  ProcKept(p)' /\ Holds(p)' \ {b} = Holds(p) \ {b} /\ (b \in Holds(p)' \/ OnDevice(b)')
<1>t. /\ pc \in [Procs -> Labels] /\ call \in [Procs -> CallType] /\ call[p] \in CallType
      /\ NoBuf \notin Bufs /\ Awake \notin Bufs /\ b \in Bufs
    BY BufsAssumption DEF TypeOK, ProcTypes, Located
<1>1. CASE Has(b, "ASYNC") /\ AfterBwrite(p)
    <2>1. ProcKept(p)' /\ Holds(p)' = Holds(p) \ {b}
        BY <1>1, AfterBwriteKept
    <2> QED
        BY <1>1, <2>1 DEF OnDevice
<1>2. CASE /\ ~Has(b, "ASYNC")
           /\ call' = [call EXCEPT ![p].gset = {}]
           /\ Goto(p, "bwritewait")
    <2>1. /\ pc'[p] = "bwritewait" /\ call'[p].bp = call[p].bp /\ call'[p].ep = b
          /\ call'[p].first = call[p].first /\ call'[p].op = call[p].op
          /\ call'[p].ret = call[p].ret
        BY <1>2, <1>t DEF Goto, CallType
    <2>2. Holds(p)' = Holds(p) /\ b \in Holds(p)
        BY <1>t, <2>1 DEF Holds, InBwrite
    <2>3. Places(p)'
        BY <2>1 DEF ProcKept, Places, InBwrite
    <2>4. BpKept(p)'
        <3>1. SUFFICES ASSUME call[p].ret \in {"overlap", "steal"} PROVE BpKept(p)'
            BY <2>1 DEF BpKept, InBwrite
        <3>2. Same(call[p].bp)
            BY <3>1 DEF Located, Holds, ProcKept, Places, InBwrite
        <3> QED
            BY <2>1, <3>1, <3>2 DEF ProcKept, BpKept, Settled, Same, Has, InBwrite
    <2>5. EpKept(p)'
        BY <1>2, <2>1 DEF EpKept, Waited
    <2>6. FirstKept(p)'
        <3>1. SUFFICES ASSUME call[p].first # NoBuf PROVE FirstKept(p)'
            BY <2>1 DEF FirstKept
        <3>2. Same(call[p].first)
            BY <1>t, <3>1 DEF Holds, CallType, ProcKept, Places
        <3> QED
            BY <2>1, <3>1, <3>2 DEF FirstKept, ProcKept, Waited, Same, Has
    <2> QED
        BY <1>t, <2>1, <2>2, <2>3, <2>4, <2>5, <2>6 DEF ProcKept, Gathering, Sleeping
<1> QED
    BY <1>1, <1>2 DEF Written

\* biodone of an asynchronous request: its buffer is free, the others stay as they are
LEMMA BiodoneKept ==
    ASSUME BufTypes, WaitTypes, NEW b \in Bufs, NEW n, NEW F, NEW H,
           BiodoneAsync(b, n, F, H), biodq' \subseteq biodq, b \notin biodq'
    PROVE  /\ \A c \in Bufs \ {b} : Same(c)
           /\ ~Has(b, "BUSY")' /\ BufferKept(b)'
           /\ \A q \in Procs : /\ wchan'[q] = wchan[q] \/ wchan'[q] = Awake
                               /\ wchan[q] = Awake => wchan'[q] = Awake
<1>1. pend' = pend \ {b}
    BY DEF BiodoneAsync, Finish
<1>2. Brelse(b, F, bufsize[b], H)
    BY DEF BiodoneAsync
<1>3. \A q \in Procs : /\ wchan'[q] = wchan[q] \/ wchan'[q] = Awake
                       /\ wchan[q] = Awake => wchan'[q] = Awake
    BY AwakenStays DEF BiodoneAsync
<1>4. (\A c \in Bufs \ {b} : Same(c)) /\ ~Has(b, "BUSY")' /\ BufferKept(b)'
    BY <1>1, <1>2, BrelseKept DEF Same, BufferKept, Has
<1> QED
    BY <1>3, <1>4

-----------------------------------------------------------------------------
(* The steps                                                               *)

\* A step of a process keeps the invariant
LEMMA OwnStep ==
    ASSUME TypeOK, Located, OwnInv, Vio => ~GetmemSleeps, NEW p \in Procs, Step(p) PROVE OwnInv'
<1>t. /\ BufTypes /\ WaitTypes /\ pc \in [Procs -> Labels] /\ call \in [Procs -> CallType]
      /\ NoBuf \notin Bufs /\ Awake \notin Bufs /\ NoProc \notin Procs
      /\ call[p] \in CallType /\ ProcKept(p) /\ \A b \in Bufs : BufferKept(b)
    BY BufsAssumption, ProcsAssumption DEF TypeOK, ProcTypes, OwnInv
<1> USE <1>t
<1>GetblkFind. CASE GetblkFind(p)
    <2> USE <1>GetblkFind DEF GetblkFind, At, Goto, SetBp, bufVars,
               memVars, ioVars
    <2>1. OthersStay(p) /\ cpu \in {p, NoProc}
        BY DEF OthersStay
    <2>2. \A b \in Bufs : Same(b)
        BY DEF Same, Has
    <2>3. Holds(p)' = Holds(p)
        BY DEF Holds, InBwrite, ProcKept, Places, CallType
    <2>4. ProcKept(p)'
        BY DEF ProcKept, Places, BpKept, EpKept, FirstKept, Gathering,
           Sleeping, Settled, Waited, InBwrite, InBiowait, Has, CallType
    <2> QED
        BY <2>1, <2>2, <2>3, <2>4, Elsewhere
<1>GetblkMiss. CASE GetblkMiss(p)
    <2> USE <1>GetblkMiss DEF GetblkMiss, At, Goto, bufVars,
               memVars, ioVars
    <2>1. OthersStay(p) /\ cpu \in {p, NoProc}
        BY DEF OthersStay
    <2>2. \A b \in Bufs : Same(b)
        BY DEF Same, Has
    <2>3. Holds(p)' = Holds(p)
        BY DEF Holds, InBwrite, ProcKept, Places
    <2>4. ProcKept(p)'
        BY DEF ProcKept, Places, BpKept, EpKept, FirstKept, Gathering,
           Sleeping, Settled, Waited, InBwrite, InBiowait, Has
    <2> QED
        BY <2>1, <2>2, <2>3, <2>4, Elsewhere
<1>GetblkBusy. CASE GetblkBusy(p)
    <2> USE <1>GetblkBusy DEF GetblkBusy, At, Want, Sleep, SetBp, bufVars,
               memVars, ioVars
    <2>1. OthersStay(p) /\ cpu \in {p, NoProc}
        BY DEF OthersStay
    <2>2. \A b \in Bufs : Same(b)
        BY DEF Same, Has, BufTypes, Located
    <2>3. Holds(p)' = Holds(p)
        BY DEF Holds, InBwrite, ProcKept, Places, CallType
    <2>4. ProcKept(p)'
        BY DEF ProcKept, Places, BpKept, EpKept, FirstKept, Gathering,
           Sleeping, Settled, Waited, InBwrite, InBiowait, Has, CallType
    <2> QED
        BY <2>1, <2>2, <2>3, <2>4, Elsewhere
<1>GetblkHit. CASE GetblkHit(p)
    <2> USE <1>GetblkHit DEF GetblkHit, Notavail, At, Goto, memVars, ioVars
    <2>b. call[p].bp \in Bufs /\ BufferKept(call[p].bp)
        BY DEF Located
    <2>1. OthersStay(p) /\ cpu \in {p, NoProc}
        BY DEF OthersStay
    <2>2. /\ \A b \in Bufs \ {call[p].bp} : Same(b)
          /\ Settled(call[p].bp)' /\ BufferKept(call[p].bp)'
        BY <2>b DEF Same, Has, BufTypes, Settled, BufferKept
    <2>3. call[p].first # call[p].bp
        BY <2>b DEF ProcKept, FirstKept, Waited
    <2>4. Holds(p)' \ {call[p].bp} = Holds(p) \ {call[p].bp} /\ call[p].bp \in Holds(p)'
        BY <2>b DEF Holds, InBwrite
    <2>5. FirstKept(p)'
        <3>1. SUFFICES ASSUME call[p].first # NoBuf PROVE FirstKept(p)'
            BY DEF FirstKept
        <3>2. Same(call[p].first)
            BY <2>2, <2>3, <3>1 DEF CallType
        <3> QED
            BY <3>1, <3>2 DEF ProcKept, FirstKept, Waited, Same, Has
    <2>6. ProcKept(p)'
        BY <2>2, <2>3, <2>5 DEF ProcKept, Places, BpKept, EpKept, Gathering, Sleeping, InBwrite,
           InBiowait
    <2> QED
        BY <2>b, <2>1, <2>2, <2>4, <2>6, OneBuffer
<1>NoFreeBuf. CASE NoFreeBuf(p)
    <2> USE <1>NoFreeBuf DEF NoFreeBuf, AtGetnewbuf, At, Sleep, bufVars,
               memVars, ioVars
    <2>1. OthersStay(p) /\ cpu \in {p, NoProc}
        BY DEF OthersStay
    <2>2. \A b \in Bufs : Same(b)
        BY DEF Same, Has
    <2>3. Holds(p)' = Holds(p)
        BY DEF Holds, InBwrite, ProcKept, Places, FreeList
    <2>4. ProcKept(p)'
        BY DEF ProcKept, Places, BpKept, EpKept, FirstKept, Gathering,
           Sleeping, Settled, Waited, InBwrite, InBiowait, Has, FreeList
    <2> QED
        BY <2>1, <2>2, <2>3, <2>4, Elsewhere
<1>NewBuf. CASE NewBuf(p)
    <2> USE <1>NewBuf DEF NewBuf, At, Goto, ioVars
    <2>b. PICK b \in Scan(p) :
              /\ onq' = [onq EXCEPT ![b] = "none"]
              /\ flags' = [flags EXCEPT ![b] =
                            {"BUSY"} \cup (IF call[p].op = "geteblk" THEN {"INVAL"} ELSE {})]
              /\ SetBp(p, b)
        OBVIOUS
    <2>c. b \in Bufs /\ ~Has(b, "BUSY") /\ b \notin pend /\ b \notin biodq
        BY DEF Scan, OnQueue, BufferKept
    <2>1. OthersStay(p) /\ cpu \in {p, NoProc}
        BY <2>b DEF OthersStay, SetBp
    <2>2. /\ \A c \in Bufs \ {b} : Same(c)
          /\ Settled(b)' /\ BufferKept(b)'
        BY <2>b, <2>c DEF Same, Has, BufTypes, Settled, BufferKept
    <2>3. call[p].first # b /\ call[p].bp = NoBuf
        BY <2>c DEF ProcKept, FirstKept, Waited, Places
    <2>d. /\ call'[p].bp = b /\ call'[p].first = call[p].first /\ call'[p].op = call[p].op
          /\ pc'[p] = "brealloc"
        BY <2>b DEF SetBp, CallType
    <2>4. Holds(p)' \ {b} = Holds(p) \ {b} /\ b \in Holds(p)'
        BY <2>c, <2>3, <2>d DEF Holds, InBwrite
    <2>5. FirstKept(p)'
        <3>1. SUFFICES ASSUME call[p].first # NoBuf PROVE FirstKept(p)'
            BY <2>d DEF FirstKept
        <3>2. Same(call[p].first)
            BY <2>2, <2>3, <3>1 DEF CallType
        <3> QED
            BY <3>1, <3>2, <2>d DEF ProcKept, FirstKept, Waited, Same, Has
    <2>6. ProcKept(p)'
        BY <2>2, <2>3, <2>5, <2>d DEF ProcKept, Places, BpKept, EpKept, Gathering, Sleeping,
           InBwrite, InBiowait
    <2> QED
        BY <2>c, <2>1, <2>2, <2>4, <2>6, OneBuffer
<1>WriteBehind. CASE WriteBehind(p)
    <2> USE <1>WriteBehind DEF WriteBehind, At, memVars, ioVars
    <2>b. PICK b \in Behind(p) : Notavail(b, {"ASYNC"}) /\ CallBwrite(p, b, pc[p])
        OBVIOUS
    <2>c. /\ b \in Bufs /\ ~Has(b, "BUSY") /\ b \notin pend /\ b \notin biodq
          /\ pc[p] \in {"newbuf", "steal", "bflush"} /\ cpu \in {p, NoProc} /\ wchan[p] = Awake
        BY DEF Behind, AtGetnewbuf, Scan, OnQueue, Idle, BufferKept
    <2>1. OthersStay(p)
        BY <2>b DEF OthersStay, CallBwrite, Goto
    <2>2. /\ \A c \in Bufs \ {b} : Same(c)
          /\ Has(b, "BUSY")' /\ BufferKept(b)'
        BY <2>b, <2>c DEF Notavail, Same, Has, BufTypes, BufferKept
    <2>d. /\ call'[p].bp = call[p].bp /\ call'[p].first = call[p].first /\ call'[p].op = call[p].op
          /\ call'[p].ep = b /\ call'[p].ret = pc[p] /\ pc'[p] = "bwrite"
        BY <2>b DEF CallBwrite, Goto, CallType
    <2> QED
        BY <2>b, <2>c, <2>1, <2>2, <2>d, BwriteOther
<1>BreallocSame. CASE BreallocSame(p)
    <2> USE <1>BreallocSame DEF BreallocSame, At, Goto, bufVars,
               memVars, ioVars
    <2>1. OthersStay(p) /\ cpu \in {p, NoProc}
        BY DEF OthersStay
    <2>2. \A b \in Bufs : Same(b)
        BY DEF Same, Has
    <2>3. Holds(p)' = Holds(p)
        BY DEF Holds, InBwrite, ProcKept, Places
    <2>4. ProcKept(p)'
        BY DEF ProcKept, Places, BpKept, EpKept, FirstKept, Gathering,
           Sleeping, Settled, Waited, InBwrite, InBiowait, Has
    <2> QED
        BY <2>1, <2>2, <2>3, <2>4, Elsewhere
<1>BreallocDirty. CASE BreallocDirty(p)
    <2> USE <1>BreallocDirty DEF BreallocDirty, CallBwrite, At, Goto, bufVars, memVars, ioVars
    <2>b. call[p].bp \in Bufs
        BY DEF Located
    <2>1. OthersStay(p) /\ cpu \in {p, NoProc}
        BY DEF OthersStay
    <2>2. \A b \in Bufs : Same(b)
        BY DEF Same, Has
    <2>c. /\ call'[p].bp = call[p].bp /\ call'[p].first = call[p].first /\ call'[p].op = call[p].op
          /\ call'[p].ep = call[p].bp /\ call'[p].ret = "getblk" /\ pc'[p] = "bwrite"
        BY DEF CallType
    <2>3. Holds(p)' = Holds(p)
        BY <2>c DEF Holds, InBwrite
    <2>4. ProcKept(p)'
        <3>1. FirstKept(p)' /\ Places(p)'
            BY <2>b, <2>c DEF ProcKept, Places, FirstKept, Waited, Has, InBwrite
        <3> QED
            BY <2>b, <2>c, <3>1 DEF ProcKept, BpKept, EpKept, Gathering, Sleeping, Settled,
               InBwrite, InBiowait, Has
    <2> QED
        BY <2>1, <2>2, <2>3, <2>4, Elsewhere
<1>BreallocShrink. CASE BreallocShrink(p)
    <2> USE <1>BreallocShrink DEF BreallocShrink, At, Goto, Resize, bufVars,
               memVars, ioVars
    <2>1. OthersStay(p) /\ cpu \in {p, NoProc}
        BY DEF OthersStay
    <2>2. \A b \in Bufs : Same(b)
        BY DEF Same, Has
    <2>3. Holds(p)' = Holds(p)
        BY DEF Holds, InBwrite, ProcKept, Places
    <2>4. ProcKept(p)'
        BY DEF ProcKept, Places, BpKept, EpKept, FirstKept, Gathering,
           Sleeping, Settled, Waited, InBwrite, InBiowait, Has
    <2> QED
        BY <2>1, <2>2, <2>3, <2>4, Elsewhere
<1>BreallocGrow. CASE BreallocGrow(p)
    <2> USE <1>BreallocGrow DEF BreallocGrow, At, Goto, memVars, ioVars
    <2>b. PICK b \in Bufs : b = call[p].bp
        BY DEF Located
    <2>c. BufferKept(b) /\ Settled(b) /\ b \in Holds(p) /\ b # call[p].first
        BY <2>b DEF ProcKept, BpKept, Holds, Places
    <2>1. OthersStay(p) /\ cpu \in {p, NoProc}
        BY DEF OthersStay
    <2>2. /\ \A c \in Bufs \ {b} : Same(c)
          /\ Settled(b)' /\ BufferKept(b)'
        BY <2>b, <2>c DEF Outgrown, Same, Has, BufTypes, Settled, BufferKept
    <2>3. Holds(p)' = Holds(p)
        BY DEF Holds, InBwrite
    <2>4. FirstKept(p)'
        <3>1. SUFFICES ASSUME call[p].first # NoBuf PROVE FirstKept(p)'
            BY DEF FirstKept
        <3>2. Same(call[p].first)
            BY <2>2, <2>c, <3>1 DEF CallType
        <3> QED
            BY <3>1, <3>2 DEF ProcKept, FirstKept, Waited, Same, Has
    <2>5. ProcKept(p)'
        BY <2>b, <2>2, <2>4 DEF ProcKept, Places, BpKept, EpKept, Gathering, Sleeping, InBwrite,
           InBiowait
    <2> QED
        BY <2>c, <2>1, <2>2, <2>3, <2>5, OneBuffer
<1>OverlapBusy. CASE OverlapBusy(p)
    <2> USE <1>OverlapBusy DEF OverlapBusy, At, Want, Sleep, bufVars,
               memVars, ioVars
    <2>1. OthersStay(p) /\ cpu \in {p, NoProc}
        BY DEF OthersStay
    <2>2. \A b \in Bufs : Same(b)
        BY DEF Same, Has, BufTypes, Overlapping
    <2>3. Holds(p)' = Holds(p)
        BY DEF Holds, InBwrite, ProcKept, Places
    <2>4. ProcKept(p)'
        BY DEF ProcKept, Places, BpKept, EpKept, FirstKept, Gathering,
           Sleeping, Settled, Waited, InBwrite, InBiowait, Has
    <2> QED
        BY <2>1, <2>2, <2>3, <2>4, Elsewhere
<1>OverlapDirty. CASE OverlapDirty(p)
    <2> USE <1>OverlapDirty DEF OverlapDirty, At, memVars, ioVars
    <2>b. PICK b \in Overlapping(p) :
              /\ flags[b] \cap {"BUSY", "DELWRI"} = {"DELWRI"}
              /\ Notavail(b, {})
              /\ CallBwrite(p, b, pc[p])
        OBVIOUS
    <2>c. /\ b \in Bufs /\ ~Has(b, "BUSY") /\ b \notin pend /\ b \notin biodq
          /\ pc[p] \in {"overlap", "blkflush"} /\ cpu \in {p, NoProc} /\ wchan[p] = Awake
        BY <2>b DEF Overlapping, Has, BufferKept
    <2>1. OthersStay(p)
        BY <2>b DEF OthersStay, CallBwrite, Goto
    <2>2. /\ \A c \in Bufs \ {b} : Same(c)
          /\ Has(b, "BUSY")' /\ BufferKept(b)'
        BY <2>b, <2>c DEF Notavail, Same, Has, BufTypes, BufferKept
    <2>d. /\ call'[p].bp = call[p].bp /\ call'[p].first = call[p].first /\ call'[p].op = call[p].op
          /\ call'[p].ep = b /\ call'[p].ret = pc[p] /\ pc'[p] = "bwrite"
        BY <2>b DEF CallBwrite, Goto, CallType
    <2> QED
        BY <2>b, <2>c, <2>1, <2>2, <2>d, BwriteOther
<1>OverlapClean. CASE OverlapClean(p)
    <2> USE <1>OverlapClean DEF OverlapClean, At, Goto, ioVars
    <2>b. PICK b \in Overlapping(p) :
              /\ flags[b] \cap {"BUSY", "DELWRI"} = {}
              /\ Brelse(b, flags[b] \cup {"INVAL"}, bufsize[b], fresh)
              /\ Awaken(BrelseWakes(b, flags[b]))
        OBVIOUS
    <2>c. b \in Bufs /\ ~Has(b, "BUSY") /\ b \notin pend /\ b \notin biodq
        BY <2>b DEF Overlapping, Has, BufferKept
    <2>1. OthersStay(p) /\ wchan'[p] = Awake
        BY <2>b, AwakenStays DEF OthersStay
    <2>2. /\ \A c \in Bufs \ {b} : Same(c)
          /\ ~Has(b, "BUSY")' /\ BufferKept(b)'
        BY <2>b, <2>c, BrelseKept DEF Same, Has, BufferKept
    <2> QED
        BY <2>c, <2>1, <2>2, FreeOther
<1>OverlapNone. CASE OverlapNone(p)
    <2> USE <1>OverlapNone DEF OverlapNone, At, Goto, bufVars,
               memVars, ioVars
    <2>1. OthersStay(p) /\ cpu \in {p, NoProc}
        BY DEF OthersStay
    <2>2. \A b \in Bufs : Same(b)
        BY DEF Same, Has
    <2>3. Holds(p)' = Holds(p)
        BY DEF Holds, InBwrite, ProcKept, Places
    <2>4. ProcKept(p)'
        BY DEF ProcKept, Places, BpKept, EpKept, FirstKept, Gathering,
           Sleeping, Settled, Waited, InBwrite, InBiowait, Has
    <2> QED
        BY <2>1, <2>2, <2>3, <2>4, Elsewhere
<1>Allocbuf. CASE Allocbuf(p)
    <2> USE <1>Allocbuf DEF Allocbuf, At, Goto, Resize, bufVars,
               memVars, ioVars
    <2>1. OthersStay(p) /\ cpu \in {p, NoProc}
        BY DEF OthersStay
    <2>2. \A b \in Bufs : Same(b)
        BY DEF Same, Has
    <2>3. Holds(p)' = Holds(p)
        BY DEF Holds, InBwrite, ProcKept, Places
    <2>4. ProcKept(p)'
        BY DEF ProcKept, Places, BpKept, EpKept, FirstKept, Gathering,
           Sleeping, Settled, Waited, InBwrite, InBiowait, Has
    <2> QED
        BY <2>1, <2>2, <2>3, <2>4, Elsewhere
<1>AllocbufSteal. CASE AllocbufSteal(p)
    <2> USE <1>AllocbufSteal DEF AllocbufSteal, At, Goto, bufVars,
               memVars, ioVars
    <2>1. OthersStay(p) /\ cpu \in {p, NoProc}
        BY DEF OthersStay
    <2>2. \A b \in Bufs : Same(b)
        BY DEF Same, Has
    <2>3. Holds(p)' = Holds(p)
        BY DEF Holds, InBwrite, ProcKept, Places
    <2>4. ProcKept(p)'
        BY DEF ProcKept, Places, BpKept, EpKept, FirstKept, Gathering,
           Sleeping, Settled, Waited, InBwrite, InBiowait, Has
    <2> QED
        BY <2>1, <2>2, <2>3, <2>4, Elsewhere
<1>Steal. CASE Steal(p)
    <2> USE <1>Steal DEF Steal, At, Goto, ioVars
    <2>b. PICK b \in Scan(p) : /\ flags' = [flags EXCEPT ![b] = {"INVAL"}]
                               /\ onq' = [onq EXCEPT ![b] = "EMPTY"]
        OBVIOUS
    <2>c. b \in Bufs /\ ~Has(b, "BUSY") /\ b \notin pend /\ b \notin biodq
        BY DEF Scan, OnQueue, BufferKept
    <2>1. OthersStay(p) /\ wchan'[p] = Awake
        BY AwakenStays DEF OthersStay
    <2>2. /\ \A c \in Bufs \ {b} : Same(c)
          /\ ~Has(b, "BUSY")' /\ BufferKept(b)'
        BY <2>b, <2>c DEF BufTypes, Same, Has, BufferKept
    <2> QED
        BY <2>c, <2>1, <2>2, FreeOther
<1>BwriteStart. CASE BwriteStart(p)
    <2> USE <1>BwriteStart DEF BwriteStart, At
    <2>b. PICK b \in Bufs : b = call[p].ep
        BY DEF Located, InBwrite
    <2>c. BufferKept(b) /\ Has(b, "BUSY") /\ b \notin pend /\ b \in Holds(p)
        BY <2>b DEF ProcKept, EpKept, Holds, InBwrite
    <2>1. OthersStay(p) /\ cpu \in {p, NoProc}
        BY DEF OthersStay, Written, AfterBwrite, Return, Goto
    <2>2. /\ flags' = [flags EXCEPT ![b] = Writing(flags[b])] /\ pend' = pend \cup {b}
          /\ biodq' \subseteq biodq \cup {b} /\ (b \in biodq' => Has(b, "ASYNC")')
        BY <2>b, <2>c, StrategyKept DEF BufferKept
    <2>3. /\ \A c \in Bufs \ {b} : Same(c)
          /\ Has(b, "BUSY")' /\ (Has(b, "ASYNC")' <=> Has(b, "ASYNC")) /\ BufferKept(b)'
        BY <2>c, <2>2 DEF Writing, Same, Has, BufTypes, BufferKept
    <2>4. \A c \in Holds(p) \ {b} : Same(c)
        BY <2>3 DEF Holds
    <2>5. ProcKept(p)' /\ Holds(p)' \ {b} = Holds(p) \ {b} /\ (b \in Holds(p)' \/ OnDevice(b)')
        <3>1. InBwrite(p) /\ b \in pend' /\ wchan'[p] = Awake
            BY <2>2 DEF InBwrite
        <3> QED
            BY <2>b, <2>3, <2>4, <3>1, WrittenKept
    <2> QED
        BY <2>c, <2>1, <2>3, <2>5, OneBuffer
<1>VbwriteGather. CASE VbwriteGather(p)
    <2> USE <1>VbwriteGather DEF VbwriteGather, At
    <2>b. PICK b \in Bufs : b = call[p].ep
        BY DEF Located, InBwrite
    <2>c. BufferKept(b) /\ Has(b, "BUSY") /\ b \notin pend /\ b \in Holds(p)
        BY <2>b DEF ProcKept, EpKept, Holds, InBwrite
    <2>1. OthersStay(p) /\ cpu \in {p, NoProc} /\ cpu' = p
        BY DEF OthersStay
    <2>s. PICK S \in Gatherable(b) : call' = [call EXCEPT ![p].gset = S]
        BY <2>b
    <2>d. /\ pc'[p] = "getmem" /\ call'[p].bp = call[p].bp /\ call'[p].ep = b
          /\ call'[p].first = call[p].first /\ call'[p].op = call[p].op
          /\ call'[p].ret = call[p].ret /\ call'[p].gset = S
        BY <2>b, <2>s DEF CallType
    <2>e. \A c \in S : c \in Bufs /\ ~Has(c, "BUSY")
        BY DEF Gatherable, Has
    <2>2. /\ \A c \in Bufs \ {b} : Same(c)
          /\ Has(b, "BUSY")' /\ ~Has(b, "DONE")' /\ BufferKept(b)'
        BY <2>b, <2>c DEF Writing, Same, Has, BufTypes, BufferKept
    <2>3. Holds(p)' = Holds(p)
        BY <2>b, <2>d DEF Holds, InBwrite
    <2>4. FirstKept(p)'
        <3>1. SUFFICES ASSUME call[p].first # NoBuf PROVE FirstKept(p)'
            BY <2>d DEF FirstKept
        <3>2. Same(call[p].first)
            BY <2>b, <2>2, <3>1 DEF CallType, ProcKept, Places, InBwrite
        <3> QED
            BY <2>d, <3>1, <3>2 DEF ProcKept, FirstKept, Waited, Same, Has
    <2>5. BpKept(p)'
        <3>1. SUFFICES ASSUME call[p].ret \in {"overlap", "steal"} PROVE BpKept(p)'
            BY <2>d DEF BpKept
        <3>2. Same(call[p].bp)
            BY <2>b, <2>2, <3>1 DEF Located, ProcKept, Places, InBwrite
        <3> QED
            BY <2>d, <3>1, <3>2 DEF ProcKept, BpKept, Settled, Same, Has, InBwrite
    <2>6. Places(p)'
        BY <2>b, <2>d DEF ProcKept, Places, InBwrite
    <2>7. Gathering(p)'
        <3>1. ASSUME NEW c \in S PROVE ~Has(c, "BUSY")'
            BY <2>c, <2>e, <2>2 DEF Same
        <3> QED
            BY <2>1, <2>d, <3>1 DEF Gathering, Has
    <2>8. ProcKept(p)'
        BY <2>2, <2>c, <2>d, <2>4, <2>5, <2>6, <2>7 DEF ProcKept, EpKept, Sleeping
    <2> QED
        BY <2>c, <2>1, <2>2, <2>3, <2>8, OneBuffer
<1>VbwriteStart. CASE VbwriteStart(p)
    <2> USE <1>VbwriteStart DEF VbwriteStart, At
    <2> DEFINE S == call[p].gset
    <2>b. PICK b \in Bufs : b = call[p].ep
        BY DEF Located, InBwrite
    <2>c. BufferKept(b) /\ Has(b, "BUSY") /\ ~Has(b, "DONE") /\ b \notin pend /\ b \in Holds(p)
        BY <2>b DEF ProcKept, EpKept, Holds, InBwrite
    <2>s. /\ S \in SUBSET Bufs
          /\ \A c \in S : ~Has(c, "BUSY") /\ c \notin pend /\ c # b
        BY <2>c DEF CallType, ProcKept, Gathering, BufferKept
    <2> HIDE DEF S
    <2>1. OthersStay(p) /\ cpu \in {p, NoProc}
        BY DEF OthersStay, Written, AfterBwrite, Return, Goto
    <2>2. /\ pend' = pend \cup S \cup {b} /\ biodq \subseteq biodq'
          /\ biodq' \subseteq biodq \cup S \cup {b}
          /\ \A c \in biodq' \ biodq : Has(c, "ASYNC")'
        <3>1. S \cup {b} \in SUBSET Bufs /\ Strategy(S \cup {b})
            BY <2>b, <2>s DEF S
        <3> QED
            BY <3>1, StrategyKept
    <2>3. /\ \A c \in Bufs \ S : flags'[c] = flags[c] /\ onq'[c] = onq[c]
          /\ \A c \in S : /\ Has(c, "BUSY")' /\ ~Has(c, "DONE")' /\ Has(c, "ASYNC")'
                          /\ onq'[c] = "none"
        BY <2>s DEF S, Writing, Has, BufTypes
    <2>4. /\ \A c \in Bufs \ (S \cup {b}) : Same(c)
          /\ \A c \in S : BufferKept(c)' /\ OnDevice(c)' /\ ~Has(c, "BUSY")
          /\ BufferKept(b)' /\ Has(b, "BUSY")' /\ (Has(b, "ASYNC")' <=> Has(b, "ASYNC"))
        <3>1. ASSUME NEW c \in Bufs \ (S \cup {b}) PROVE Same(c)
            BY <2>2, <2>3 DEF Same, Has
        <3>2. ASSUME NEW c \in S PROVE BufferKept(c)' /\ OnDevice(c)' /\ ~Has(c, "BUSY")
            BY <2>2, <2>3, <2>s DEF BufferKept, OnDevice
        <3>3. BufferKept(b)' /\ Has(b, "BUSY")' /\ (Has(b, "ASYNC")' <=> Has(b, "ASYNC"))
            BY <2>2, <2>3, <2>s, <2>c DEF BufferKept, Has
        <3> QED
            BY <3>1, <3>2, <3>3
    <2>5. Holds(p) \cap S = {}
        BY <2>s, HeldBusy
    <2>6. \A c \in Holds(p) \ {b} : Same(c)
        BY <2>4, <2>5 DEF Holds
    <2>7. ProcKept(p)' /\ Holds(p)' \ {b} = Holds(p) \ {b} /\ (b \in Holds(p)' \/ OnDevice(b)')
        <3>1. InBwrite(p) /\ b \in pend' /\ wchan'[p] = Awake
            BY <2>2 DEF InBwrite
        <3> QED
            BY <2>b, <2>4, <2>6, <3>1, WrittenKept
    <2> DEFINE X == S \cup {b}
    <2>8. X \in SUBSET Bufs /\ \A c \in Bufs \ X : Same(c)
        BY <2>b, <2>s, <2>4
    <2>9. \A c \in X : BufferKept(c)' /\ (c \in Holds(p) \/ ~Has(c, "BUSY") \/ OnDevice(c))
        BY <2>4, <2>c
    <2>10. /\ \A c \in X \cup Holds(p) : c \in Holds(p)' \/ ~Has(c, "BUSY")' \/ OnDevice(c)'
           /\ Holds(p)' \subseteq X \cup Holds(p)
        BY <2>4, <2>7, <2>c
    <2> HIDE DEF X
    <2> QED
        BY <2>1, <2>7, <2>8, <2>9, <2>10, Frame
<1>BwriteDone. CASE BwriteDone(p)
    <2> USE <1>BwriteDone DEF BwriteDone, At, ioVars
    <2>b. PICK b \in Bufs : b = call[p].ep
        BY DEF Located, InBwrite
    <2>c. BufferKept(b) /\ b \notin pend /\ b \in Holds(p)
        BY <2>b DEF BufferKept, Holds, InBwrite
    <2>1. OthersStay(p) /\ cpu \in {p, NoProc} /\ wchan'[p] = Awake
        BY AwakenStays DEF OthersStay, AfterBwrite, Return, Goto
    <2>2. /\ \A c \in Bufs \ {b} : Same(c)
          /\ ~Has(b, "BUSY")' /\ BufferKept(b)'
        BY <2>b, <2>c, BrelseKept DEF Same, Has, BufferKept
    <2>3. ProcKept(p)' /\ Holds(p)' = Holds(p) \ {b}
        <3>1. InBwrite(p) /\ \A c \in Holds(p) \ {call[p].ep} : Same(c)
            BY <2>b, <2>2 DEF InBwrite, Holds
        <3> QED
            BY <2>b, <2>1, <3>1, AfterBwriteKept
    <2> QED
        BY <2>c, <2>1, <2>2, <2>3, OneBuffer
<1>BiowaitSleep. CASE BiowaitSleep(p)
    <2> USE <1>BiowaitSleep DEF BiowaitSleep, At, Sleep, bufVars,
               memVars, ioVars
    <2>1. OthersStay(p) /\ cpu \in {p, NoProc}
        BY DEF OthersStay
    <2>2. \A b \in Bufs : Same(b)
        BY DEF Same, Has
    <2>3. Holds(p)' = Holds(p)
        BY DEF Holds, InBwrite, ProcKept, Places, Located
    <2>4. ProcKept(p)'
        BY DEF ProcKept, Places, BpKept, EpKept, FirstKept, Gathering,
           Sleeping, Settled, Waited, InBwrite, InBiowait, Has, Located
    <2> QED
        BY <2>1, <2>2, <2>3, <2>4, Elsewhere
<1>BiowaitDone. CASE BiowaitDone(p)
    <2> USE <1>BiowaitDone DEF BiowaitDone, At, Hold, bufVars,
               memVars, ioVars
    <2>1. OthersStay(p) /\ cpu \in {p, NoProc}
        BY DEF OthersStay
    <2>2. \A b \in Bufs : Same(b)
        BY DEF Same, Has
    <2>3. Holds(p)' = Holds(p)
        BY DEF Holds, InBwrite, ProcKept, Places
    <2>4. ProcKept(p)'
        <3>1. BufferKept(call[p].bp)
            BY DEF Located
        <3> QED
            BY <3>1 DEF BufferKept, ProcKept, Places, BpKept, EpKept, FirstKept, Gathering,
           Sleeping, Settled, Waited, InBwrite, InBiowait, Has
    <2> QED
        BY <2>1, <2>2, <2>3, <2>4, Elsewhere
<1>GotBlk. CASE GotBlk(p)
    <2> USE <1>GotBlk DEF GotBlk, At, Hold, bufVars,
               memVars, ioVars
    <2>1. OthersStay(p) /\ cpu \in {p, NoProc}
        BY DEF OthersStay
    <2>2. \A b \in Bufs : Same(b)
        BY DEF Same, Has
    <2>3. Holds(p)' = Holds(p)
        BY DEF Holds, InBwrite, ProcKept, Places
    <2>4. ProcKept(p)'
        BY DEF ProcKept, Places, BpKept, EpKept, FirstKept, Gathering,
           Sleeping, Settled, Waited, InBwrite, InBiowait, Has
    <2> QED
        BY <2>1, <2>2, <2>3, <2>4, Elsewhere
<1>BreadStart. CASE BreadStart(p)
    <2> USE <1>BreadStart DEF BreadStart, At, Goto
    <2>b. PICK b \in Bufs : b = call[p].bp
        BY DEF Located
    <2>c. BufferKept(b) /\ Settled(b) /\ b \in Holds(p) /\ call[p].first = NoBuf
        BY <2>b DEF ProcKept, BpKept, Holds, Places
    <2>1. OthersStay(p) /\ cpu \in {p, NoProc}
        BY DEF OthersStay
    <2>2. /\ flags' = [flags EXCEPT ![b] = flags[b] \cup {"READ"}] /\ pend' = pend \cup {b}
          /\ biodq' \subseteq biodq \cup {b} /\ (b \in biodq' => Has(b, "ASYNC")')
        BY <2>b, <2>c, StrategyKept DEF StartRead, BufferKept, Settled
    <2>3. /\ \A c \in Bufs \ {b} : Same(c)
          /\ Waited(b)' /\ BufferKept(b)'
        BY <2>b, <2>c, <2>2 DEF Same, Has, BufTypes, BufferKept, Settled, Waited
    <2>4. Holds(p)' = Holds(p)
        BY DEF Holds, InBwrite
    <2>5. ProcKept(p)'
        BY <2>b, <2>c, <2>3 DEF ProcKept, Places, BpKept, EpKept, FirstKept, Gathering, Sleeping,
           InBwrite
    <2> QED
        BY <2>c, <2>1, <2>3, <2>4, <2>5, OneBuffer
<1>BreadaStart. CASE BreadaStart(p)
    <2> USE <1>BreadaStart DEF BreadaStart, At
    <2>b. PICK b \in Bufs : b = call[p].bp
        BY DEF Located
    <2>c. BufferKept(b) /\ Settled(b) /\ b \in Holds(p) /\ call[p].first = NoBuf
        BY <2>b DEF ProcKept, BpKept, Holds, Places
    <2>1. OthersStay(p) /\ cpu \in {p, NoProc}
        BY DEF OthersStay
    <2>2. /\ \A c \in Bufs \ {b} : Same(c)
          /\ Waited(b)' /\ BufferKept(b)'
        <3>1. CASE Has(b, "DONE") /\ UNCHANGED <<flags, pend, ahead, biodq>>
            BY <3>1, <2>c DEF Same, Has, BufferKept, Settled, Waited
        <3>2. CASE ~Has(b, "DONE") /\ StartRead(b, {})
            <4>1. /\ flags' = [flags EXCEPT ![b] = flags[b] \cup {"READ"}]
                  /\ pend' = pend \cup {b} /\ biodq' \subseteq biodq \cup {b}
                  /\ (b \in biodq' => Has(b, "ASYNC")')
                BY <2>c, <3>2, StrategyKept DEF StartRead, BufferKept, Settled
            <4> QED
                BY <2>c, <3>2, <4>1 DEF Same, Has, BufTypes, BufferKept, Settled, Waited
        <3> QED
            BY <2>b, <3>1, <3>2
    <2>d. /\ call'[p].bp = NoBuf /\ call'[p].first = b /\ call'[p].op = call[p].op
          /\ call'[p].ep = call[p].ep /\ pc'[p] = "rahead"
        BY <2>b DEF CallType
    <2>3. Holds(p)' \ {b} = Holds(p) \ {b} /\ b \in Holds(p)'
        BY <2>b, <2>c, <2>d DEF Holds, InBwrite
    <2>4. ProcKept(p)'
        BY <2>2, <2>d DEF ProcKept, Places, BpKept, EpKept, FirstKept, Gathering, Sleeping,
           InBwrite, InBiowait
    <2> QED
        BY <2>c, <2>1, <2>2, <2>3, <2>4, OneBuffer
<1>BreadaIncore. CASE BreadaIncore(p)
    <2> USE <1>BreadaIncore DEF BreadaIncore, AtRahead, At, Goto, FinishBreada, bufVars,
               memVars, ioVars
    <2>1. OthersStay(p) /\ cpu \in {p, NoProc}
        BY DEF OthersStay
    <2>2. \A b \in Bufs : Same(b)
        BY DEF Same, Has
    <2>3. Holds(p)' = Holds(p)
        BY DEF Holds, InBwrite, ProcKept, Places, CallType, NoCall
    <2>4. ProcKept(p)'
        BY DEF ProcKept, Places, BpKept, EpKept, FirstKept, Gathering,
           Sleeping, Settled, Waited, InBwrite, InBiowait, Has, CallType, NoCall
    <2> QED
        BY <2>1, <2>2, <2>3, <2>4, Elsewhere
<1>BreadaGetblk. CASE BreadaGetblk(p)
    <2> USE <1>BreadaGetblk DEF BreadaGetblk, AtRahead, At, Goto, bufVars,
               memVars, ioVars
    <2>1. OthersStay(p) /\ cpu \in {p, NoProc}
        BY DEF OthersStay
    <2>2. \A b \in Bufs : Same(b)
        BY DEF Same, Has
    <2>3. Holds(p)' = Holds(p)
        BY DEF Holds, InBwrite, ProcKept, Places, CallType
    <2>4. ProcKept(p)'
        BY DEF ProcKept, Places, BpKept, EpKept, FirstKept, Gathering,
           Sleeping, Settled, Waited, InBwrite, InBiowait, Has, CallType
    <2> QED
        BY <2>1, <2>2, <2>3, <2>4, Elsewhere
<1>BreadaAhead. CASE BreadaAhead(p)
    <2> USE <1>BreadaAhead DEF BreadaAhead, At
    <2>b. PICK b \in Bufs : b = call[p].bp
        BY DEF Located
    <2>c. BufferKept(b) /\ Settled(b) /\ b \in Holds(p) /\ b # call[p].first
        BY <2>b DEF ProcKept, BpKept, Holds, Places
    <2>1. OthersStay(p) /\ cpu \in {p, NoProc} /\ wchan'[p] = Awake
        BY AwakenStays DEF OthersStay, FinishBreada, Goto
    <2>2. /\ \A c \in Bufs \ {b} : Same(c)
          /\ ~Has(b, "BUSY")' \/ OnDevice(b)'
          /\ BufferKept(b)'
        <3>1. CASE /\ Brelse(b, flags[b], bufsize[b], fresh)
                   /\ UNCHANGED <<pend, ahead, biodq>>
            BY <3>1, <2>c, BrelseKept DEF Same, Has, BufferKept, Settled
        <3>2. CASE ~Has(b, "DONE") /\ StartRead(b, {"ASYNC"}) /\ onq' = onq
            <4>1. /\ flags' = [flags EXCEPT ![b] = flags[b] \cup {"READ"} \cup {"ASYNC"}]
                  /\ pend' = pend \cup {b} /\ biodq' \subseteq biodq \cup {b}
                BY <2>c, <3>2, StrategyKept DEF StartRead, BufferKept, Settled
            <4> QED
                BY <2>c, <3>2, <4>1 DEF Same, Has, BufTypes, BufferKept, Settled, OnDevice
        <3> QED
            BY <2>b, <3>1, <3>2
    <2>d. /\ call'[p].bp = call[p].first /\ call'[p].first = NoBuf /\ call'[p].op = "bread"
          /\ pc'[p] = IF call[p].first = NoBuf THEN "getblk" ELSE "biowait"
        BY DEF FinishBreada, Goto, NoCall
    <2>3. Holds(p)' = Holds(p) \ {b}
        BY <2>b, <2>c, <2>d DEF Holds, InBwrite
    <2>4. BpKept(p)'
        <3>1. SUFFICES ASSUME call[p].first # NoBuf PROVE BpKept(p)'
            BY <2>d DEF BpKept, InBwrite
        <3>2. PICK c \in Bufs \ {b} : c = call[p].first
            BY <2>c, <3>1 DEF CallType
        <3>3. Waited(c)'
            BY <2>2, <3>1, <3>2 DEF ProcKept, FirstKept, Waited, Same, Has
        <3> QED
            BY <2>d, <3>1, <3>2, <3>3 DEF BpKept, InBwrite
    <2>5. ProcKept(p)'
        BY <2>1, <2>4, <2>d DEF ProcKept, Places, EpKept, FirstKept, Gathering, Sleeping, InBwrite
    <2> QED
        BY <2>c, <2>1, <2>2, <2>3, <2>5, OneBuffer
<1>Release. CASE Release(p)
    <2> USE <1>Release DEF Release, At, ioVars
    <2>b. PICK b \in Bufs : b = call[p].bp
        BY DEF Located
    <2>c. BufferKept(b) /\ Settled(b)
        BY <2>b DEF ProcKept, BpKept
    <2>1. OthersStay(p) /\ cpu \in {p, NoProc} /\ wchan'[p] = Awake
        BY AwakenStays DEF OthersStay, Return
    <2>2. /\ \A c \in Bufs \ {b} : Same(c)
          /\ ~Has(b, "BUSY")' /\ BufferKept(b)'
        BY <2>b, <2>c, BrelseKept DEF Same, Has, BufferKept, Settled
    <2>3. pc'[p] = "idle" /\ call'[p] = NoCall
        BY DEF Return
    <2> QED
        BY <2>b, <2>1, <2>2, <2>3, GiveBack
<1>Bdwrite. CASE Bdwrite(p)
    <2> USE <1>Bdwrite DEF Bdwrite, At, ioVars, MayModify
    <2>b. PICK b \in Bufs : b = call[p].bp
        BY DEF Located
    <2>c. BufferKept(b) /\ Settled(b)
        BY <2>b DEF ProcKept, BpKept
    <2>1. OthersStay(p) /\ cpu \in {p, NoProc} /\ wchan'[p] = Awake
        BY AwakenStays DEF OthersStay, Return
    <2>2. /\ \A c \in Bufs \ {b} : Same(c)
          /\ ~Has(b, "BUSY")' /\ BufferKept(b)'
        BY <2>b, <2>c, BrelseKept DEF Same, Has, BufferKept, Settled
    <2>3. pc'[p] = "idle" /\ call'[p] = NoCall
        BY DEF Return
    <2> QED
        BY <2>b, <2>1, <2>2, <2>3, GiveBack
<1>CallWrite. CASE CallWrite(p)
    <2> USE <1>CallWrite DEF CallWrite, MayModify, CallBwrite, At, Goto, memVars, ioVars
    <2>b. call[p].bp \in Bufs /\ BufferKept(call[p].bp) /\ Settled(call[p].bp)
        BY DEF Located, ProcKept, BpKept
    <2>1. OthersStay(p) /\ cpu \in {p, NoProc}
        BY DEF OthersStay
    <2>2. /\ \A b \in Bufs \ {call[p].bp} : Same(b)
          /\ Has(call[p].bp, "BUSY")'
        BY <2>b DEF Same, Has, BufTypes, Settled
    <2>c. /\ call'[p].bp = call[p].bp /\ call'[p].first = call[p].first /\ call'[p].op = call[p].op
          /\ call'[p].ep = call[p].bp /\ call'[p].ret = "idle" /\ pc'[p] = "bwrite"
        BY DEF CallType
    <2>3. Holds(p)' = Holds(p) /\ call[p].bp \in Holds(p) /\ call[p].first = NoBuf
        BY <2>b, <2>c DEF Holds, InBwrite, ProcKept, Places
    <2>4. BufferKept(call[p].bp)'
        BY <2>b, <2>2 DEF BufferKept, Settled
    <2>5. ProcKept(p)'
        BY <2>b, <2>2, <2>3, <2>c DEF ProcKept, Places, BpKept, EpKept, FirstKept, Gathering,
           Sleeping, Settled, Waited, InBwrite, InBiowait, Has
    <2> QED
        BY <2>b, <2>1, <2>2, <2>3, <2>4, <2>5, OneBuffer
<1>BdwaitSleep. CASE BdwaitSleep(p)
    <2> USE <1>BdwaitSleep DEF BdwaitSleep, At, Sleep, bufVars,
               memVars, ioVars
    <2>1. OthersStay(p) /\ cpu \in {p, NoProc}
        BY DEF OthersStay
    <2>2. \A b \in Bufs : Same(b)
        BY DEF Same, Has
    <2>3. Holds(p)' = Holds(p)
        BY DEF Holds, InBwrite, ProcKept, Places, AsyncDone
    <2>4. ProcKept(p)'
        BY DEF ProcKept, Places, BpKept, EpKept, FirstKept, Gathering,
           Sleeping, Settled, Waited, InBwrite, InBiowait, Has, AsyncDone
    <2> QED
        BY <2>1, <2>2, <2>3, <2>4, Elsewhere
<1>BinvalfreeWrite. CASE BinvalfreeWrite(p)
    <2> USE <1>BinvalfreeWrite DEF BinvalfreeWrite, At, Goto
    <2>b. PICK b \in Bufs :
              /\ Droppable(b)
              /\ BiodoneAsync(b, 0, Writing(flags[b] \cup {"ASYNC", "INVAL"}) \cup {"DONE"}, fresh)
        OBVIOUS
    <2>c. ~Has(b, "BUSY") /\ b \notin biodq
        BY <2>b DEF Droppable, Idle, BufferKept
    <2>1. OthersStay(p) /\ cpu \in {p, NoProc} /\ wchan'[p] = Awake
        BY <2>b, <2>c, BiodoneKept DEF OthersStay
    <2>2. /\ \A c \in Bufs \ {b} : Same(c)
          /\ ~Has(b, "BUSY")' /\ BufferKept(b)'
        BY <2>b, <2>c, BiodoneKept
    <2> QED
        BY <2>c, <2>1, <2>2, FreeOther
<1>BinvalfreeDrop. CASE BinvalfreeDrop(p)
    <2> USE <1>BinvalfreeDrop DEF BinvalfreeDrop, At, Goto, bufVars,
               memVars, ioVars
    <2>1. OthersStay(p) /\ cpu \in {p, NoProc}
        BY DEF OthersStay
    <2>2. \A b \in Bufs : Same(b)
        BY DEF Same, Has, BufTypes
    <2>3. Holds(p)' = Holds(p)
        BY DEF Holds, InBwrite, ProcKept, Places
    <2>4. ProcKept(p)'
        BY DEF ProcKept, Places, BpKept, EpKept, FirstKept, Gathering,
           Sleeping, Settled, Waited, InBwrite, InBiowait, Has
    <2> QED
        BY <2>1, <2>2, <2>3, <2>4, Elsewhere
<1>BiodDrop. CASE BiodDrop(p)
    <2> USE <1>BiodDrop DEF BiodDrop, NoneDroppable, At, Goto
    <2>b. PICK b \in biodq :
              /\ BiodoneAsync(b, 1, (flags[b] \ {"READ", "ERROR", "DELWRI"})
                                      \cup {"ASYNC", "INVAL", "DONE"}, fresh)
              /\ biodq' = biodq \ {b}
        OBVIOUS
    <2>c. b \in Bufs /\ OnDevice(b)
        BY DEF TypeOK, IOTypes, BufferKept, OnDevice
    <2>1. OthersStay(p) /\ cpu \in {p, NoProc} /\ wchan'[p] = Awake
        BY <2>b, <2>c, BiodoneKept DEF OthersStay
    <2>2. /\ \A c \in Bufs \ {b} : Same(c)
          /\ ~Has(b, "BUSY")' /\ BufferKept(b)'
        BY <2>b, <2>c, BiodoneKept
    <2> QED
        BY <2>c, <2>1, <2>2, FreeOther
<1>FlushReturn. CASE FlushReturn(p)
    <2> USE <1>FlushReturn DEF FlushReturn, At, NoneDroppable, Return, bufVars,
               memVars, ioVars
    <2>1. OthersStay(p) /\ cpu \in {p, NoProc}
        BY DEF OthersStay
    <2>2. \A b \in Bufs : Same(b)
        BY DEF Same, Has
    <2>3. Holds(p)' = Holds(p)
        BY DEF Holds, InBwrite, ProcKept, Places, CallType, NoCall
    <2>4. ProcKept(p)'
        BY DEF ProcKept, Places, BpKept, EpKept, FirstKept, Gathering,
           Sleeping, Settled, Waited, InBwrite, InBiowait, Has, CallType, NoCall
    <2> QED
        BY <2>1, <2>2, <2>3, <2>4, Elsewhere
<1> QED
    BY <1>GetblkFind, <1>GetblkMiss, <1>GetblkBusy, <1>GetblkHit, <1>NoFreeBuf, <1>NewBuf,
       <1>WriteBehind, <1>BreallocSame, <1>BreallocDirty, <1>BreallocShrink,
       <1>BreallocGrow, <1>OverlapBusy, <1>OverlapDirty, <1>OverlapClean, <1>OverlapNone,
       <1>Allocbuf, <1>AllocbufSteal, <1>Steal, <1>BwriteStart, <1>VbwriteGather,
       <1>VbwriteStart, <1>BwriteDone, <1>BiowaitSleep, <1>BiowaitDone, <1>GotBlk,
       <1>BreadStart, <1>BreadaStart, <1>BreadaIncore, <1>BreadaGetblk, <1>BreadaAhead,
       <1>Release, <1>Bdwrite, <1>CallWrite, <1>BdwaitSleep, <1>BinvalfreeWrite,
       <1>BinvalfreeDrop, <1>BiodDrop, <1>FlushReturn DEF Step

\* Nor does a call change what the others have
LEMMA OwnCall ==
    ASSUME TypeOK, Located, OwnInv, NEW p \in Procs, CallOp(p) PROVE OwnInv'
<1>t. /\ BufTypes /\ pc \in [Procs -> Labels] /\ call \in [Procs -> CallType]
      /\ NoBuf \notin Bufs /\ Awake \notin Bufs /\ call[p] \in CallType /\ ProcKept(p)
    BY BufsAssumption DEF TypeOK, ProcTypes, OwnInv
<1>1. ASSUME NEW o, NEW w, NEW n, NEW l \in {"getblk", "newbuf", "rahead", "bflush", "bdwait",
                                             "blkflush", "binvalfree"},
             Call(p, o, w, n, l)
      PROVE  OwnInv'
    <2> USE <1>t, <1>1 DEF Call, At, Goto, bufVars, ioVars
    <2>1. OthersStay(p) /\ cpu \in {p, NoProc} /\ pc[p] = "idle" /\ wchan'[p] = Awake
        BY DEF OthersStay
    <2>2. \A b \in Bufs : Same(b)
        BY DEF Same, Has
    <2>3. /\ call'[p].bp = NoBuf /\ call'[p].first = NoBuf /\ pc'[p] = l
          /\ call[p].bp = NoBuf /\ call[p].first = NoBuf
        BY DEF CallType, ProcKept, Places, InBwrite
    <2>4. Holds(p)' = Holds(p)
        BY <2>3 DEF Holds, InBwrite
    <2>5. ProcKept(p)'
        BY <2>1, <2>3 DEF ProcKept, Places, BpKept, EpKept, FirstKept, Gathering, Sleeping,
           InBwrite
    <2> QED
        BY <2>1, <2>2, <2>4, <2>5, Elsewhere
<1>2. CASE CallRead(p) \/ CallBreada(p) \/ CallFlush(p)
    <2>1. CASE CallBreada(p)
        BY <1>1, <2>1 DEF CallBreada
    <2>2. CASE CallRead(p) \/ CallFlush(p)
        BY <1>1, <2>2 DEF CallRead, CallFlush
    <2> QED
        BY <1>2, <2>1, <2>2
<1>3. CASE Binval(p)
    <2> USE <1>t, <1>3 DEF Binval, At, ioVars
    <2>1. OthersStay(p) /\ cpu \in {p, NoProc}
        BY DEF OthersStay
    <2>2. \A b \in Bufs : Same(b)
        BY DEF Same, Has, BufTypes
    <2>3. Holds(p)' = Holds(p)
        BY DEF Holds, InBwrite
    <2>4. ProcKept(p)'
        BY DEF ProcKept, Places, BpKept, EpKept, FirstKept, Gathering, Sleeping, InBwrite,
           InBiowait
    <2> QED
        BY <2>1, <2>2, <2>3, <2>4, Elsewhere
<1> QED
    BY <1>2, <1>3 DEF CallOp

\* At the end of its request a buffer is free, or whoever waits for it has it done
LEMMA OwnDone ==
    ASSUME TypeOK, Located, OwnInv, NEW b \in Bufs, IODone(b) PROVE OwnInv'
<1>t. /\ BufTypes /\ WaitTypes /\ call \in [Procs -> CallType]
      /\ NoBuf \notin Bufs /\ Awake \notin Bufs
      /\ (\A p \in Procs : ProcKept(p)) /\ \A c \in Bufs : BufferKept(c) /\ Owned(c)
    BY BufsAssumption DEF TypeOK, ProcTypes, OwnInv
<1>w. \A q \in Procs : wchan'[q] = wchan[q] \/ wchan'[q] = Awake
    BY <1>t, AwakenStays DEF IODone, BiodTake, IODoneAsync, IODoneSync, BiodoneAsync
<1>p. pc' = pc /\ call' = call /\ cpu' = cpu
    BY DEF IODone, BiodTake, IODoneAsync, IODoneSync
<1>h. \A q \in Procs : Holds(q)' = Holds(q)
    BY <1>p DEF Holds, InBwrite
<1>1. CASE BiodTake(b) \/ IODoneAsync(b)
    <2>1. /\ \A c \in Bufs \ {b} : Same(c)
          /\ Same(b) \/ (OnDevice(b) /\ ~Has(b, "BUSY")')
          /\ BufferKept(b)'
        <3>1. CASE BiodTake(b)
            <4>1. flags' = flags /\ onq' = onq /\ pend' = pend /\ biodq' = biodq \ {b}
                BY <3>1 DEF BiodTake, bufVars
            <4>2. BufferKept(b)
                BY <1>t
            <4>3. \A c \in Bufs : Same(c)
                BY <4>1 DEF Same, Has
            <4>4. BufferKept(b)'
                BY <4>1, <4>2 DEF Has, BufferKept
            <4> QED
                BY <4>3, <4>4
        <3>2. CASE IODoneAsync(b)
            BY <1>t, <3>2, BiodoneKept DEF IODoneAsync, Completes, OnDevice
        <3> QED
            BY <1>1, <3>1, <3>2
    <2>2. ASSUME NEW q \in Procs, NEW c \in Holds(q) PROVE Same(c)
        BY <1>t, <2>1, <2>2, HeldBusy
    <2>3. ASSUME NEW q \in Procs PROVE ProcKept(q)'
        <3>1. ASSUME pc[q] = "getmem", NEW c \in call[q].gset PROVE ~Has(c, "BUSY")'
            <4>1. c \in Bufs /\ ~Has(c, "BUSY")
                BY <1>t, <3>1 DEF CallType, ProcKept, Gathering
            <4> QED
                BY <2>1, <4>1 DEF Same
        <3> QED
            BY <1>t, <1>w, <1>p, <2>2, <3>1, Undisturbed
    <2>4. ASSUME NEW c \in Bufs PROVE BufferKept(c)' /\ Owned(c)'
        <3>1. CASE Same(c)
            <4>1. Owned(c)'
                BY <1>t, <1>h, <3>1 DEF Owned, OnDevice, Same, Has
            <4> QED
                BY <1>t, <2>1, <3>1, <4>1 DEF BufferKept, Same, Has
        <3>2. CASE c = b /\ ~Has(b, "BUSY")' /\ BufferKept(b)'
            BY <3>2 DEF Owned
        <3> QED
            BY <2>1, <3>1, <3>2
    <2> QED
        BY <1>t, <1>h, <2>3, <2>4 DEF OwnInv
<1>2. CASE IODoneSync(b)
    <2>1. /\ \A c \in Bufs \ {b} : Same(c)
          /\ b \in pend /\ ~OnDevice(b) /\ Has(b, "BUSY")
          /\ Waited(b)' /\ Has(b, "DONE")' /\ BufferKept(b)'
        BY <1>t, <1>2 DEF IODoneSync, Completes, Finish, BufTypes, Same, Has, BufferKept, Waited,
           OnDevice
    <2>2. ASSUME NEW q \in Procs PROVE ProcKept(q)'
        <3>1. ASSUME pc[q] = "getmem", NEW c \in call[q].gset PROVE ~Has(c, "BUSY")'
            <4>1. c \in Bufs /\ ~Has(c, "BUSY")
                BY <1>t, <3>1 DEF CallType, ProcKept, Gathering
            <4> QED
                BY <2>1, <4>1 DEF Same
        <3>2. wchan'[q] # b
            BY <1>t, <1>2 DEF IODoneSync, Awaken
        <3>3. \A c \in Holds(q) : Same(c) \/ (c \in pend /\ Waited(c)' /\ wchan'[q] # c)
            BY <2>1, <3>2 DEF Holds
        <3> QED
            BY <1>t, <1>w, <1>p, <3>1, <3>3, Undisturbed
    <2>3. ASSUME NEW c \in Bufs PROVE BufferKept(c)' /\ Owned(c)'
        <3>1. CASE c # b
            <4>1. Owned(c)'
                BY <1>t, <1>h, <2>1, <3>1 DEF Owned, OnDevice, Same, Has
            <4> QED
                BY <1>t, <2>1, <3>1, <4>1 DEF BufferKept, Same, Has
        <3>2. CASE c = b
            BY <1>t, <1>h, <2>1, <3>2 DEF Owned
        <3> QED
            BY <3>1, <3>2
    <2> QED
        BY <1>t, <1>h, <2>2, <2>3 DEF OwnInv
<1> QED
    BY <1>1, <1>2 DEF IODone

\* A step of the system keeps the invariant
LEMMA OwnNext ==
    TypeOK /\ Located /\ OwnInv /\ (Vio => ~GetmemSleeps) /\ [Next]_vars => OwnInv'
<1> SUFFICES ASSUME TypeOK, Located, OwnInv, Vio => ~GetmemSleeps, [Next]_vars PROVE OwnInv'
    OBVIOUS
<1>1. CASE UNCHANGED vars
    <2> USE <1>1 DEF vars, bufVars, ioVars
    <2>1. ASSUME NEW b \in Bufs PROVE BufferKept(b)' /\ Owned(b)'
        BY DEF OwnInv, BufferKept, Owned, OnDevice, Holds, InBwrite, Has
    <2>2. ASSUME NEW p \in Procs PROVE ProcKept(p)' /\ Holds(p)' = Holds(p)
        BY DEF OwnInv, ProcKept, Places, BpKept, EpKept, FirstKept, Gathering, Sleeping, Settled,
           Waited, Holds, InBwrite, InBiowait, Has
    <2> QED
        BY <2>1, <2>2 DEF OwnInv
<1>2. CASE \E p \in Procs : CallOp(p) \/ Step(p)
    BY <1>2, OwnCall, OwnStep
<1>3. CASE \E b \in Bufs : IODone(b)
    BY <1>3, OwnDone
<1> QED
    BY <1>1, <1>2, <1>3 DEF Next

\* At the start all buffers are free
LEMMA OwnInit == Init => OwnInv
<1> SUFFICES ASSUME Init PROVE OwnInv
    OBVIOUS
<1>t. NoBuf \notin Bufs /\ Awake \notin Bufs
    BY BufsAssumption
<1>1. ASSUME NEW b \in Bufs PROVE BufferKept(b) /\ Owned(b)
    BY DEF Init, BufferKept, Owned, Has
<1>2. ASSUME NEW p \in Procs PROVE ProcKept(p) /\ Holds(p) = {}
    BY <1>t DEF Init, NoCall, ProcKept, Places, BpKept, EpKept, FirstKept, Gathering, Sleeping,
       Holds, InBwrite, InBiowait
<1> QED
    BY <1>1, <1>2 DEF OwnInv

-----------------------------------------------------------------------------
(* The theorems                                                            *)

\* Each place of the code knows what it has and in which state, whatever the others do
THEOREM OwnersKept == ASSUME Vio => ~GetmemSleeps PROVE Spec => []OwnInv
<1>1. TypeOK /\ Located /\ OwnInv /\ [Next]_vars => OwnInv'
    BY OwnNext
<1> QED
    BY <1>1, OwnInit, TypeCorrect, PTL DEF Spec

\* A busy buffer is off the free lists, and it is one process's or the device's: no two
\* processes get the same buffer from getblk, getnewbuf, brealloc or the flushes, and none
\* that is busy is left without an owner who will release it
THEOREM ExclusiveHolds == ASSUME Vio => ~GetmemSleeps PROVE Spec => []Exclusive
<1>1. TypeOK /\ Located /\ OwnInv => Exclusive
    <2> SUFFICES ASSUME TypeOK, Located, OwnInv PROVE Exclusive
        OBVIOUS
    <2>1. \A p \in Procs : \A b \in Holds(p) : Has(b, "BUSY")
        BY HeldBusy DEF OwnInv
    <2>2. \A b \in Bufs : Has(b, "BUSY") => b \in pend \/ \E p \in Procs : b \in Holds(p)
        BY DEF OwnInv, Owned, OnDevice
    <2> QED
        BY <2>1, <2>2 DEF Exclusive, OwnInv, BufferKept
<1> QED
    BY <1>1, OwnersKept, TypeCorrect, PTL

\* biodone does not panic with "dup biodone": a buffer that is done is not given to the device
\* again before B_DONE is reset
THEOREM NoDupBiodoneHolds == ASSUME Vio => ~GetmemSleeps PROVE Spec => []NoDupBiodone
<1>1. TypeOK /\ OwnInv => NoDupBiodone
    BY DEF TypeOK, IOTypes, OwnInv, BufferKept, NoDupBiodone
<1> QED
    BY <1>1, OwnersKept, TypeCorrect, PTL

\* Nobody sleeps in biowait for a transfer that is over, or whose end wakes nobody
THEOREM BiowaitPendingHolds == ASSUME Vio => ~GetmemSleeps PROVE Spec => []BiowaitPending
<1>1. TypeOK /\ Located /\ OwnInv => BiowaitPending
    <2> SUFFICES ASSUME OwnInv, NEW p \in Procs, wchan[p] \in Bufs, InBiowait(p)
                 PROVE  wchan[p] \in pend /\ flags[wchan[p]] \cap {"DONE", "ASYNC"} = {}
        BY DEF BiowaitPending
    <2>1. ProcKept(p) /\ BufferKept(wchan[p])
        BY DEF OwnInv
    <2>2. Waited(wchan[p]) /\ wchan[p] \in pend
        BY <2>1 DEF ProcKept, Sleeping, BpKept, EpKept, InBiowait
    <2> QED
        BY <2>1, <2>2 DEF Waited, BufferKept, Has
<1> QED
    BY <1>1, OwnersKept, TypeCorrect, PTL

-----------------------------------------------------------------------------
(* The asynchronous writes                                                 *)

\* The asynchronous writes that the device has, and those in getmem
Writes    == {b \in pend : Has(b, "ASYNC") /\ ~Has(b, "READ")}
Gatherers == {p \in Procs : pc[p] = "getmem" /\ Has(call[p].ep, "ASYNC")}

\* basyncnt is exact, which nfs_strategy would spoil, and bdwait is woken when it gets to 0
CountInv ==
    /\ AsyncCount
    /\ biodq = {}
    /\ \A p \in Procs : pc[p] = "getmem" => ~Has(call[p].ep, "READ")
    /\ BdwaitWoken

\* While a process can run nobody else is in getmem
LEMMA Alone ==
    ASSUME OwnInv, NEW p \in Procs, cpu \in {p, NoProc}, NEW q \in Procs, q # p
    PROVE  pc[q] # "getmem"
BY ProcsAssumption DEF OwnInv, ProcKept, Gathering

\* The parts of basyncnt
LEMMA CountParts ==
    ASSUME TypeOK, CountInv
    PROVE  /\ basyncnt = Cardinality(Writes) + Cardinality(Gatherers)
           /\ IsFiniteSet(Writes) /\ Cardinality(Writes) \in Nat
<1>1. IsFiniteSet(Writes)
    BY BufsAssumption, FS_Subset DEF TypeOK, IOTypes, Writes
<1> QED
    BY <1>1, FS_CardinalityType DEF CountInv, AsyncCount, Writes, Gatherers

\* At most one process is in getmem
LEMMA GatherersNat == ASSUME TypeOK, OwnInv, CountInv PROVE Cardinality(Gatherers) \in Nat
<1>1. CASE Gatherers = {}
    BY <1>1, FS_EmptySet
<1>2. ASSUME NEW p \in Gatherers PROVE Cardinality(Gatherers) \in Nat
    <2>1. p \in Procs /\ cpu = p
        BY DEF Gatherers, OwnInv, ProcKept, Gathering
    <2>2. Gatherers = {p}
        BY <2>1, Alone DEF Gatherers
    <2> QED
        BY <2>2, FS_Singleton
<1> QED
    BY <1>1, <1>2

\* basyncnt does not get negative
LEMMA CountNat == ASSUME TypeOK, OwnInv, CountInv PROVE basyncnt \in Nat
BY CountParts, GatherersNat

\* A step that starts and ends no asynchronous write
LEMMA CountQuiet ==
    ASSUME TypeOK, OwnInv, CountInv, NEW p \in Procs, cpu \in {p, NoProc},
           pc[p] # "getmem", pc'[p] # "getmem", \A q \in Procs \ {p} : pc'[q] = pc[q],
           basyncnt' = basyncnt, basynwait' = basynwait \/ basyncnt = 0, biodq' = {},
           Writes' = Writes, \A q \in Procs : wchan'[q] = AsyncDone => wchan[q] = AsyncDone
    PROVE  CountInv'
<1>1. \A q \in Procs : pc[q] # "getmem" /\ pc'[q] # "getmem"
    BY Alone
<1>2. Gatherers = {} /\ Gatherers' = {}
    BY <1>1 DEF Gatherers
<1>3. AsyncCount'
    BY <1>2, CountParts DEF AsyncCount, Writes, Gatherers
<1>4. BdwaitWoken'
    BY DEF CountInv, BdwaitWoken, TypeOK, IOTypes
<1> QED
    BY <1>1, <1>3, <1>4 DEF CountInv

\* A read is not counted
LEMMA ReadCounted ==
    ASSUME BufTypes, CountInv, ~Nfs, NEW b \in Bufs, b \notin pend, NEW F, StartRead(b, F)
    PROVE  Writes' = Writes /\ biodq' = {}
BY DEF StartRead, Strategy, CountInv, Writes, Has, BufTypes

\* A step of a process keeps the count
LEMMA CountStep ==
    ASSUME TypeOK, Located, OwnInv, CountInv, ~Nfs, NEW p \in Procs, Step(p) PROVE CountInv'
<1>t. /\ BufTypes /\ WaitTypes /\ IOTypes /\ pend \in SUBSET Bufs
      /\ pc \in [Procs -> Labels] /\ call \in [Procs -> CallType]
      /\ call[p] \in CallType /\ call[p].ret \in Returns /\ biodq = {}
    BY DEF TypeOK, ProcTypes, IOTypes, CallType, CountInv
<1>c. /\ NoBuf \notin Bufs /\ AsyncDone \notin Bufs /\ Awake \notin Bufs
      /\ AsyncDone # Awake /\ AsyncDone # FreeList
    BY BufsAssumption DEF AsyncDone, Awake, FreeList
<1>k. /\ ProcKept(p)
      /\ \A b \in pend : "BUSY" \in flags[b] /\ "DONE" \notin flags[b] /\ onq[b] = "none"
    BY <1>t DEF OwnInv, BufferKept, Has
<1> USE <1>t, <1>c, <1>k
<1>GetblkFind. CASE GetblkFind(p)
    <2> USE <1>GetblkFind DEF GetblkFind, At, Goto
    <2>1. /\ cpu \in {p, NoProc} /\ pc[p] # "getmem" /\ pc'[p] # "getmem"
          /\ \A q \in Procs \ {p} : pc'[q] = pc[q]
          /\ basyncnt' = basyncnt /\ basynwait' = basynwait /\ biodq' = {}
        BY DEF ioVars, Labels, Returns
    <2>2. \A q \in Procs : wchan'[q] = AsyncDone => wchan[q] = AsyncDone
        BY DEF ioVars
    <2>3. Writes' = Writes
        <3>1. /\ pend' = pend
              /\ \A c \in pend : flags'[c] \cap {"ASYNC", "READ"} = flags[c] \cap {"ASYNC", "READ"}
            BY DEF ioVars, bufVars
        <3> QED
            BY <3>1 DEF Writes, Has
    <2> QED
        BY <2>1, <2>2, <2>3, CountQuiet
<1>GetblkMiss. CASE GetblkMiss(p)
    <2> USE <1>GetblkMiss DEF GetblkMiss, At, Goto
    <2>1. /\ cpu \in {p, NoProc} /\ pc[p] # "getmem" /\ pc'[p] # "getmem"
          /\ \A q \in Procs \ {p} : pc'[q] = pc[q]
          /\ basyncnt' = basyncnt /\ basynwait' = basynwait /\ biodq' = {}
        BY DEF ioVars, Labels, Returns
    <2>2. \A q \in Procs : wchan'[q] = AsyncDone => wchan[q] = AsyncDone
        BY DEF ioVars
    <2>3. Writes' = Writes
        <3>1. /\ pend' = pend
              /\ \A c \in pend : flags'[c] \cap {"ASYNC", "READ"} = flags[c] \cap {"ASYNC", "READ"}
            BY DEF ioVars, bufVars
        <3> QED
            BY <3>1 DEF Writes, Has
    <2> QED
        BY <2>1, <2>2, <2>3, CountQuiet
<1>GetblkBusy. CASE GetblkBusy(p)
    <2> USE <1>GetblkBusy DEF GetblkBusy, At, Want, Sleep
    <2>b. call[p].bp \in Bufs
        BY DEF Located
    <2>1. /\ cpu \in {p, NoProc} /\ pc[p] # "getmem" /\ pc'[p] # "getmem"
          /\ \A q \in Procs \ {p} : pc'[q] = pc[q]
          /\ basyncnt' = basyncnt /\ basynwait' = basynwait /\ biodq' = {}
        BY DEF ioVars, Labels, Returns
    <2>2. \A q \in Procs : wchan'[q] = AsyncDone => wchan[q] = AsyncDone
        BY <2>b DEF ioVars
    <2>3. Writes' = Writes
        <3>1. /\ pend' = pend
              /\ \A c \in pend : flags'[c] \cap {"ASYNC", "READ"} = flags[c] \cap {"ASYNC", "READ"}
            BY <2>b DEF ioVars, bufVars, BufTypes
        <3> QED
            BY <3>1 DEF Writes, Has
    <2> QED
        BY <2>1, <2>2, <2>3, CountQuiet
<1>GetblkHit. CASE GetblkHit(p)
    <2> USE <1>GetblkHit DEF GetblkHit, At, Goto, Notavail
    <2>1. /\ cpu \in {p, NoProc} /\ pc[p] # "getmem" /\ pc'[p] # "getmem"
          /\ \A q \in Procs \ {p} : pc'[q] = pc[q]
          /\ basyncnt' = basyncnt /\ basynwait' = basynwait /\ biodq' = {}
        BY DEF ioVars, Labels, Returns
    <2>2. \A q \in Procs : wchan'[q] = AsyncDone => wchan[q] = AsyncDone
        BY DEF ioVars
    <2>3. Writes' = Writes
        <3>1. /\ pend' = pend
              /\ \A c \in pend : flags'[c] \cap {"ASYNC", "READ"} = flags[c] \cap {"ASYNC", "READ"}
            BY DEF ioVars, bufVars, BufTypes, Has
        <3> QED
            BY <3>1 DEF Writes, Has
    <2> QED
        BY <2>1, <2>2, <2>3, CountQuiet
<1>NoFreeBuf. CASE NoFreeBuf(p)
    <2> USE <1>NoFreeBuf DEF NoFreeBuf, AtGetnewbuf, At, Sleep
    <2>1. /\ cpu \in {p, NoProc} /\ pc[p] # "getmem" /\ pc'[p] # "getmem"
          /\ \A q \in Procs \ {p} : pc'[q] = pc[q]
          /\ basyncnt' = basyncnt /\ basynwait' = basynwait /\ biodq' = {}
        BY DEF ioVars, Labels, Returns
    <2>2. \A q \in Procs : wchan'[q] = AsyncDone => wchan[q] = AsyncDone
        BY DEF ioVars
    <2>3. Writes' = Writes
        <3>1. /\ pend' = pend
              /\ \A c \in pend : flags'[c] \cap {"ASYNC", "READ"} = flags[c] \cap {"ASYNC", "READ"}
            BY DEF ioVars, bufVars
        <3> QED
            BY <3>1 DEF Writes, Has
    <2> QED
        BY <2>1, <2>2, <2>3, CountQuiet
<1>NewBuf. CASE NewBuf(p)
    <2> USE <1>NewBuf DEF NewBuf, At, Goto
    <2>1. /\ cpu \in {p, NoProc} /\ pc[p] # "getmem" /\ pc'[p] # "getmem"
          /\ \A q \in Procs \ {p} : pc'[q] = pc[q]
          /\ basyncnt' = basyncnt /\ basynwait' = basynwait /\ biodq' = {}
        BY DEF ioVars, Labels, Returns
    <2>2. \A q \in Procs : wchan'[q] = AsyncDone => wchan[q] = AsyncDone
        BY DEF ioVars
    <2>3. Writes' = Writes
        <3>1. /\ pend' = pend
              /\ \A c \in pend : flags'[c] \cap {"ASYNC", "READ"} = flags[c] \cap {"ASYNC", "READ"}
            BY DEF ioVars, bufVars, BufTypes, Scan, OnQueue
        <3> QED
            BY <3>1 DEF Writes, Has
    <2> QED
        BY <2>1, <2>2, <2>3, CountQuiet
<1>WriteBehind. CASE WriteBehind(p)
    <2> USE <1>WriteBehind DEF WriteBehind, Behind, AtGetnewbuf, At, Goto, CallBwrite, Notavail
    <2>1. /\ cpu \in {p, NoProc} /\ pc[p] # "getmem" /\ pc'[p] # "getmem"
          /\ \A q \in Procs \ {p} : pc'[q] = pc[q]
          /\ basyncnt' = basyncnt /\ basynwait' = basynwait /\ biodq' = {}
        BY DEF ioVars, Labels, Returns
    <2>2. \A q \in Procs : wchan'[q] = AsyncDone => wchan[q] = AsyncDone
        BY DEF ioVars
    <2>3. Writes' = Writes
        <3>1. /\ pend' = pend
              /\ \A c \in pend : flags'[c] \cap {"ASYNC", "READ"} = flags[c] \cap {"ASYNC", "READ"}
            BY DEF ioVars, bufVars, BufTypes, Scan, OnQueue, Idle
        <3> QED
            BY <3>1 DEF Writes, Has
    <2> QED
        BY <2>1, <2>2, <2>3, CountQuiet
<1>BreallocSame. CASE BreallocSame(p)
    <2> USE <1>BreallocSame DEF BreallocSame, At, Goto
    <2>1. /\ cpu \in {p, NoProc} /\ pc[p] # "getmem" /\ pc'[p] # "getmem"
          /\ \A q \in Procs \ {p} : pc'[q] = pc[q]
          /\ basyncnt' = basyncnt /\ basynwait' = basynwait /\ biodq' = {}
        BY DEF ioVars, Labels, Returns
    <2>2. \A q \in Procs : wchan'[q] = AsyncDone => wchan[q] = AsyncDone
        BY DEF ioVars
    <2>3. Writes' = Writes
        <3>1. /\ pend' = pend
              /\ \A c \in pend : flags'[c] \cap {"ASYNC", "READ"} = flags[c] \cap {"ASYNC", "READ"}
            BY DEF ioVars, bufVars
        <3> QED
            BY <3>1 DEF Writes, Has
    <2> QED
        BY <2>1, <2>2, <2>3, CountQuiet
<1>BreallocDirty. CASE BreallocDirty(p)
    <2> USE <1>BreallocDirty DEF BreallocDirty, At, Goto, CallBwrite
    <2>1. /\ cpu \in {p, NoProc} /\ pc[p] # "getmem" /\ pc'[p] # "getmem"
          /\ \A q \in Procs \ {p} : pc'[q] = pc[q]
          /\ basyncnt' = basyncnt /\ basynwait' = basynwait /\ biodq' = {}
        BY DEF ioVars, Labels, Returns
    <2>2. \A q \in Procs : wchan'[q] = AsyncDone => wchan[q] = AsyncDone
        BY DEF ioVars
    <2>3. Writes' = Writes
        <3>1. /\ pend' = pend
              /\ \A c \in pend : flags'[c] \cap {"ASYNC", "READ"} = flags[c] \cap {"ASYNC", "READ"}
            BY DEF ioVars, bufVars
        <3> QED
            BY <3>1 DEF Writes, Has
    <2> QED
        BY <2>1, <2>2, <2>3, CountQuiet
<1>BreallocShrink. CASE BreallocShrink(p)
    <2> USE <1>BreallocShrink DEF BreallocShrink, At, Goto, Resize
    <2>1. /\ cpu \in {p, NoProc} /\ pc[p] # "getmem" /\ pc'[p] # "getmem"
          /\ \A q \in Procs \ {p} : pc'[q] = pc[q]
          /\ basyncnt' = basyncnt /\ basynwait' = basynwait /\ biodq' = {}
        BY DEF ioVars, Labels, Returns
    <2>2. \A q \in Procs : wchan'[q] = AsyncDone => wchan[q] = AsyncDone
        BY DEF ioVars
    <2>3. Writes' = Writes
        <3>1. /\ pend' = pend
              /\ \A c \in pend : flags'[c] \cap {"ASYNC", "READ"} = flags[c] \cap {"ASYNC", "READ"}
            BY DEF ioVars, bufVars
        <3> QED
            BY <3>1 DEF Writes, Has
    <2> QED
        BY <2>1, <2>2, <2>3, CountQuiet
<1>BreallocGrow. CASE BreallocGrow(p)
    <2> USE <1>BreallocGrow DEF BreallocGrow, At, Goto
    <2>b. PICK b \in Bufs : b \notin pend /\ \A c \in Bufs \ {b} : flags'[c] = flags[c]
        BY DEF ProcKept, BpKept, Settled, Located, BufTypes
    <2>1. /\ cpu \in {p, NoProc} /\ pc[p] # "getmem" /\ pc'[p] # "getmem"
          /\ \A q \in Procs \ {p} : pc'[q] = pc[q]
          /\ basyncnt' = basyncnt /\ basynwait' = basynwait /\ biodq' = {}
        BY DEF ioVars, Labels, Returns
    <2>2. \A q \in Procs : wchan'[q] = AsyncDone => wchan[q] = AsyncDone
        BY <2>b DEF ioVars
    <2>3. Writes' = Writes
        <3>1. /\ pend' = pend
              /\ \A c \in pend : flags'[c] \cap {"ASYNC", "READ"} = flags[c] \cap {"ASYNC", "READ"}
            BY <2>b DEF ioVars, bufVars
        <3> QED
            BY <3>1 DEF Writes, Has
    <2> QED
        BY <2>1, <2>2, <2>3, CountQuiet
<1>OverlapBusy. CASE OverlapBusy(p)
    <2> USE <1>OverlapBusy DEF OverlapBusy, At, Want, Sleep
    <2>1. /\ cpu \in {p, NoProc} /\ pc[p] # "getmem" /\ pc'[p] # "getmem"
          /\ \A q \in Procs \ {p} : pc'[q] = pc[q]
          /\ basyncnt' = basyncnt /\ basynwait' = basynwait /\ biodq' = {}
        BY DEF ioVars, Labels, Returns
    <2>2. \A q \in Procs : wchan'[q] = AsyncDone => wchan[q] = AsyncDone
        BY DEF ioVars, Overlapping
    <2>3. Writes' = Writes
        <3>1. /\ pend' = pend
              /\ \A c \in pend : flags'[c] \cap {"ASYNC", "READ"} = flags[c] \cap {"ASYNC", "READ"}
            BY DEF ioVars, bufVars, BufTypes, Overlapping
        <3> QED
            BY <3>1 DEF Writes, Has
    <2> QED
        BY <2>1, <2>2, <2>3, CountQuiet
<1>OverlapDirty. CASE OverlapDirty(p)
    <2> USE <1>OverlapDirty DEF OverlapDirty, At, Goto, CallBwrite, Notavail
    <2>1. /\ cpu \in {p, NoProc} /\ pc[p] # "getmem" /\ pc'[p] # "getmem"
          /\ \A q \in Procs \ {p} : pc'[q] = pc[q]
          /\ basyncnt' = basyncnt /\ basynwait' = basynwait /\ biodq' = {}
        BY DEF ioVars, Labels, Returns
    <2>2. \A q \in Procs : wchan'[q] = AsyncDone => wchan[q] = AsyncDone
        BY DEF ioVars
    <2>3. Writes' = Writes
        <3>1. /\ pend' = pend
              /\ \A c \in pend : flags'[c] \cap {"ASYNC", "READ"} = flags[c] \cap {"ASYNC", "READ"}
            BY DEF ioVars, bufVars, BufTypes, Overlapping, Has
        <3> QED
            BY <3>1 DEF Writes, Has
    <2> QED
        BY <2>1, <2>2, <2>3, CountQuiet
<1>OverlapClean. CASE OverlapClean(p)
    <2> USE <1>OverlapClean DEF OverlapClean, At, Goto
    <2>b. PICK b \in Bufs : b \notin pend /\ \A c \in Bufs \ {b} : flags'[c] = flags[c]
        BY BrelseKept DEF Overlapping, Has
    <2>1. /\ cpu \in {p, NoProc} /\ pc[p] # "getmem" /\ pc'[p] # "getmem"
          /\ \A q \in Procs \ {p} : pc'[q] = pc[q]
          /\ basyncnt' = basyncnt /\ basynwait' = basynwait /\ biodq' = {}
        BY DEF ioVars, Labels, Returns
    <2>2. \A q \in Procs : wchan'[q] = AsyncDone => wchan[q] = AsyncDone
        BY <2>b, AwakenStays DEF ioVars
    <2>3. Writes' = Writes
        <3>1. /\ pend' = pend
              /\ \A c \in pend : flags'[c] \cap {"ASYNC", "READ"} = flags[c] \cap {"ASYNC", "READ"}
            BY <2>b, AwakenStays DEF ioVars, bufVars
        <3> QED
            BY <3>1 DEF Writes, Has
    <2> QED
        BY <2>1, <2>2, <2>3, CountQuiet
<1>OverlapNone. CASE OverlapNone(p)
    <2> USE <1>OverlapNone DEF OverlapNone, At, Goto
    <2>1. /\ cpu \in {p, NoProc} /\ pc[p] # "getmem" /\ pc'[p] # "getmem"
          /\ \A q \in Procs \ {p} : pc'[q] = pc[q]
          /\ basyncnt' = basyncnt /\ basynwait' = basynwait /\ biodq' = {}
        BY DEF ioVars, Labels, Returns
    <2>2. \A q \in Procs : wchan'[q] = AsyncDone => wchan[q] = AsyncDone
        BY DEF ioVars
    <2>3. Writes' = Writes
        <3>1. /\ pend' = pend
              /\ \A c \in pend : flags'[c] \cap {"ASYNC", "READ"} = flags[c] \cap {"ASYNC", "READ"}
            BY DEF ioVars, bufVars
        <3> QED
            BY <3>1 DEF Writes, Has
    <2> QED
        BY <2>1, <2>2, <2>3, CountQuiet
<1>Allocbuf. CASE Allocbuf(p)
    <2> USE <1>Allocbuf DEF Allocbuf, At, Goto, Resize
    <2>1. /\ cpu \in {p, NoProc} /\ pc[p] # "getmem" /\ pc'[p] # "getmem"
          /\ \A q \in Procs \ {p} : pc'[q] = pc[q]
          /\ basyncnt' = basyncnt /\ basynwait' = basynwait /\ biodq' = {}
        BY DEF ioVars, Labels, Returns
    <2>2. \A q \in Procs : wchan'[q] = AsyncDone => wchan[q] = AsyncDone
        BY DEF ioVars
    <2>3. Writes' = Writes
        <3>1. /\ pend' = pend
              /\ \A c \in pend : flags'[c] \cap {"ASYNC", "READ"} = flags[c] \cap {"ASYNC", "READ"}
            BY DEF ioVars, bufVars
        <3> QED
            BY <3>1 DEF Writes, Has
    <2> QED
        BY <2>1, <2>2, <2>3, CountQuiet
<1>AllocbufSteal. CASE AllocbufSteal(p)
    <2> USE <1>AllocbufSteal DEF AllocbufSteal, At, Goto
    <2>1. /\ cpu \in {p, NoProc} /\ pc[p] # "getmem" /\ pc'[p] # "getmem"
          /\ \A q \in Procs \ {p} : pc'[q] = pc[q]
          /\ basyncnt' = basyncnt /\ basynwait' = basynwait /\ biodq' = {}
        BY DEF ioVars, Labels, Returns
    <2>2. \A q \in Procs : wchan'[q] = AsyncDone => wchan[q] = AsyncDone
        BY DEF ioVars
    <2>3. Writes' = Writes
        <3>1. /\ pend' = pend
              /\ \A c \in pend : flags'[c] \cap {"ASYNC", "READ"} = flags[c] \cap {"ASYNC", "READ"}
            BY DEF ioVars, bufVars
        <3> QED
            BY <3>1 DEF Writes, Has
    <2> QED
        BY <2>1, <2>2, <2>3, CountQuiet
<1>Steal. CASE Steal(p)
    <2> USE <1>Steal DEF Steal, At, Goto
    <2>1. /\ cpu \in {p, NoProc} /\ pc[p] # "getmem" /\ pc'[p] # "getmem"
          /\ \A q \in Procs \ {p} : pc'[q] = pc[q]
          /\ basyncnt' = basyncnt /\ basynwait' = basynwait /\ biodq' = {}
        BY DEF ioVars, Labels, Returns
    <2>2. \A q \in Procs : wchan'[q] = AsyncDone => wchan[q] = AsyncDone
        BY AwakenStays DEF ioVars
    <2>3. Writes' = Writes
        <3>1. /\ pend' = pend
              /\ \A c \in pend : flags'[c] \cap {"ASYNC", "READ"} = flags[c] \cap {"ASYNC", "READ"}
            BY AwakenStays DEF ioVars, bufVars, BufTypes, Scan, OnQueue
        <3> QED
            BY <3>1 DEF Writes, Has
    <2> QED
        BY <2>1, <2>2, <2>3, CountQuiet
<1>BwriteStart. CASE BwriteStart(p)
    <2> USE <1>BwriteStart DEF BwriteStart, At
    <2>b. PICK b \in Bufs : b = call[p].ep /\ b \notin pend
        BY DEF Located, InBwrite, ProcKept, EpKept
    <2>1. /\ cpu \in {p, NoProc} /\ pc[p] # "getmem" /\ pc'[p] # "getmem"
          /\ \A q \in Procs \ {p} : pc'[q] = pc[q]
        BY DEF Written, AfterBwrite, Return, Goto, Returns
    <2>2. Gatherers = {} /\ Gatherers' = {}
        BY <2>1, Alone DEF Gatherers
    <2>3. /\ flags' = [flags EXCEPT ![b] = Writing(flags[b])]
          /\ pend' = pend \cup {b} /\ biodq' = {}
        BY <2>b DEF Strategy, CountInv
    <2>4. Writes' = IF Has(b, "ASYNC") THEN Writes \cup {b} ELSE Writes
        BY <2>b, <2>3 DEF Writes, Writing, Has, BufTypes
    <2>5. basyncnt' = Cardinality(Writes') + Cardinality(Gatherers')
        <3>1. b \notin Writes
            BY <2>b DEF Writes
        <3>2. basyncnt' = basyncnt + Async(b)
            BY <2>b
        <3> QED
            BY <2>2, <2>4, <3>1, <3>2, CountParts, FS_AddElement, FS_EmptySet DEF Async
    <2>6. basyncnt' >= basyncnt
        BY <2>b, CountNat DEF Async
    <2>7. BdwaitWoken'
        BY <2>6, CountNat DEF CountInv, BdwaitWoken, IOTypes
    <2>8. \A q \in Procs : pc'[q] # "getmem"
        BY <2>1, Alone
    <2> QED
        BY <2>3, <2>5, <2>7, <2>8 DEF CountInv, AsyncCount, Writes, Gatherers
<1>VbwriteGather. CASE VbwriteGather(p)
    <2> USE <1>VbwriteGather DEF VbwriteGather, At
    <2>b. PICK b \in Bufs : b = call[p].ep /\ b \notin pend
        BY DEF Located, InBwrite, ProcKept, EpKept
    <2>1. /\ cpu \in {p, NoProc} /\ pc[p] # "getmem" /\ pc'[p] = "getmem" /\ call'[p].ep = b
          /\ \A q \in Procs \ {p} : pc'[q] = pc[q]
        BY <2>b DEF CallType
    <2>2. Gatherers = {} /\ Gatherers' = IF Has(b, "ASYNC") THEN {p} ELSE {}
        <3>1. \A q \in Procs : pc[q] # "getmem"
            BY <2>1, Alone
        <3>2. Has(b, "ASYNC")' <=> Has(b, "ASYNC")
            BY <2>b DEF Writing, Has, BufTypes
        <3>3. Gatherers' = {q \in {p} : Has(b, "ASYNC")}
            BY <2>1, <3>1, <3>2 DEF Gatherers, Has
        <3> QED
            BY <3>1, <3>3 DEF Gatherers
    <2>3. Writes' = Writes /\ ~Has(b, "READ")' /\ biodq' = {}
        BY <2>b DEF Writes, Writing, Has, BufTypes, CountInv
    <2>4. basyncnt' = Cardinality(Writes') + Cardinality(Gatherers')
        <3>1. basyncnt' = basyncnt + (IF Has(b, "ASYNC") THEN 1 ELSE 0)
            BY <2>b DEF Async
        <3>2. Cardinality({}) = 0 /\ Cardinality({p}) = 1
            BY FS_Singleton, FS_EmptySet
        <3>3. basyncnt = Cardinality(Writes) /\ Cardinality(Writes) \in Nat
            BY <2>2, <3>2, CountParts
        <3> QED
            BY <2>2, <2>3, <3>1, <3>2, <3>3
    <2>5. basyncnt' \in Nat /\ basyncnt' >= basyncnt
        BY <2>b, CountNat DEF Async
    <2>6. BdwaitWoken'
        BY <2>5, CountNat DEF CountInv, BdwaitWoken, IOTypes
    <2>7. \A q \in Procs : pc'[q] = "getmem" => ~Has(call[q].ep, "READ")'
        BY <2>1, <2>3, Alone DEF Has
    <2> QED
        BY <2>3, <2>4, <2>6, <2>7 DEF CountInv, AsyncCount, Writes, Gatherers
<1>VbwriteStart. CASE VbwriteStart(p)
    <2> USE <1>VbwriteStart DEF VbwriteStart, At
    <2> DEFINE S == call[p].gset
    <2>b. PICK b \in Bufs : b = call[p].ep /\ b \notin pend /\ Has(b, "BUSY") /\ ~Has(b, "READ")
        BY DEF Located, InBwrite, ProcKept, EpKept, CountInv
    <2>1. /\ pc'[p] # "getmem"
          /\ \A q \in Procs \ {p} : pc[q] # "getmem" /\ pc'[q] = pc[q]
        BY Alone DEF Written, AfterBwrite, Return, Goto, Returns, ProcKept, Gathering, OwnInv
    <2>2. Gatherers' = {} /\ Gatherers = IF Has(b, "ASYNC") THEN {p} ELSE {}
        <3>1. Gatherers = {q \in {p} : Has(b, "ASYNC")}
            BY <2>1, <2>b DEF Gatherers
        <3> QED
            BY <2>1, <3>1 DEF Gatherers
    <2>s. S \in SUBSET Bufs /\ b \notin S /\ S \cap pend = {}
        BY <2>b DEF CallType, ProcKept, Gathering, Has
    <2>3. pend' = pend \cup S \cup {b} /\ biodq' = {}
        BY <2>b DEF Strategy, CountInv
    <2>4. basyncnt' = basyncnt + Cardinality(S)
        OBVIOUS
    <2>5. /\ \A c \in Bufs \ S : flags'[c] = flags[c]
          /\ \A c \in S : Has(c, "ASYNC")' /\ ~Has(c, "READ")'
        BY <2>s DEF Writing, Has
    <2> HIDE DEF S
    <2>6. Writes' = (Writes \cup S) \cup (IF Has(b, "ASYNC") THEN {b} ELSE {})
        <3>1. ASSUME NEW c \in Bufs
              PROVE  (c \in pend' /\ Has(c, "ASYNC")' /\ ~Has(c, "READ")') <=>
                        c \in (Writes \cup S) \cup (IF Has(b, "ASYNC") THEN {b} ELSE {})
            <4>1. CASE c \in S
                BY <2>3, <2>5, <4>1
            <4>2. CASE c \notin S
                BY <2>3, <2>5, <2>b, <4>2 DEF Writes, Has
            <4> QED
                BY <4>1, <4>2
        <3>2. pend' \subseteq Bufs /\ Writes \subseteq Bufs
            BY <2>3, <2>s DEF Writes
        <3>3. Writes' \subseteq Bufs
            BY <3>2 DEF Writes
        <3>4. \A c \in Bufs :
                 c \in Writes' <=> (c \in pend' /\ Has(c, "ASYNC")' /\ ~Has(c, "READ")')
            BY DEF Writes
        <3> QED
            BY <2>s, <3>1, <3>2, <3>3, <3>4
    <2>7. basyncnt' = Cardinality(Writes') + Cardinality(Gatherers')
        <3>1. IsFiniteSet(S) /\ Cardinality(S) \in Nat
            BY <2>s, BufsAssumption, FS_Subset, FS_CardinalityType
        <3>2. /\ IsFiniteSet(Writes \cup S)
              /\ Cardinality(Writes \cup S) = Cardinality(Writes) + Cardinality(S)
            <4>1. Writes \cap S = {}
                BY <2>s DEF Writes
            <4>2. /\ IsFiniteSet(Writes \cup S)
                  /\ Cardinality(Writes \cup S) =
                        Cardinality(Writes) + Cardinality(S) - Cardinality(Writes \cap S)
                BY <3>1, CountParts, FS_Union
            <4>3. Cardinality(Writes \cap S) = 0
                BY <4>1, FS_EmptySet
            <4>4. Cardinality(Writes) \in Nat
                BY CountParts
            <4> QED
                BY <3>1, <4>2, <4>3, <4>4
        <3>3. b \notin Writes \cup S
            BY <2>b, <2>s DEF Writes
        <3>4. Cardinality((Writes \cup S) \cup {b}) = Cardinality(Writes) + Cardinality(S) + 1
            BY <3>1, <3>2, <3>3, FS_AddElement
        <3>5. CASE Has(b, "ASYNC")
            <4>1. Cardinality({}) = 0 /\ Cardinality({p}) = 1
                BY FS_Singleton, FS_EmptySet
            <4>2. basyncnt = Cardinality(Writes) + 1 /\ Cardinality(Writes) \in Nat
                BY <2>2, <3>5, <4>1, CountParts
            <4> QED
                BY <2>2, <2>4, <2>6, <3>1, <3>4, <3>5, <4>1, <4>2
        <3>6. CASE ~Has(b, "ASYNC")
            BY <2>2, <2>4, <2>6, <3>1, <3>2, <3>6, CountParts, FS_EmptySet
        <3> QED
            BY <3>5, <3>6
    <2>8. BdwaitWoken'
        <3>1. Cardinality(S) \in Nat
            BY <2>s, BufsAssumption, FS_Subset, FS_CardinalityType
        <3> QED
            BY <2>4, <3>1, CountNat DEF CountInv, BdwaitWoken
    <2> QED
        BY <2>1, <2>3, <2>7, <2>8 DEF CountInv, AsyncCount, Writes, Gatherers
<1>BwriteDone. CASE BwriteDone(p)
    <2> USE <1>BwriteDone DEF BwriteDone, At, AfterBwrite, Return, Goto
    <2>e. call[p].ep \in Bufs /\ call[p].ep \notin pend
        BY DEF Located, InBwrite, Has
    <2>b. PICK b \in Bufs : b \notin pend /\ \A c \in Bufs \ {b} : flags'[c] = flags[c]
        BY <2>e, BrelseKept
    <2>1. /\ cpu \in {p, NoProc} /\ pc[p] # "getmem" /\ pc'[p] # "getmem"
          /\ \A q \in Procs \ {p} : pc'[q] = pc[q]
          /\ basyncnt' = basyncnt /\ basynwait' = basynwait /\ biodq' = {}
        BY DEF ioVars, Labels, Returns
    <2>2. \A q \in Procs : wchan'[q] = AsyncDone => wchan[q] = AsyncDone
        BY <2>b, AwakenStays DEF ioVars
    <2>3. Writes' = Writes
        <3>1. /\ pend' = pend
              /\ \A c \in pend : flags'[c] \cap {"ASYNC", "READ"} = flags[c] \cap {"ASYNC", "READ"}
            BY <2>b, AwakenStays DEF ioVars, bufVars
        <3> QED
            BY <3>1 DEF Writes, Has
    <2> QED
        BY <2>1, <2>2, <2>3, CountQuiet
<1>BiowaitSleep. CASE BiowaitSleep(p)
    <2> USE <1>BiowaitSleep DEF BiowaitSleep, At, Sleep
    <2>b. (IF pc[p] = "biowait" THEN call[p].bp ELSE call[p].ep) \in Bufs
        BY DEF Located, InBwrite
    <2>1. /\ cpu \in {p, NoProc} /\ pc[p] # "getmem" /\ pc'[p] # "getmem"
          /\ \A q \in Procs \ {p} : pc'[q] = pc[q]
          /\ basyncnt' = basyncnt /\ basynwait' = basynwait /\ biodq' = {}
        BY DEF ioVars, Labels, Returns
    <2>2. \A q \in Procs : wchan'[q] = AsyncDone => wchan[q] = AsyncDone
        BY <2>b DEF ioVars
    <2>3. Writes' = Writes
        <3>1. /\ pend' = pend
              /\ \A c \in pend : flags'[c] \cap {"ASYNC", "READ"} = flags[c] \cap {"ASYNC", "READ"}
            BY <2>b DEF ioVars, bufVars
        <3> QED
            BY <3>1 DEF Writes, Has
    <2> QED
        BY <2>1, <2>2, <2>3, CountQuiet
<1>BiowaitDone. CASE BiowaitDone(p)
    <2> USE <1>BiowaitDone DEF BiowaitDone, At, Hold
    <2>1. /\ cpu \in {p, NoProc} /\ pc[p] # "getmem" /\ pc'[p] # "getmem"
          /\ \A q \in Procs \ {p} : pc'[q] = pc[q]
          /\ basyncnt' = basyncnt /\ basynwait' = basynwait /\ biodq' = {}
        BY DEF ioVars, Labels, Returns
    <2>2. \A q \in Procs : wchan'[q] = AsyncDone => wchan[q] = AsyncDone
        BY DEF ioVars
    <2>3. Writes' = Writes
        <3>1. /\ pend' = pend
              /\ \A c \in pend : flags'[c] \cap {"ASYNC", "READ"} = flags[c] \cap {"ASYNC", "READ"}
            BY DEF ioVars, bufVars
        <3> QED
            BY <3>1 DEF Writes, Has
    <2> QED
        BY <2>1, <2>2, <2>3, CountQuiet
<1>GotBlk. CASE GotBlk(p)
    <2> USE <1>GotBlk DEF GotBlk, At, Hold
    <2>1. /\ cpu \in {p, NoProc} /\ pc[p] # "getmem" /\ pc'[p] # "getmem"
          /\ \A q \in Procs \ {p} : pc'[q] = pc[q]
          /\ basyncnt' = basyncnt /\ basynwait' = basynwait /\ biodq' = {}
        BY DEF ioVars, Labels, Returns
    <2>2. \A q \in Procs : wchan'[q] = AsyncDone => wchan[q] = AsyncDone
        BY DEF ioVars
    <2>3. Writes' = Writes
        <3>1. /\ pend' = pend
              /\ \A c \in pend : flags'[c] \cap {"ASYNC", "READ"} = flags[c] \cap {"ASYNC", "READ"}
            BY DEF ioVars, bufVars
        <3> QED
            BY <3>1 DEF Writes, Has
    <2> QED
        BY <2>1, <2>2, <2>3, CountQuiet
<1>BreadStart. CASE BreadStart(p)
    <2> USE <1>BreadStart DEF BreadStart, At, Goto
    <2>1. /\ cpu \in {p, NoProc} /\ pc[p] # "getmem" /\ pc'[p] # "getmem"
          /\ \A q \in Procs \ {p} : pc'[q] = pc[q]
          /\ basyncnt' = basyncnt /\ basynwait' = basynwait
        OBVIOUS
    <2>2. \A q \in Procs : wchan'[q] = AsyncDone => wchan[q] = AsyncDone
        OBVIOUS
    <2>b. PICK b \in Bufs : b = call[p].bp /\ b \notin pend
        BY DEF Located, ProcKept, BpKept, Settled
    <2>3. Writes' = Writes /\ biodq' = {}
        BY <2>b, ReadCounted
    <2> QED
        BY <2>1, <2>2, <2>3, CountQuiet
<1>BreadaStart. CASE BreadaStart(p)
    <2> USE <1>BreadaStart DEF BreadaStart, At
    <2>1. /\ cpu \in {p, NoProc} /\ pc[p] # "getmem" /\ pc'[p] # "getmem"
          /\ \A q \in Procs \ {p} : pc'[q] = pc[q]
          /\ basyncnt' = basyncnt /\ basynwait' = basynwait
        OBVIOUS
    <2>2. \A q \in Procs : wchan'[q] = AsyncDone => wchan[q] = AsyncDone
        OBVIOUS
    <2>b. PICK b \in Bufs : b = call[p].bp /\ b \notin pend
        BY DEF Located, ProcKept, BpKept, Settled
    <2>3. Writes' = Writes /\ biodq' = {}
        BY <2>b, ReadCounted DEF CountInv, Writes, Has
    <2> QED
        BY <2>1, <2>2, <2>3, CountQuiet
<1>BreadaIncore. CASE BreadaIncore(p)
    <2> USE <1>BreadaIncore DEF BreadaIncore, AtRahead, At, Goto, FinishBreada
    <2>1. /\ cpu \in {p, NoProc} /\ pc[p] # "getmem" /\ pc'[p] # "getmem"
          /\ \A q \in Procs \ {p} : pc'[q] = pc[q]
          /\ basyncnt' = basyncnt /\ basynwait' = basynwait /\ biodq' = {}
        BY DEF ioVars, Labels, Returns
    <2>2. \A q \in Procs : wchan'[q] = AsyncDone => wchan[q] = AsyncDone
        BY DEF ioVars
    <2>3. Writes' = Writes
        <3>1. /\ pend' = pend
              /\ \A c \in pend : flags'[c] \cap {"ASYNC", "READ"} = flags[c] \cap {"ASYNC", "READ"}
            BY DEF ioVars, bufVars
        <3> QED
            BY <3>1 DEF Writes, Has
    <2> QED
        BY <2>1, <2>2, <2>3, CountQuiet
<1>BreadaGetblk. CASE BreadaGetblk(p)
    <2> USE <1>BreadaGetblk DEF BreadaGetblk, AtRahead, At, Goto
    <2>1. /\ cpu \in {p, NoProc} /\ pc[p] # "getmem" /\ pc'[p] # "getmem"
          /\ \A q \in Procs \ {p} : pc'[q] = pc[q]
          /\ basyncnt' = basyncnt /\ basynwait' = basynwait /\ biodq' = {}
        BY DEF ioVars, Labels, Returns
    <2>2. \A q \in Procs : wchan'[q] = AsyncDone => wchan[q] = AsyncDone
        BY DEF ioVars
    <2>3. Writes' = Writes
        <3>1. /\ pend' = pend
              /\ \A c \in pend : flags'[c] \cap {"ASYNC", "READ"} = flags[c] \cap {"ASYNC", "READ"}
            BY DEF ioVars, bufVars
        <3> QED
            BY <3>1 DEF Writes, Has
    <2> QED
        BY <2>1, <2>2, <2>3, CountQuiet
<1>BreadaAhead. CASE BreadaAhead(p)
    <2> USE <1>BreadaAhead DEF BreadaAhead, At, Goto, FinishBreada
    <2>1. /\ cpu \in {p, NoProc} /\ pc[p] # "getmem" /\ pc'[p] # "getmem"
          /\ \A q \in Procs \ {p} : pc'[q] = pc[q]
          /\ basyncnt' = basyncnt /\ basynwait' = basynwait
        OBVIOUS
    <2>2. \A q \in Procs : wchan'[q] = AsyncDone => wchan[q] = AsyncDone
        BY AwakenStays
    <2>b. PICK b \in Bufs : b = call[p].bp /\ b \notin pend
        BY DEF Located, ProcKept, BpKept, Settled
    <2>3. Writes' = Writes /\ biodq' = {}
        <3>1. CASE Brelse(b, flags[b], bufsize[b], fresh) /\ UNCHANGED <<pend, ahead, biodq>>
            BY <2>b, <3>1, BrelseKept DEF CountInv, Writes, Has
        <3>2. CASE StartRead(b, {"ASYNC"})
            BY <2>b, <3>2, ReadCounted
        <3> QED
            BY <2>b, <3>1, <3>2
    <2> QED
        BY <2>1, <2>2, <2>3, CountQuiet
<1>Release. CASE Release(p)
    <2> USE <1>Release DEF Release, At, Return
    <2>b. PICK b \in Bufs : b \notin pend /\ \A c \in Bufs \ {b} : flags'[c] = flags[c]
        BY BrelseKept DEF ProcKept, BpKept, Settled, Located
    <2>1. /\ cpu \in {p, NoProc} /\ pc[p] # "getmem" /\ pc'[p] # "getmem"
          /\ \A q \in Procs \ {p} : pc'[q] = pc[q]
          /\ basyncnt' = basyncnt /\ basynwait' = basynwait /\ biodq' = {}
        BY DEF ioVars, Labels, Returns
    <2>2. \A q \in Procs : wchan'[q] = AsyncDone => wchan[q] = AsyncDone
        BY <2>b, AwakenStays DEF ioVars
    <2>3. Writes' = Writes
        <3>1. /\ pend' = pend
              /\ \A c \in pend : flags'[c] \cap {"ASYNC", "READ"} = flags[c] \cap {"ASYNC", "READ"}
            BY <2>b, AwakenStays DEF ioVars, bufVars
        <3> QED
            BY <3>1 DEF Writes, Has
    <2> QED
        BY <2>1, <2>2, <2>3, CountQuiet
<1>Bdwrite. CASE Bdwrite(p)
    <2> USE <1>Bdwrite DEF Bdwrite, MayModify, At, Return
    <2>b. PICK b \in Bufs : b \notin pend /\ \A c \in Bufs \ {b} : flags'[c] = flags[c]
        BY BrelseKept DEF ProcKept, BpKept, Settled, Located
    <2>1. /\ cpu \in {p, NoProc} /\ pc[p] # "getmem" /\ pc'[p] # "getmem"
          /\ \A q \in Procs \ {p} : pc'[q] = pc[q]
          /\ basyncnt' = basyncnt /\ basynwait' = basynwait /\ biodq' = {}
        BY DEF ioVars, Labels, Returns
    <2>2. \A q \in Procs : wchan'[q] = AsyncDone => wchan[q] = AsyncDone
        BY <2>b, AwakenStays DEF ioVars
    <2>3. Writes' = Writes
        <3>1. /\ pend' = pend
              /\ \A c \in pend : flags'[c] \cap {"ASYNC", "READ"} = flags[c] \cap {"ASYNC", "READ"}
            BY <2>b, AwakenStays DEF ioVars, bufVars
        <3> QED
            BY <3>1 DEF Writes, Has
    <2> QED
        BY <2>1, <2>2, <2>3, CountQuiet
<1>CallWrite. CASE CallWrite(p)
    <2> USE <1>CallWrite DEF CallWrite, MayModify, At, Goto, CallBwrite
    <2>b. PICK b \in Bufs : b \notin pend /\ \A c \in Bufs \ {b} : flags'[c] = flags[c]
        BY DEF ProcKept, BpKept, Settled, Located, BufTypes
    <2>1. /\ cpu \in {p, NoProc} /\ pc[p] # "getmem" /\ pc'[p] # "getmem"
          /\ \A q \in Procs \ {p} : pc'[q] = pc[q]
          /\ basyncnt' = basyncnt /\ basynwait' = basynwait /\ biodq' = {}
        BY DEF ioVars, Labels, Returns
    <2>2. \A q \in Procs : wchan'[q] = AsyncDone => wchan[q] = AsyncDone
        BY <2>b DEF ioVars
    <2>3. Writes' = Writes
        <3>1. /\ pend' = pend
              /\ \A c \in pend : flags'[c] \cap {"ASYNC", "READ"} = flags[c] \cap {"ASYNC", "READ"}
            BY <2>b DEF ioVars, bufVars
        <3> QED
            BY <3>1 DEF Writes, Has
    <2> QED
        BY <2>1, <2>2, <2>3, CountQuiet
<1>BdwaitSleep. CASE BdwaitSleep(p)
    <2> USE <1>BdwaitSleep DEF BdwaitSleep, At, Sleep
    <2>1. AsyncCount' /\ biodq' = {}
        BY DEF AsyncCount, bufVars, Has, CountInv
    <2>2. \A q \in Procs : pc'[q] = "getmem" => ~Has(call[q].ep, "READ")'
        BY DEF CountInv, bufVars, Has
    <2>3. basyncnt > 0
        BY CountNat
    <2>4. BdwaitWoken'
        BY <2>3 DEF CountInv, BdwaitWoken, WaitTypes
    <2> QED
        BY <2>1, <2>2, <2>4 DEF CountInv
<1>BinvalfreeWrite. CASE BinvalfreeWrite(p)
    <2> USE <1>BinvalfreeWrite DEF BinvalfreeWrite, At, Goto
    <2>b. PICK b \in Bufs :
              /\ Droppable(b)
              /\ BiodoneAsync(b, 0, Writing(flags[b] \cup {"ASYNC", "INVAL"}) \cup {"DONE"}, fresh)
        OBVIOUS
    <2>c. b \notin pend
        BY <2>b DEF Droppable, Idle
    <2>1. /\ cpu \in {p, NoProc} /\ pc[p] # "getmem" /\ pc'[p] # "getmem"
          /\ \A q \in Procs \ {p} : pc'[q] = pc[q]
          /\ basyncnt' = basyncnt /\ (basynwait' = basynwait \/ basyncnt = 0) /\ biodq' = {}
        BY <2>b, CountNat DEF BiodoneAsync, CountInv, IOTypes
    <2>2. \A q \in Procs : wchan'[q] = AsyncDone => wchan[q] = AsyncDone
        BY <2>b, AwakenStays DEF BiodoneAsync
    <2>3. Writes' = Writes
        <3>1. pend' = pend /\ \A c \in Bufs \ {b} : flags'[c] = flags[c]
            BY <2>b, <2>c, BrelseKept DEF BiodoneAsync, Finish
        <3> QED
            BY <2>c, <3>1 DEF Writes, Has
    <2> QED
        BY <2>1, <2>2, <2>3, CountQuiet
<1>BinvalfreeDrop. CASE BinvalfreeDrop(p)
    <2> USE <1>BinvalfreeDrop DEF BinvalfreeDrop, At, Goto
    <2>1. /\ cpu \in {p, NoProc} /\ pc[p] # "getmem" /\ pc'[p] # "getmem"
          /\ \A q \in Procs \ {p} : pc'[q] = pc[q]
          /\ basyncnt' = basyncnt /\ basynwait' = basynwait /\ biodq' = {}
        BY DEF ioVars, Labels, Returns
    <2>2. \A q \in Procs : wchan'[q] = AsyncDone => wchan[q] = AsyncDone
        BY DEF ioVars
    <2>3. Writes' = Writes
        <3>1. /\ pend' = pend
              /\ \A c \in pend : flags'[c] \cap {"ASYNC", "READ"} = flags[c] \cap {"ASYNC", "READ"}
            BY DEF ioVars, bufVars, BufTypes
        <3> QED
            BY <3>1 DEF Writes, Has
    <2> QED
        BY <2>1, <2>2, <2>3, CountQuiet
<1>BiodDrop. CASE BiodDrop(p)
    BY <1>BiodDrop DEF BiodDrop, CountInv
<1>FlushReturn. CASE FlushReturn(p)
    <2> USE <1>FlushReturn DEF FlushReturn, NoneDroppable, At, Return
    <2>1. /\ cpu \in {p, NoProc} /\ pc[p] # "getmem" /\ pc'[p] # "getmem"
          /\ \A q \in Procs \ {p} : pc'[q] = pc[q]
          /\ basyncnt' = basyncnt /\ basynwait' = basynwait /\ biodq' = {}
        BY DEF ioVars, Labels, Returns
    <2>2. \A q \in Procs : wchan'[q] = AsyncDone => wchan[q] = AsyncDone
        BY DEF ioVars
    <2>3. Writes' = Writes
        <3>1. /\ pend' = pend
              /\ \A c \in pend : flags'[c] \cap {"ASYNC", "READ"} = flags[c] \cap {"ASYNC", "READ"}
            BY DEF ioVars, bufVars
        <3> QED
            BY <3>1 DEF Writes, Has
    <2> QED
        BY <2>1, <2>2, <2>3, CountQuiet
<1> QED
    BY <1>GetblkFind, <1>GetblkMiss, <1>GetblkBusy, <1>GetblkHit, <1>NoFreeBuf, <1>NewBuf,
       <1>WriteBehind, <1>BreallocSame, <1>BreallocDirty, <1>BreallocShrink,
       <1>BreallocGrow, <1>OverlapBusy, <1>OverlapDirty, <1>OverlapClean, <1>OverlapNone,
       <1>Allocbuf, <1>AllocbufSteal, <1>Steal, <1>BwriteStart, <1>VbwriteGather,
       <1>VbwriteStart, <1>BwriteDone, <1>BiowaitSleep, <1>BiowaitDone, <1>GotBlk,
       <1>BreadStart, <1>BreadaStart, <1>BreadaIncore, <1>BreadaGetblk, <1>BreadaAhead,
       <1>Release, <1>Bdwrite, <1>CallWrite, <1>BdwaitSleep, <1>BinvalfreeWrite,
       <1>BinvalfreeDrop, <1>BiodDrop, <1>FlushReturn DEF Step

\* A call starts no write
LEMMA CountCall ==
    ASSUME TypeOK, OwnInv, CountInv, NEW p \in Procs, CallOp(p) PROVE CountInv'
<1>t. BufTypes /\ pend \in SUBSET Bufs /\ pc \in [Procs -> Labels]
    BY DEF TypeOK, IOTypes, ProcTypes
<1>1. ASSUME NEW o, NEW w, NEW n, NEW l, l # "getmem", Call(p, o, w, n, l) PROVE CountInv'
    <2> USE <1>t, <1>1 DEF Call, At, Goto, bufVars, ioVars
    <2>1. Writes' = Writes /\ biodq' = {}
        BY DEF Writes, Has, CountInv
    <2> QED
        BY <2>1, CountQuiet
<1>2. CASE CallBreada(p)
    BY <1>1, <1>2 DEF CallBreada
<1>3. CASE CallRead(p) \/ CallFlush(p)
    BY <1>1, <1>3 DEF CallRead, CallFlush
<1>4. CASE Binval(p)
    <2> USE <1>t, <1>4 DEF Binval, At, ioVars
    <2>1. Writes' = Writes /\ biodq' = {}
        BY DEF Writes, Has, CountInv, BufTypes
    <2>2. pc[p] # "getmem" /\ pc'[p] # "getmem" /\ cpu \in {p, NoProc}
        OBVIOUS
    <2> QED
        BY <2>1, <2>2, CountQuiet
<1> QED
    BY <1>2, <1>3, <1>4 DEF CallOp

\* The end of an asynchronous write takes one from the count, and wakes bdwait with the last
LEMMA CountDone ==
    ASSUME TypeOK, Located, OwnInv, CountInv, NEW b \in Bufs, IODone(b) PROVE CountInv'
<1>t. /\ BufTypes /\ WaitTypes /\ pend \in SUBSET Bufs /\ basyncnt \in Nat
      /\ AsyncDone \notin Bufs /\ AsyncDone # Awake /\ AsyncDone # FreeList /\ biodq = {}
    BY CountNat, BufsAssumption DEF TypeOK, IOTypes, AsyncDone, Awake, FreeList, CountInv
<1>p. pc' = pc /\ call' = call
    BY DEF IODone, BiodTake, IODoneAsync, IODoneSync
<1>b. biodq' = {}
    BY <1>t DEF IODone, BiodTake, IODoneAsync, IODoneSync
<1>1. \A c \in Bufs \ {b} : flags'[c] = flags[c]
    <2>1. CASE IODoneAsync(b)
        BY <1>t, <2>1, BrelseKept DEF IODoneAsync, BiodoneAsync
    <2>2. CASE IODoneSync(b)
        BY <1>t, <2>2 DEF IODoneSync, BufTypes
    <2>3. CASE BiodTake(b)
        BY <1>t, <2>3 DEF BiodTake
    <2> QED
        BY <2>1, <2>2, <2>3 DEF IODone
<1>2. ASSUME NEW q \in Procs, pc[q] = "getmem"
      PROVE  call[q].ep \in Bufs \ {b}
    <2>1. call[q].ep \in Bufs /\ call[q].ep \notin pend
        BY <1>2 DEF Located, InBwrite, OwnInv, ProcKept, EpKept
    <2>2. b \in pend
        BY <1>t DEF IODone, BiodTake, IODoneAsync, IODoneSync, Completes
    <2> QED
        BY <2>1, <2>2
<1>3. Gatherers' = Gatherers
    BY <1>p, <1>1, <1>2 DEF Gatherers, Has
<1>4. \A q \in Procs : pc'[q] = "getmem" => ~Has(call[q].ep, "READ")'
    BY <1>p, <1>1, <1>2 DEF CountInv, Has
<1>5. CASE IODoneAsync(b)
    <2> DEFINE n == Counted(b)
    <2>1. b \in pend /\ Has(b, "ASYNC") /\ pend' = pend \ {b}
        BY <1>5 DEF IODoneAsync, Completes, BiodoneAsync, Finish
    <2>2. Writes' = Writes \ {b} /\ (b \in Writes <=> n = 1) /\ n \in {0, 1}
        <3>1. n \in {0, 1} /\ (b \in Writes <=> n = 1)
            BY <2>1 DEF Counted, Writes
        <3>2. Writes' = Writes \ {b}
            BY <1>t, <1>1, <2>1 DEF Writes, Has
        <3> QED
            BY <3>1, <3>2
    <2>3. /\ basyncnt' = basyncnt - n
          /\ basynwait' = (basynwait /\ ~(basynwait /\ basyncnt = n))
        BY <1>5 DEF IODoneAsync, BiodoneAsync
    <2> HIDE DEF n
    <2>4. basyncnt' = Cardinality(Writes') + Cardinality(Gatherers')
        <3>1. CASE b \in Writes
            <4>1. Cardinality(Writes \ {b}) = Cardinality(Writes) - 1
                BY <3>1, CountParts, FS_RemoveElement
            <4> QED
                BY <1>3, <1>t, <2>2, <2>3, <3>1, <4>1, CountParts, GatherersNat
        <3>2. CASE b \notin Writes
            <4>1. Writes' = Writes /\ n = 0
                BY <2>2, <3>2
            <4> QED
                BY <1>3, <1>t, <2>3, <4>1, CountParts
        <3> QED
            BY <3>1, <3>2
    <2>5. BdwaitWoken'
        <3>1. SUFFICES ASSUME NEW q \in Procs, wchan'[q] = AsyncDone
                       PROVE  basynwait' /\ basyncnt' > 0
            BY DEF BdwaitWoken
        <3>2. wchan[q] = AsyncDone /\ ~(basynwait /\ basyncnt = n)
            BY <1>t, <1>5, <3>1 DEF IODoneAsync, BiodoneAsync, Awaken, WaitTypes, n
        <3>3. basynwait /\ basyncnt > 0
            BY <3>2 DEF CountInv, BdwaitWoken
        <3>4. basynwait'
            BY <2>3, <3>2, <3>3
        <3>5. basyncnt # n
            BY <3>2, <3>3
        <3>6. basyncnt' > 0
            BY <1>t, <2>2, <2>3, <3>3, <3>5
        <3> QED
            BY <3>4, <3>6
    <2> QED
        BY <1>b, <1>4, <2>4, <2>5 DEF CountInv, AsyncCount, Writes, Gatherers
<1>6. CASE IODoneSync(b) \/ BiodTake(b)
    <2>1. Writes' = Writes
        <3>1. CASE IODoneSync(b)
            BY <1>t, <1>1, <3>1 DEF IODoneSync, Finish, Writes, Has
        <3>2. CASE BiodTake(b)
            BY <1>t, <3>2 DEF BiodTake
        <3> QED
            BY <1>6, <3>1, <3>2
    <2>2. basyncnt' = basyncnt /\ basynwait' = basynwait
        BY <1>6 DEF IODoneSync, BiodTake
    <2>3. \A q \in Procs : wchan'[q] = AsyncDone => wchan[q] = AsyncDone
        BY <1>6, <1>t, AwakenStays DEF IODoneSync, BiodTake
    <2>4. AsyncCount' /\ BdwaitWoken'
        BY <1>3, <2>1, <2>2, <2>3, CountParts DEF CountInv, AsyncCount, BdwaitWoken, Writes,
           Gatherers
    <2> QED
        BY <1>b, <1>4, <2>4 DEF CountInv
<1> QED
    BY <1>5, <1>6 DEF IODone

\* basyncnt is the number of asynchronous writes under way, at each moment, where the requests
\* go to a disk driver
LEMMA CountKept == ASSUME Vio => ~GetmemSleeps, ~Nfs PROVE Spec => []CountInv
<1>1. Init => CountInv
    <2> SUFFICES ASSUME Init PROVE CountInv
        OBVIOUS
    <2>1. Writes = {} /\ Gatherers = {}
        BY DEF Init, Writes, Gatherers
    <2>2. Cardinality(Writes) = 0 /\ Cardinality(Gatherers) = 0
        BY <2>1, FS_EmptySet
    <2>3. AsyncCount
        BY <2>2 DEF Init, AsyncCount, Writes, Gatherers
    <2> QED
        BY <2>3 DEF Init, CountInv, BdwaitWoken, Awake, AsyncDone
<1>2. TypeOK /\ Located /\ OwnInv /\ CountInv /\ [Next]_vars => CountInv'
    <2> SUFFICES ASSUME TypeOK, Located, OwnInv, CountInv, [Next]_vars PROVE CountInv'
        OBVIOUS
    <2>1. CASE UNCHANGED vars
        BY <2>1 DEF vars, bufVars, ioVars, CountInv, AsyncCount, BdwaitWoken, Has
    <2>2. CASE Next
        BY <2>2, CountStep, CountCall, CountDone DEF Next
    <2> QED
        BY <2>1, <2>2
<1> QED
    BY <1>1, <1>2, OwnersKept, TypeCorrect, PTL DEF Spec

\* The count that bdwait waits for is exact: no asynchronous write is counted twice or forgotten,
\* whichever way it starts (bwrite, the gather write, the flushes) and ends
THEOREM AsyncCountHolds == ASSUME Vio => ~GetmemSleeps, ~Nfs PROVE Spec => []AsyncCount
<1>1. CountInv => AsyncCount
    BY DEF CountInv
<1> QED
    BY <1>1, CountKept, PTL

\* Nobody sleeps in bdwait when no asynchronous write is under way
THEOREM BdwaitWokenHolds == ASSUME Vio => ~GetmemSleeps, ~Nfs PROVE Spec => []BdwaitWoken
<1>1. CountInv => BdwaitWoken
    BY DEF CountInv
<1> QED
    BY <1>1, CountKept, PTL

===============================================================================
