----------------------------- MODULE FlockProofs -----------------------------
(***************************************************************************)
(* For any number of processes, files, records and positions: the waits    *)
(* that sleeplcks records never form a circle, so that the walk of         *)
(* deadflck always ends; the table of files counts those who wait; every   *)
(* record of the table is in one place at most; and a process sleeps only  *)
(* on a lock that is still in its way.                                     *)
(*                                                                         *)
(* The first two need nothing of the lists: the one rests on what deadflck *)
(* found just before a process went to sleep, the other on setflck giving  *)
(* its reference back before it goes on.  The last two rest on what a turn *)
(* of flckadj's walk leaves as it is, whatever the list looks like and     *)
(* however far the walk goes: no record is lost or used twice, and a lock  *)
(* that is changed or removed is one that somebody was woken up for.       *)
(***************************************************************************)
EXTENDS Flock, FiniteSums

\* Every process has its place in sleeplcks.
Places == DOMAIN sf = Procs /\ DOMAIN blkpid = Procs

\* What makes NoWaitCycle inductive
CycleInv == Places /\ NoWaitCycle

\* A process that waits for nobody cannot close a circle, whatever it has left behind
\* in sleeplcks: this is the return from setflck.
LEMMA ReturnOpens ==
    ASSUME CycleInv, NEW p \in Procs, NEW f, NEW refs, Return(p, f, refs)
    PROVE  CycleInv'
<1> USE DEF CycleInv, Places, NoWaitCycle, Return
<1>1. Places'
  OBVIOUS
<1>2. ASSUME NEW S \in SUBSET Procs, S # {}
      PROVE  \E r \in S : sf'[r] = NoRec \/ blkpid'[r] \notin S
  <2>1. CASE p \in S
    <3>1. sf'[p] = NoRec
      OBVIOUS
    <3> QED BY <2>1, <3>1
  <2>2. CASE p \notin S
    <3>1. PICK r \in S : sf[r] = NoRec \/ blkpid[r] \notin S
      BY <1>2
    <3>2. sf'[r] = sf[r] /\ blkpid'[r] = blkpid[r]
      BY <2>2
    <3> QED BY <3>1, <3>2
  <2> QED BY <2>1, <2>2
<1> QED BY <1>1, <1>2

\* A process goes to sleep only when deadflck's walk from the owner of the lock ended
\* before it came back to the process, and then it closes no circle: the part of a
\* circle that the walk can reach would have been one before.
LEMMA BlockOpens ==
    ASSUME CycleInv, NEW p \in Procs, NEW w, NEW l, NEW refs,
           ~Deadlock(p, l.pid), Block(p, w, l, refs)
    PROVE  CycleInv'
<1> DEFINE q == l.pid
<1>1. Places'
  BY DEF CycleInv, Places, Block
<1>2. blkpid'[p] = q
  BY DEF CycleInv, Places, Block
<1>3. \A r \in Procs \ {p} : sf'[r] = sf[r] /\ blkpid'[r] = blkpid[r]
  BY DEF CycleInv, Places, Block
<1>4. PICK W \in SUBSET Procs :
        /\ q \in W
        /\ \A r \in W \ {p} : sf[r] # NoRec => blkpid[r] \in W
        /\ p \notin W
  BY DEF Deadlock
<1>5. ASSUME NEW S \in SUBSET Procs, S # {},
             \A r \in S : sf'[r] # NoRec /\ blkpid'[r] \in S
      PROVE  FALSE
  <2>1. CASE p \in S
    <3>1. q \in S \cap W
      BY <1>2, <1>4, <1>5, <2>1
    <3>2. \A r \in S \cap W : sf[r] # NoRec /\ blkpid[r] \in S \cap W
      BY <1>3, <1>4, <1>5
    <3> QED BY <3>1, <3>2 DEF CycleInv, NoWaitCycle
  <2>2. CASE p \notin S
    <3>1. \A r \in S : sf[r] # NoRec /\ blkpid[r] \in S
      BY <1>3, <1>5, <2>2
    <3> QED BY <1>5, <3>1 DEF CycleInv, NoWaitCycle
  <2> QED BY <2>1, <2>2
<1>6. NoWaitCycle'
  BY <1>5 DEF NoWaitCycle
<1> QED BY <1>1, <1>6 DEF CycleInv

\* Nor does any other end of a turn of setflck's loop.
LEMMA TurnOpens ==
    ASSUME CycleInv, NEW p \in Procs, NEW w, NEW refs, Turn(p, w, refs)
    PROVE  CycleInv'
<1>1. PICK i \in {Blocked(p, w, chain[w.file])} :
        \/ Adjusted(p, w, refs)
        \/ Refused(p, w, refs)
        \/ /\ ~Deadlock(p, chain[w.file][i].pid)
           /\ Block(p, w, chain[w.file][i], refs)
  BY DEF Turn
<1>2. CASE Adjusted(p, w, refs)
  BY <1>2, ReturnOpens DEF Adjusted
<1>3. CASE Refused(p, w, refs)
  BY <1>3, ReturnOpens DEF Refused
<1>4. CASE /\ ~Deadlock(p, chain[w.file][i].pid)
           /\ Block(p, w, chain[w.file][i], refs)
  BY <1>4, BlockOpens
<1> QED BY <1>1, <1>2, <1>3, <1>4

\* No call closes one.
LEMMA NextOpens == CycleInv /\ [Next]_vars => CycleInv'
<1> SUFFICES ASSUME CycleInv, [Next]_vars
             PROVE  CycleInv'
  OBVIOUS
<1>1. ASSUME NEW p \in Procs, NEW w \in Requests(p), SetLock(p, w)
      PROVE  CycleInv'
  BY <1>1, TurnOpens DEF SetLock
<1>2. ASSUME NEW p \in Procs, NEW w \in Unlocks, Unlock(p, w)
      PROVE  CycleInv'
  BY <1>2, ReturnOpens DEF Unlock, Adjusted
<1>3. ASSUME NEW p \in Procs, Retry(p)
      PROVE  CycleInv'
  BY <1>3, TurnOpens DEF Retry
<1>4. ASSUME NEW p \in Procs, Signal(p)
      PROVE  CycleInv'
  BY <1>4 DEF Signal, CycleInv, Places, NoWaitCycle
<1>5. ASSUME NEW p \in Procs, Interrupted(p)
      PROVE  CycleInv'
  BY <1>5, ReturnOpens DEF Interrupted, Refused
<1>6. CASE UNCHANGED vars
  BY <1>6 DEF vars, waitVars, CycleInv, Places, NoWaitCycle
<1> QED BY <1>1, <1>2, <1>3, <1>4, <1>5, <1>6 DEF Next

\* The processes that wait for record locks never wait in a circle (deadflck,
\* flock.c:652-676), for every number of processes.
THEOREM WaitsEndSomewhere == Spec => []NoWaitCycle
<1>1. Init => CycleInv
  BY DEF Init, CycleInv, Places, NoWaitCycle
<1>2. CycleInv => NoWaitCycle
  BY DEF CycleInv
<1> QED BY <1>1, <1>2, NextOpens, PTL DEF Spec


-------------------------------------------------------------------------------
(* The entries of the files                                                *)

Waiters(f) == {p \in Procs : Waits(p) /\ want[p].file = f}

\* The references of an entry are the processes that wait for a lock of the file
Counted(f) == IsFiniteSet(Waiters(f)) /\ refcnt[f] = Cardinality(Waiters(f))
EntryKept(f) == f \in fids <=> refcnt[f] > 0 \/ chain[f] # <<>>
Wants == \A p \in Procs : Waits(p) => want[p].file \in Files
FidsInv == /\ DOMAIN refcnt = Files /\ DOMAIN chain = Files /\ DOMAIN want = Procs
           /\ Wants /\ \A f \in Files : Counted(f) /\ EntryKept(f)

\* refs are the references of others when p has turned to the file of w
Others(p, w, refs) == /\ w.file \in Files /\ refs = Cardinality(Waiters(w.file) \ {p})
                      /\ Waits(p) => want[p].file = w.file

\* A process that asks has no reference yet.
LEMMA FirstTurn ==
    ASSUME FidsInv, NEW p \in Procs, ~Waits(p), NEW w, w.file \in Files
    PROVE  Others(p, w, refcnt[w.file])
<1>1. Waiters(w.file) \ {p} = Waiters(w.file)
  BY DEF Waiters
<1> QED BY <1>1 DEF FidsInv, Counted, Others

\* One that was woken up gives its own back.
LEMMA NextTurn ==
    ASSUME FidsInv, NEW p \in Procs, Waits(p)
    PROVE  Others(p, want[p], refcnt[want[p].file] - 1)
<1> PICK f \in Files : f = want[p].file
  BY DEF FidsInv, Wants
<1>1. IsFiniteSet(Waiters(f)) /\ refcnt[f] = Cardinality(Waiters(f)) /\ p \in Waiters(f)
  BY DEF FidsInv, Counted, Waiters
<1>2. Cardinality(Waiters(f) \ {p}) = Cardinality(Waiters(f)) - 1
  BY <1>1, FS_RemoveElement
<1> QED BY <1>1, <1>2 DEF Others

\* The return from setflck, with whatever has become of the list
LEMMA ReturnCounts ==
    ASSUME FidsInv, NEW p \in Procs, NEW w, NEW refs, Others(p, w, refs), Return(p, w.file, refs),
           DOMAIN chain' = Files, \A f \in Files \ {w.file} : chain'[f] = chain[f]
    PROVE  FidsInv'
<1>1. PICK g \in Files : g = w.file
  BY DEF Others
<1>2. /\ \A q \in Procs \ {p} : want'[q] = want[q]
      /\ want'[p] = Idle /\ DOMAIN want' = Procs
  BY DEF Return, FidsInv
<1>3. /\ refcnt'[g] = refs /\ DOMAIN refcnt' = Files
      /\ \A f \in Files \ {g} : refcnt'[f] = refcnt[f] /\ (f \in fids' <=> f \in fids)
      /\ g \in fids' <=> ~(refs = 0 /\ chain'[g] = <<>>)
  BY <1>1 DEF Return, Release, FidsInv
<1>4. ASSUME NEW f \in Files \ {g} PROVE Counted(f)' /\ EntryKept(f)'
  <2>1. Waiters(f)' = Waiters(f)
    BY <1>1, <1>2 DEF Waiters, Waits, Others
  <2> QED BY <1>1, <1>3, <2>1 DEF FidsInv, Counted, EntryKept
<1>5. Counted(g)' /\ EntryKept(g)'
  <2>1. Waiters(g)' = Waiters(g) \ {p}
    BY <1>2 DEF Waiters, Waits
  <2>2. IsFiniteSet(Waiters(g) \ {p})
    BY FS_RemoveElement DEF FidsInv, Counted
  <2>3. refs = Cardinality(Waiters(g) \ {p}) /\ refs \in Nat
    BY <1>1, <2>2, FS_CardinalityType DEF Others
  <2> QED BY <1>3, <2>1, <2>2, <2>3 DEF Counted, EntryKept
<1>6. Wants'
  BY <1>2 DEF FidsInv, Wants, Waits
<1> QED BY <1>2, <1>3, <1>4, <1>5, <1>6 DEF FidsInv

\* A process sleeps and keeps a reference.
LEMMA BlockCounts ==
    ASSUME FidsInv, NEW p \in Procs, NEW w, w # Idle, NEW l, NEW refs, Others(p, w, refs),
           Block(p, w, l, refs)
    PROVE  FidsInv'
<1>1. PICK g \in Files : g = w.file
  BY DEF Others
<1>2. /\ \A q \in Procs \ {p} : want'[q] = want[q]
      /\ want'[p] = w /\ DOMAIN want' = Procs /\ chain' = chain
  BY DEF Block, FidsInv
<1>3. /\ refcnt'[g] = refs + 1 /\ DOMAIN refcnt' = Files
      /\ \A f \in Files \ {g} : refcnt'[f] = refcnt[f] /\ (f \in fids' <=> f \in fids)
      /\ g \in fids'
  BY <1>1 DEF Block, FidsInv
<1>4. ASSUME NEW f \in Files \ {g} PROVE Counted(f)' /\ EntryKept(f)'
  <2>1. Waiters(f)' = Waiters(f)
    BY <1>1, <1>2 DEF Waiters, Waits, Others
  <2> QED BY <1>2, <1>3, <2>1 DEF FidsInv, Counted, EntryKept
<1>5. Counted(g)' /\ EntryKept(g)'
  <2>1. Waiters(g)' = (Waiters(g) \ {p}) \cup {p} /\ p \notin Waiters(g) \ {p}
    BY <1>1, <1>2 DEF Waiters, Waits
  <2>2. IsFiniteSet(Waiters(g) \ {p})
    BY FS_RemoveElement DEF FidsInv, Counted
  <2>3. refs = Cardinality(Waiters(g) \ {p}) /\ refs \in Nat
    BY <1>1, <2>2, FS_CardinalityType DEF Others
  <2>4. IsFiniteSet(Waiters(g)') /\ Cardinality(Waiters(g)') = refs + 1
    <3>1. PICK V : V = Waiters(g) \ {p}
      OBVIOUS
    <3>2. IsFiniteSet(V \cup {p}) /\ Cardinality(V \cup {p}) = Cardinality(V) + 1
      BY <2>1, <2>2, <3>1, FS_AddElement
    <3> QED BY <2>1, <2>3, <3>1, <3>2
  <2> QED BY <1>3, <2>3, <2>4 DEF Counted, EntryKept
<1>6. Wants'
  BY <1>1, <1>2 DEF FidsInv, Wants, Waits
<1> QED BY <1>2, <1>3, <1>4, <1>5, <1>6 DEF FidsInv

\* A turn of setflck's loop ends in one of these.
LEMMA TurnCounts ==
    ASSUME FidsInv, NEW p \in Procs, NEW w, w # Idle, NEW refs, Others(p, w, refs), Turn(p, w, refs)
    PROVE  FidsInv'
<1>1. PICK i \in {Blocked(p, w, chain[w.file])} :
        \/ Adjusted(p, w, refs)
        \/ Refused(p, w, refs)
        \/ Block(p, w, chain[w.file][i], refs)
  BY DEF Turn
<1>2. CASE Adjusted(p, w, refs)
  <2>1. PICK L : chain' = [chain EXCEPT ![w.file] = L]
    BY <1>2 DEF Adjusted
  <2> QED BY <1>2, <2>1, ReturnCounts DEF Adjusted, FidsInv
<1>3. CASE Refused(p, w, refs)
  BY <1>3, ReturnCounts DEF Refused, lockVars, FidsInv
<1>4. CASE Block(p, w, chain[w.file][i], refs)
  BY <1>4, BlockCounts
<1> QED BY <1>1, <1>2, <1>3, <1>4

\* Every call keeps the counts.
LEMMA NextCounts == FidsInv /\ [Next]_vars => FidsInv'
<1> SUFFICES ASSUME FidsInv, [Next]_vars
             PROVE  FidsInv'
  OBVIOUS
<1>1. ASSUME NEW p \in Procs, NEW w \in Requests(p), SetLock(p, w)
      PROVE  FidsInv'
  <2>1. w.file \in Files /\ w # Idle
    BY DEF Requests, Request, Idle
  <2> QED BY <1>1, <2>1, FirstTurn, TurnCounts DEF SetLock
<1>2. ASSUME NEW p \in Procs, NEW w \in Unlocks, Unlock(p, w)
      PROVE  FidsInv'
  <2>1. w.file \in Files
    BY DEF Unlocks, Request
  <2>2. PICK L : chain' = [chain EXCEPT ![w.file] = L]
    BY <1>2 DEF Unlock, Adjusted
  <2> QED BY <1>2, <2>1, <2>2, FirstTurn, ReturnCounts DEF Unlock, Adjusted, FidsInv
<1>3. ASSUME NEW p \in Procs, Retry(p)
      PROVE  FidsInv'
  BY <1>3, NextTurn, TurnCounts DEF Retry, Runnable, Waits
<1>4. CASE UNCHANGED <<chain, fileVars, want>>
  <2>1. \A f \in Files : Waiters(f)' = Waiters(f)
    BY <1>4 DEF Waiters, Waits
  <2> QED BY <1>4, <2>1 DEF FidsInv, Wants, Waits, Counted, EntryKept, fileVars
<1>5. ASSUME NEW p \in Procs, Interrupted(p)
      PROVE  FidsInv'
  BY <1>5, NextTurn, ReturnCounts DEF Interrupted, Runnable, Refused, lockVars, FidsInv
<1>6. \A p \in Procs : Signal(p) => UNCHANGED <<chain, fileVars, want>>
  BY DEF Signal, lockVars
<1> QED BY <1>1, <1>2, <1>3, <1>4, <1>5, <1>6 DEF Next, vars, lockVars, waitVars

\* The table of files neither leaks an entry nor loses one under a sleeper: an entry is
\* there exactly while the file has locks or processes wait for one, and fl_refcnt is the
\* number of these processes, for every number of processes and files (findfid, allocfid,
\* freelfid, and setflck on each of its returns).
THEOREM EntriesCounted == Spec => []FidsCounted
<1>1. Init => FidsInv
  <2> SUFFICES ASSUME Init PROVE FidsInv
    OBVIOUS
  <2>1. \A p \in Procs : ~Waits(p)
    BY DEF Init, Waits
  <2>2. \A f \in Files : Waiters(f) = {}
    BY <2>1 DEF Waiters
  <2>3. \A f \in Files : Counted(f) /\ EntryKept(f)
    <3>1. \A f \in Files : refcnt[f] = 0 /\ chain[f] = <<>> /\ f \notin fids
      BY DEF Init
    <3>2. \A f \in Files : Counted(f)
      BY <2>2, <3>1, FS_EmptySet DEF Counted
    <3> QED BY <3>1, <3>2 DEF EntryKept
  <2> QED BY <2>1, <2>3 DEF Init, FidsInv, Wants
<1>2. FidsInv => FidsCounted
  BY DEF FidsInv, FidsCounted, Counted, EntryKept, Waiters
<1> QED BY <1>1, <1>2, NextCounts, PTL DEF Spec


-------------------------------------------------------------------------------
(* The loop of flckadj                                                     *)

\* The loop over all the sets of turns, as the library defines it
IsWalk(g, p, type, start, walk) ==
    g = [S \in SUBSET DOMAIN walk |->
            IF S = {} THEN start ELSE AdjStep(p, type, g[S \ {Max(S)}], walk[Max(S)])]

\* The end of the walk of flckadj
Walked(p, type, start, walk) == FoldLeft(LAMBDA a, r : AdjStep(p, type, a, r), start, walk)

\* FoldLeft is such a loop at the end
LEMMA WalkIs ==
    ASSUME NEW p, NEW type, NEW start, NEW walk
    PROVE  Walked(p, type, start, walk) = (CHOOSE g : IsWalk(g, p, type, start, walk))[DOMAIN walk]
BY Zenon DEF Walked, FoldLeft, MapThenFoldSet, IsWalk

\* The greatest of finitely many turns
LEMMA MaxIs ==
    ASSUME NEW n \in Nat, NEW S \in SUBSET (1 .. n), S # {}
    PROVE  Max(S) \in S /\ \A x \in S : x <= Max(S)
<1> DEFINE T == {n - x : x \in S}
<1>0. \A x \in S : n - x \in Nat
    OBVIOUS
<1>1. T \subseteq Nat /\ T # {}
    BY <1>0
<1>2. PICK t \in T : \A y \in T : t <= y
    BY <1>1, LeastNat
<1>3. PICK m \in S : t = n - m
    BY <1>2
<1>4. \A x \in S : m >= x
    <2>1. ASSUME NEW x \in S PROVE m >= x
        <3>1. n - x \in T
            OBVIOUS
        <3>2. n - m <= n - x
            BY <1>2, <1>3, <3>1
        <3> QED
            BY <3>2
    <2> QED
        BY <2>1
<1>5. \E x \in S : \A y \in S : x >= y
    BY <1>4
<1>6. Max(S) \in S /\ \A y \in S : Max(S) >= y
    BY <1>5 DEF Max
<1> QED
    BY <1>6

\* There is one
LEMMA WalkExists ==
    ASSUME NEW p, NEW type, NEW start, NEW walk, NEW len \in Nat, DOMAIN walk = 1 .. len
    PROVE  \E g : IsWalk(g, p, type, start, walk)
<1> DEFINE D == DOMAIN walk
           rhs(g, S) == IF S = {} THEN start ELSE AdjStep(p, type, g[S \ {Max(S)}], walk[Max(S)])
           Upto(n, g) == \A S \in SUBSET D : Cardinality(S) <= n => g[S] = rhs(g, S)
           N == {n \in Nat : \E g : g = [S \in SUBSET D |-> g[S]] /\ Upto(n, g)}
<1>d. IsFiniteSet(D) /\ D = 1 .. len
    BY FS_Interval
<1>0. \A S \in SUBSET D : IsFiniteSet(S) /\ Cardinality(S) \in Nat
    BY <1>d, FS_Subset, FS_CardinalityType
<1>1. 0 \in N
    <2> DEFINE g == [S \in SUBSET D |-> start]
    <2>1. ASSUME NEW S \in SUBSET D, Cardinality(S) <= 0 PROVE g[S] = rhs(g, S)
        <3>1. S = {}
            BY <1>0, <2>1, FS_EmptySet
        <3> QED
            BY <3>1
    <2>2. g = [S \in SUBSET D |-> g[S]]
        OBVIOUS
    <2> HIDE DEF rhs, g, D
    <2> QED
        BY <2>1, <2>2
<1>2. ASSUME NEW n \in N PROVE n + 1 \in N
    <2>1. PICK g : g = [S \in SUBSET D |-> g[S]] /\ Upto(n, g)
        OBVIOUS
    <2> DEFINE h == [S \in SUBSET D |-> IF Cardinality(S) = n + 1 THEN rhs(g, S) ELSE g[S]]
    <2>2. ASSUME NEW S \in SUBSET D, S # {}
          PROVE  S \ {Max(S)} \in SUBSET D /\ Cardinality(S \ {Max(S)}) = Cardinality(S) - 1
        <3>1. Max(S) \in S
            BY <1>d, <2>2, MaxIs
        <3> QED
            BY <1>0, <3>1, FS_RemoveElement
    <2>3. ASSUME NEW S \in SUBSET D, Cardinality(S) <= n + 1 PROVE h[S] = rhs(h, S)
        <3>0. Cardinality(S) \in Nat /\ n \in Nat
            BY <1>0
        <3>1. rhs(h, S) = rhs(g, S)
            <4>1. CASE S = {}
                BY <4>1
            <4>2. CASE S # {}
                <5>1. PICK R : R = S \ {Max(S)}
                    OBVIOUS
                <5>2. R \in SUBSET D /\ Cardinality(R) # n + 1
                    BY <2>2, <2>3, <3>0, <4>2, <5>1
                <5>3. h[R] = g[R]
                    BY <5>2
                <5> QED
                    BY <4>2, <5>1, <5>3
            <4> QED
                BY <4>1, <4>2
        <3>2. CASE Cardinality(S) = n + 1
            BY <3>1, <3>2
        <3>3. CASE Cardinality(S) # n + 1
            <4>1. Cardinality(S) <= n
                BY <2>3, <3>0, <3>3
            <4>2. g[S] = rhs(g, S)
                BY <2>1, <4>1
            <4>3. h[S] = g[S]
                BY <3>3
            <4> QED
                BY <3>1, <4>2, <4>3
        <3> QED
            BY <3>2, <3>3
    <2>4. h = [S \in SUBSET D |-> h[S]] /\ Upto(n + 1, h)
        BY <2>3
    <2>5. n + 1 \in Nat
        OBVIOUS
    <2> HIDE DEF Upto, h, D
    <2> QED
        BY <2>4, <2>5
<1>3. Cardinality(D) \in N
    <2>1. Cardinality(D) \in Nat
        BY <1>0
    <2> HIDE DEF N
    <2>2. 0 .. Cardinality(D) \subseteq N
        BY <1>1, <1>2, <2>1, InductionTo
    <2> QED
        BY <2>1, <2>2
<1>4. PICK g : g = [S \in SUBSET D |-> g[S]] /\ Upto(Cardinality(D), g)
    BY <1>3
<1>5. ASSUME NEW S \in SUBSET D PROVE g[S] = rhs(g, S)
    <2>1. Cardinality(S) <= Cardinality(D)
        BY <1>d, FS_Subset
    <2> QED
        BY <1>4, <2>1
<1>6. IsWalk(g, p, type, start, walk)
    <2> HIDE DEF rhs
    <2>1. g = [S \in SUBSET D |-> rhs(g, S)]
        BY <1>4, <1>5
    <2> QED
        BY <2>1 DEF IsWalk, rhs
<1> QED
    BY <1>6

\* h is the loop turn by turn
IsLoop(h, p, type, start, walk) ==
    h[0] = start /\ \A i \in 1 .. Len(walk) : h[i] = AdjStep(p, type, h[i - 1], walk[i])

\* The loop, turn by turn
LEMMA Loop ==
    ASSUME NEW p, NEW type, NEW start, NEW T, NEW walk \in Seq(T)
    PROVE  \E h : /\ IsLoop(h, p, type, start, walk)
                  /\ Walked(p, type, start, walk) = h[Len(walk)]
<1>0. Len(walk) \in Nat /\ DOMAIN walk = 1 .. Len(walk)
    OBVIOUS
<1>1. PICK g : g = (CHOOSE k : IsWalk(k, p, type, start, walk))
    OBVIOUS
<1>2. IsWalk(g, p, type, start, walk)
    BY <1>0, <1>1, WalkExists
<1>3. \A S \in SUBSET DOMAIN walk :
          g[S] = IF S = {} THEN start ELSE AdjStep(p, type, g[S \ {Max(S)}], walk[Max(S)])
    BY <1>2 DEF IsWalk
<1> DEFINE h == [i \in 0 .. Len(walk) |-> g[1 .. i]]
<1>4. h[0] = start
    <2>1. 1 .. 0 = {} /\ 0 \in 0 .. Len(walk)
        BY <1>0
    <2> QED
        BY <1>3, <2>1
<1>5. ASSUME NEW i \in 1 .. Len(walk) PROVE h[i] = AdjStep(p, type, h[i - 1], walk[i])
    <2>1. PICK S : S = 1 .. i
        OBVIOUS
    <2>0. i \in Nat /\ i <= Len(walk) /\ i \in 1 .. i
        BY <1>0
    <2>2. S \in SUBSET DOMAIN walk /\ S # {} /\ i \in S
        <3>1. 1 .. i \subseteq 1 .. Len(walk)
            BY <1>0, <2>0
        <3> QED
            BY <1>0, <2>0, <2>1, <3>1
    <2>3. Max(S) = i
        <3>1. Max(S) \in S /\ \A x \in S : x <= Max(S)
            BY <1>0, <2>2, MaxIs
        <3> QED
            BY <2>1, <2>2, <3>1
    <2>4. S \ {i} = 1 .. (i - 1) /\ i - 1 \in 0 .. Len(walk) /\ i \in 0 .. Len(walk)
        BY <1>0, <2>1
    <2>5. g[S] = AdjStep(p, type, g[S \ {i}], walk[i])
        BY <1>3, <2>2, <2>3
    <2> QED
        BY <2>1, <2>4, <2>5
<1>6. IsLoop(h, p, type, start, walk)
    BY <1>4, <1>5 DEF IsLoop
<1>7. Walked(p, type, start, walk) = h[Len(walk)]
    <2>1. Walked(p, type, start, walk) = g[DOMAIN walk]
        BY <1>1, WalkIs
    <2>2. h[Len(walk)] = g[1 .. Len(walk)]
        BY <1>0
    <2> QED
        BY <1>0, <2>1, <2>2
<1> QED
    BY <1>6, <1>7
-------------------------------------------------------------------------------
(* The lists                                                               *)

Locks == [id : Recs, pid : Procs, type : Modes, lo : Int, hi : Int]

Elems(L) == {L[i] : i \in DOMAIN L}

\* No record is in the list twice
Distinct(L) == \A i, j \in DOMAIN L : L[i].id = L[j].id => i = j

\* What insflck does at a place
LEMMA InsertedAt ==
    ASSUME NEW T, NEW L \in Seq(T), NEW r \in T, NEW k \in 1 .. Len(L) + 1
    PROVE  /\ InsertAt(L, k, r) \in Seq(T)
           /\ Len(InsertAt(L, k, r)) = Len(L) + 1
           /\ \A i \in 1 .. Len(L) + 1 :
                 InsertAt(L, k, r)[i] = IF i < k THEN L[i] ELSE IF i = k THEN r ELSE L[i - 1]
<1>n. PICK n \in Nat : n = Len(L)
    OBVIOUS
<1>1. PICK A : A = SubSeq(L, 1, k - 1)
    OBVIOUS
<1>2. PICK B : B = SubSeq(L, k, Len(L))
    OBVIOUS
<1>3. A \in Seq(T) /\ Len(A) = k - 1 /\ \A i \in 1 .. k - 1 : A[i] = L[i]
    BY <1>n, <1>1
<1>4. B \in Seq(T) /\ Len(B) = n - k + 1 /\ \A i \in 1 .. n - k + 1 : B[i] = L[k + i - 1]
    BY <1>n, <1>2
<1>5. PICK M : M = InsertAt(L, k, r)
    OBVIOUS
<1>6. M = A \o <<r>> \o B
    BY <1>1, <1>2, <1>5 DEF InsertAt
<1>7. PICK C : C = A \o <<r>>
    OBVIOUS
<1>8. C \in Seq(T) /\ Len(C) = k /\ \A i \in 1 .. k : C[i] = IF i < k THEN L[i] ELSE r
    BY <1>3, <1>7
<1>9. M = C \o B
    BY <1>6, <1>7
<1>10. C \in Seq(T) /\ B \in Seq(T)
    BY <1>4, <1>8
<1>11. M \in Seq(T) /\ Len(M) = Len(C) + Len(B)
    BY <1>9, <1>10
<1>12. Len(M) = n + 1
    BY <1>4, <1>8, <1>11
<1>13. ASSUME NEW i \in 1 .. n + 1 PROVE M[i] = IF i < k THEN L[i] ELSE IF i = k THEN r ELSE L[i - 1]
    <2>1. CASE i <= k
        BY <1>4, <1>8, <1>9, <1>10, <2>1
    <2>2. CASE i > k
        <3>1. PICK j : j = i - k
            OBVIOUS
        <3>2. j \in 1 .. n - k + 1 /\ k + j - 1 = i - 1
            BY <1>n, <2>2, <3>1
        <3>3. M[i] = B[j]
            <4>1. i \in 1 .. Len(C) + Len(B) /\ ~(i <= Len(C)) /\ i - Len(C) = j
                BY <1>4, <1>8, <2>2, <3>1, <1>n
            <4> QED
                BY <1>9, <1>10, <4>1
        <3>4. B[j] = L[i - 1]
            BY <1>4, <3>2
        <3> QED
            BY <2>2, <3>3, <3>4
    <2> QED
        BY <2>1, <2>2
<1> QED
    BY <1>n, <1>5, <1>11, <1>12, <1>13

\* What delflck does
LEMMA RemovedAt ==
    ASSUME NEW T, NEW L \in Seq(T), NEW k \in 1 .. Len(L)
    PROVE  /\ RemoveAt(L, k) \in Seq(T)
           /\ Len(RemoveAt(L, k)) = Len(L) - 1
           /\ \A i \in 1 .. Len(L) - 1 : RemoveAt(L, k)[i] = IF i < k THEN L[i] ELSE L[i + 1]
<1>n. PICK n \in Nat : n = Len(L)
    OBVIOUS
<1>1. PICK A : A = SubSeq(L, 1, k - 1)
    OBVIOUS
<1>2. PICK B : B = SubSeq(L, k + 1, Len(L))
    OBVIOUS
<1>3. A \in Seq(T) /\ Len(A) = k - 1 /\ \A i \in 1 .. k - 1 : A[i] = L[i]
    BY <1>n, <1>1
<1>4. B \in Seq(T) /\ Len(B) = n - k /\ \A i \in 1 .. n - k : B[i] = L[k + i]
    BY <1>n, <1>2
<1>5. PICK M : M = RemoveAt(L, k)
    OBVIOUS
<1>6. M = A \o B
    BY <1>1, <1>2, <1>5 DEF RemoveAt
<1>7. A \in Seq(T) /\ B \in Seq(T)
    BY <1>3, <1>4
<1>8. M \in Seq(T) /\ Len(M) = Len(A) + Len(B)
    BY <1>6, <1>7
<1>9. Len(M) = n - 1
    BY <1>3, <1>4, <1>8, <1>n
<1>10. ASSUME NEW i \in 1 .. n - 1 PROVE M[i] = IF i < k THEN L[i] ELSE L[i + 1]
    <2>1. CASE i < k
        BY <1>3, <1>6, <1>7, <2>1
    <2>2. CASE ~(i < k)
        <3>1. PICK j : j = i - (k - 1)
            OBVIOUS
        <3>2. j \in 1 .. n - k /\ k + j = i + 1
            BY <1>n, <2>2, <3>1
        <3>3. M[i] = B[j]
            BY <1>3, <1>4, <1>6, <1>7, <1>n, <2>2, <3>1
        <3>4. B[j] = L[k + j]
            BY <1>4, <3>2
        <3> QED
            BY <2>2, <3>2, <3>3, <3>4
    <2> QED
        BY <2>1, <2>2
<1> QED
    BY <1>n, <1>5, <1>8, <1>9, <1>10

\* Nothing is removed at 0
LEMMA RemovedNowhere == ASSUME NEW T, NEW L \in Seq(T) PROVE RemoveAt(L, 0) = L
<1>1. PICK A : A = SubSeq(L, 1, 0 - 1)
    OBVIOUS
<1>2. PICK B : B = SubSeq(L, 0 + 1, Len(L))
    OBVIOUS
<1>3. A \in Seq(T) /\ Len(A) = 0
    BY <1>1
<1>4. B = L
    BY <1>2
<1>5. RemoveAt(L, 0) = A \o B
    BY <1>1, <1>2 DEF RemoveAt
<1> QED
    BY <1>3, <1>4, <1>5

\* The least of a set of places
LEMMA MinIs == ASSUME NEW T, T \subseteq Nat, T # {} PROVE Min(T) \in T /\ \A y \in T : Min(T) <= y
BY LeastNat DEF Min

\* The place of a record in a list, 0 if it is not there
LEMMA PlaceIs ==
    ASSUME NEW T, NEW L \in Seq(T), NEW id
    PROVE  /\ Place(L, id) \in 0 .. Len(L)
           /\ Place(L, id) = 0 => id \notin Ids(L)
           /\ Place(L, id) # 0 => L[Place(L, id)].id = id
<1>1. PICK S : S = {i \in 1 .. Len(L) : L[i].id = id}
    OBVIOUS
<1>2. Place(L, id) = IF S # {} THEN Min(S) ELSE 0
    BY <1>1 DEF Place, SelectInSeq
<1>3. S \subseteq Nat /\ S \subseteq 1 .. Len(L) /\ DOMAIN L = 1 .. Len(L)
    BY <1>1
<1>4. S # {} => Min(S) \in S
    BY <1>3, MinIs
<1>5. S = {} => id \notin Ids(L)
    BY <1>1, <1>3 DEF Ids
<1>6. CASE S = {}
    BY <1>2, <1>5, <1>6
<1>7. CASE S # {}
    <2>1. PICK m : m = Min(S)
        OBVIOUS
    <2>2. m \in 1 .. Len(L) /\ L[m].id = id
        BY <1>1, <1>4, <1>7, <2>1
    <2> QED
        BY <1>2, <1>7, <2>1, <2>2
<1> QED
    BY <1>6, <1>7

\* The record goes in somewhere
LEMMA SortedAt ==
    ASSUME NEW T, NEW L \in Seq(T), NEW i \in 0 .. Len(L), NEW x, NEW r
    PROVE  \E k \in 1 .. Len(L) + 1 : InsertSorted(L, i, x, r) = InsertAt(L, k, r)
<1>n. PICK n \in Nat : n = Len(L)
    OBVIOUS
<1>1. PICK stop : stop = IF i = 0 THEN 0 ELSE SelectInSubSeq(L, i, Len(L), LAMBDA l : l.lo >= x)
    OBVIOUS
<1>2. stop \in 0 .. n
    <2>1. PICK S : S = {j \in i .. Len(L) : L[j].lo >= x}
        OBVIOUS
    <2>2. stop = 0 \/ (S # {} /\ stop = Min(S))
        BY <1>1, <2>1 DEF SelectInSubSeq
    <2>3. S \subseteq Nat /\ S \subseteq 0 .. n
        BY <1>n, <2>1
    <2>4. S # {} => Min(S) \in S
        BY <2>3, MinIs
    <2>5. S # {} => Min(S) \in 0 .. n
        BY <2>3, <2>4
    <2> QED
        BY <2>2, <2>5
<1>3. PICK at : at = IF stop = 0 /\ i # 0 THEN Len(L) + 1 ELSE stop
    OBVIOUS
<1>4. PICK k : k = IF at > i THEN at ELSE i + 1
    OBVIOUS
<1>5. at \in 0 .. n + 1 /\ k \in 1 .. n + 1
    BY <1>2, <1>3, <1>4, <1>n
<1>6. InsertSorted(L, i, x, r) = InsertAt(L, k, r)
    BY <1>1, <1>3, <1>4 DEF InsertSorted
<1> QED
    BY <1>5, <1>6, <1>n

\* A list of locks with one more record
LEMMA Inserted ==
    ASSUME NEW L \in Seq(Locks), Distinct(L), NEW r \in Locks, r.id \notin Ids(L),
           NEW i \in 0 .. Len(L), NEW x, NEW M, M = InsertSorted(L, i, x, r)
    PROVE  /\ M \in Seq(Locks) /\ Distinct(M) /\ Ids(M) = Ids(L) \cup {r.id}
           /\ Elems(M) = Elems(L) \cup {r}
<1>n. PICK n \in Nat : n = Len(L) /\ DOMAIN L = 1 .. n
    OBVIOUS
<1>1. PICK k \in 1 .. n + 1 : M = InsertAt(L, k, r)
    BY <1>n, SortedAt
<1>2. /\ M \in Seq(Locks) /\ DOMAIN M = 1 .. n + 1
      /\ \A j \in 1 .. n + 1 : M[j] = IF j < k THEN L[j] ELSE IF j = k THEN r ELSE L[j - 1]
    <2>0. k \in 1 .. Len(L) + 1
        BY <1>n
    <2>1. M \in Seq(Locks) /\ Len(M) = n + 1
        BY <1>n, <1>1, <2>0, InsertedAt
    <2>2. \A j \in 1 .. n + 1 : M[j] = IF j < k THEN L[j] ELSE IF j = k THEN r ELSE L[j - 1]
        <3>1. \A j \in 1 .. Len(L) + 1 :
                  InsertAt(L, k, r)[j] = IF j < k THEN L[j] ELSE IF j = k THEN r ELSE L[j - 1]
            BY <2>0, InsertedAt
        <3> QED
            BY <1>n, <1>1, <3>1
    <2>3. DOMAIN M = 1 .. Len(M)
        BY <2>1
    <2> QED
        BY <2>1, <2>2, <2>3
\* Each record of M is r or one of L, and each of L is in M
<1>3. \A j \in 1 .. n + 1 : j = k \/ (j < k /\ j \in 1 .. n) \/ (j > k /\ j - 1 \in 1 .. n)
    OBVIOUS
<1>4. \A j \in 1 .. n : \E m \in 1 .. n + 1 : M[m] = L[j]
    <2>1. ASSUME NEW j \in 1 .. n PROVE \E m \in 1 .. n + 1 : M[m] = L[j]
        <3>1. CASE j < k
            BY <1>2, <3>1
        <3>2. CASE ~(j < k)
            <4>1. PICK m : m = j + 1
                OBVIOUS
            <4>2. m \in 1 .. n + 1 /\ ~(m < k) /\ m # k /\ m - 1 = j
                BY <3>2, <4>1
            <4> QED
                BY <1>2, <4>2
        <3> QED
            BY <3>1, <3>2
    <2> QED
        BY <2>1
<1>5. \A j \in 1 .. n : L[j].id # r.id
    <2>1. ASSUME NEW j \in 1 .. n PROVE L[j].id \in Ids(L)
        <3>1. j \in DOMAIN L
            BY <1>n
        <3> QED
            BY <3>1 DEF Ids
    <2> QED
        BY <2>1
<1>6. Elems(M) = Elems(L) \cup {r} /\ Ids(M) = Ids(L) \cup {r.id}
    <2>1. \A j \in 1 .. n + 1 : M[j] = r \/ \E m \in 1 .. n : M[j] = L[m]
        <3>1. ASSUME NEW j \in 1 .. n + 1 PROVE M[j] = r \/ \E m \in 1 .. n : M[j] = L[m]
            <4>1. CASE j = k
                BY <1>2, <4>1
            <4>2. CASE j < k /\ j \in 1 .. n
                <5>1. M[j] = L[j]
                    BY <1>2, <4>2
                <5> QED
                    BY <4>2, <5>1
            <4>3. CASE j > k /\ j - 1 \in 1 .. n
                <5>1. M[j] = L[j - 1]
                    BY <1>2, <4>3
                <5> QED
                    BY <4>3, <5>1
            <4> QED
                BY <1>3, <4>1, <4>2, <4>3
        <3> QED
            BY <3>1
    <2>2. M[k] = r
        BY <1>2
    <2>3. Elems(M) \subseteq Elems(L) \cup {r}
        <3>1. ASSUME NEW l \in Elems(M) PROVE l \in Elems(L) \cup {r}
            <4>1. PICK j \in 1 .. n + 1 : l = M[j]
                BY <1>2 DEF Elems
            <4>2. CASE M[j] = r
                BY <4>1, <4>2
            <4>3. CASE \E m \in 1 .. n : M[j] = L[m]
                BY <1>n, <4>1, <4>3 DEF Elems
            <4> QED
                BY <2>1, <4>2, <4>3
        <3> QED
            BY <3>1
    <2>4. Elems(L) \cup {r} \subseteq Elems(M)
        <3>1. ASSUME NEW l \in Elems(L) PROVE l \in Elems(M)
            <4>1. PICK j \in 1 .. n : l = L[j]
                BY <1>n DEF Elems
            <4>2. PICK m \in 1 .. n + 1 : M[m] = L[j]
                BY <1>4
            <4> QED
                BY <1>2, <4>1, <4>2 DEF Elems
        <3>2. r \in Elems(M)
            BY <1>2, <2>2 DEF Elems
        <3> QED
            BY <3>1, <3>2
    <2>5. Ids(M) \subseteq Ids(L) \cup {r.id}
        <3>1. ASSUME NEW x0 \in Ids(M) PROVE x0 \in Ids(L) \cup {r.id}
            <4>1. PICK j \in 1 .. n + 1 : x0 = M[j].id
                BY <1>2 DEF Ids
            <4>2. CASE M[j] = r
                BY <4>1, <4>2
            <4>3. CASE \E m \in 1 .. n : M[j] = L[m]
                BY <1>n, <4>1, <4>3 DEF Ids
            <4> QED
                BY <2>1, <4>2, <4>3
        <3> QED
            BY <3>1
    <2>6. Ids(L) \cup {r.id} \subseteq Ids(M)
        <3>1. ASSUME NEW x0 \in Ids(L) PROVE x0 \in Ids(M)
            <4>1. PICK j \in 1 .. n : x0 = L[j].id
                BY <1>n DEF Ids
            <4>2. PICK m \in 1 .. n + 1 : M[m] = L[j]
                BY <1>4
            <4> QED
                BY <1>2, <4>1, <4>2 DEF Ids
        <3>2. r.id \in Ids(M)
            BY <1>2, <2>2 DEF Ids
        <3> QED
            BY <3>1, <3>2
    <2> QED
        BY <2>3, <2>4, <2>5, <2>6
<1>7. Distinct(M)
    <2>1. ASSUME NEW j \in 1 .. n + 1, NEW m \in 1 .. n + 1, M[j].id = M[m].id PROVE j = m
        <3>1. PICK jj : jj = IF j < k THEN j ELSE j - 1
            OBVIOUS
        <3>2. PICK mm : mm = IF m < k THEN m ELSE m - 1
            OBVIOUS
        <3>3. CASE j = k
            <4>1. m # k => mm \in 1 .. n /\ M[m] = L[mm]
                BY <1>2, <3>2
            <4>2. M[j] = r
                BY <1>2, <3>3
            <4> QED
                BY <1>5, <2>1, <3>3, <4>1, <4>2
        <3>4. CASE m = k
            <4>1. j # k => jj \in 1 .. n /\ M[j] = L[jj]
                BY <1>2, <3>1
            <4>2. M[m] = r
                BY <1>2, <3>4
            <4> QED
                BY <1>5, <2>1, <3>4, <4>1, <4>2
        <3>5. CASE j # k /\ m # k
            <4>1. jj \in 1 .. n /\ M[j] = L[jj] /\ mm \in 1 .. n /\ M[m] = L[mm]
                BY <1>2, <3>1, <3>2, <3>5
            <4>2. jj = mm
                BY <1>n, <2>1, <4>1 DEF Distinct
            <4> QED
                BY <3>1, <3>2, <3>5, <4>2
        <3> QED
            BY <3>3, <3>4, <3>5
    <2> QED
        BY <1>2, <2>1 DEF Distinct
<1> QED
    BY <1>2, <1>6, <1>7

\* A list of locks without a record
LEMMA Removed ==
    ASSUME NEW L \in Seq(Locks), Distinct(L), NEW id, NEW M, M = RemoveAt(L, Place(L, id))
    PROVE  /\ M \in Seq(Locks) /\ Distinct(M) /\ Ids(M) = Ids(L) \ {id}
           /\ Elems(M) = {l \in Elems(L) : l.id # id}
<1>n. PICK n \in Nat : n = Len(L) /\ DOMAIN L = 1 .. n
    OBVIOUS
<1>1. PICK k : k = Place(L, id)
    OBVIOUS
<1>2. k \in 0 .. n /\ (k = 0 => id \notin Ids(L)) /\ (k # 0 => L[k].id = id)
    BY <1>n, <1>1, PlaceIs
<1>3. CASE k = 0
    <2>1. M = L
        BY <1>1, <1>3, RemovedNowhere
    <2>2. \A j \in 1 .. n : L[j].id # id
        BY <1>n, <1>2, <1>3 DEF Ids
    <2> QED
        BY <1>n, <2>1, <2>2 DEF Elems, Ids
<1>4. CASE k # 0
    <2>0. k \in 1 .. n /\ L[k].id = id
        BY <1>2, <1>4
    <2>1. M \in Seq(Locks) /\ Len(M) = n - 1
        BY <1>n, <1>1, <2>0, RemovedAt
    <2>2. \A j \in 1 .. n - 1 : M[j] = IF j < k THEN L[j] ELSE L[j + 1]
        BY <1>n, <1>1, <2>0, RemovedAt
    <2>3. DOMAIN M = 1 .. n - 1
        BY <2>1, <2>0
    <2>4. \A j \in 1 .. n : j # k => L[j].id # id
        BY <1>n, <2>0 DEF Distinct
    <2>5. \A j \in 1 .. n : j # k => \E m \in 1 .. n - 1 : M[m] = L[j]
        <3>1. ASSUME NEW j \in 1 .. n, j # k PROVE \E m \in 1 .. n - 1 : M[m] = L[j]
            <4>1. CASE j < k
                <5>1. j \in 1 .. n - 1
                    BY <2>0, <4>1
                <5> QED
                    BY <2>2, <4>1, <5>1
            <4>2. CASE ~(j < k)
                <5>1. PICK m : m = j - 1
                    OBVIOUS
                <5>2. m \in 1 .. n - 1 /\ ~(m < k) /\ m + 1 = j
                    BY <2>0, <3>1, <4>2, <5>1
                <5> QED
                    BY <2>2, <5>2
            <4> QED
                BY <4>1, <4>2
        <3> QED
            BY <3>1
    <2>6. \A j \in 1 .. n - 1 : \E m \in 1 .. n : M[j] = L[m] /\ m # k /\ m = IF j < k THEN j ELSE j + 1
        <3>1. ASSUME NEW j \in 1 .. n - 1
              PROVE  \E m \in 1 .. n : M[j] = L[m] /\ m # k /\ m = IF j < k THEN j ELSE j + 1
            <4>1. PICK m : m = IF j < k THEN j ELSE j + 1
                OBVIOUS
            <4>2. m \in 1 .. n /\ m # k
                BY <2>0, <4>1
            <4> QED
                BY <2>2, <4>1, <4>2
        <3> QED
            BY <3>1
    <2>7. Elems(M) = {l \in Elems(L) : l.id # id} /\ Ids(M) = Ids(L) \ {id}
        <3>1. \A j \in 1 .. n - 1 : \E m \in 1 .. n : M[j] = L[m] /\ L[m].id # id
            BY <2>4, <2>6
        <3>2. \A j \in 1 .. n : L[j].id # id => \E m \in 1 .. n - 1 : M[m] = L[j]
            BY <2>0, <2>5
        <3>3. Elems(M) \subseteq {l \in Elems(L) : l.id # id}
            <4>1. ASSUME NEW l \in Elems(M) PROVE l \in Elems(L) /\ l.id # id
                <5>1. PICK j \in 1 .. n - 1 : l = M[j]
                    BY <2>3 DEF Elems
                <5>2. PICK m \in 1 .. n : M[j] = L[m] /\ L[m].id # id
                    BY <3>1
                <5> QED
                    BY <1>n, <5>1, <5>2 DEF Elems
            <4> QED
                BY <4>1
        <3>4. {l \in Elems(L) : l.id # id} \subseteq Elems(M)
            <4>1. ASSUME NEW l \in Elems(L), l.id # id PROVE l \in Elems(M)
                <5>1. PICK j \in 1 .. n : l = L[j]
                    BY <1>n DEF Elems
                <5>2. PICK m \in 1 .. n - 1 : M[m] = L[j]
                    BY <3>2, <4>1, <5>1
                <5> QED
                    BY <2>3, <5>1, <5>2 DEF Elems
            <4> QED
                BY <4>1
        <3>5. Ids(M) \subseteq Ids(L) \ {id}
            <4>1. ASSUME NEW x0 \in Ids(M) PROVE x0 \in Ids(L) /\ x0 # id
                <5>1. PICK j \in 1 .. n - 1 : x0 = M[j].id
                    BY <2>3 DEF Ids
                <5>2. PICK m \in 1 .. n : M[j] = L[m] /\ L[m].id # id
                    BY <3>1
                <5> QED
                    BY <1>n, <5>1, <5>2 DEF Ids
            <4> QED
                BY <4>1
        <3>6. Ids(L) \ {id} \subseteq Ids(M)
            BY <1>n, <2>3, <3>2 DEF Ids
        <3> QED
            BY <3>3, <3>4, <3>5, <3>6
    <2>8. Distinct(M)
        <3>1. ASSUME NEW i \in 1 .. n - 1, NEW j \in 1 .. n - 1, M[i].id = M[j].id PROVE i = j
            <4>1. PICK a \in 1 .. n : M[i] = L[a] /\ a = IF i < k THEN i ELSE i + 1
                BY <2>6
            <4>2. PICK b \in 1 .. n : M[j] = L[b] /\ b = IF j < k THEN j ELSE j + 1
                BY <2>6
            <4>3. a = b
                BY <1>n, <3>1, <4>1, <4>2 DEF Distinct
            <4>4. CASE i < k /\ ~(j < k)
                BY <4>1, <4>2, <4>3, <4>4, <2>0
            <4>5. CASE ~(i < k) /\ j < k
                BY <4>1, <4>2, <4>3, <4>5, <2>0
            <4>6. CASE (i < k /\ j < k) \/ (~(i < k) /\ ~(j < k))
                BY <4>1, <4>2, <4>3, <4>6
            <4> QED
                BY <4>4, <4>5, <4>6
        <3> QED
            BY <2>3, <3>1 DEF Distinct
    <2> QED
        BY <2>1, <2>7, <2>8
<1> QED
    BY <1>3, <1>4

-------------------------------------------------------------------------------
(* The walk of flckadj                                                     *)

Outs == {"go", "stop", "held", "nospace"}
Fields == {"list", "free", "woken", "lo", "hi", "insrt", "out"}

\* The state of a walk over L with the free records F: every record is in the list or
\* free, and a lock that nobody was woken for is as it was.
Acc(a, L, F) ==
    /\ DOMAIN a = Fields
    /\ a.list \in Seq(Locks) /\ Distinct(a.list)
    /\ a.free \cap Ids(a.list) = {} /\ a.free \cup Ids(a.list) = F \cup Ids(L)
    /\ a.lo \in Int /\ a.hi \in Int /\ a.out \in Outs
    /\ \A l \in Elems(L) : l.id \in a.woken \/ l \in Elems(a.list)

\* The fields that a step of the walk leaves a record
LEMMA AccIs ==
    ASSUME NEW a, NEW L, NEW F, Acc(a, L, F), NEW b, DOMAIN b = Fields, NEW M \in Seq(Locks),
           b.list = M, Distinct(M), b.free \cap Ids(M) = {}, b.free \cup Ids(M) = F \cup Ids(L),
           b.lo \in Int, b.hi \in Int, b.out \in Outs,
           \A l \in Elems(a.list) : l.id \in b.woken \/ l \in Elems(M), a.woken \subseteq b.woken
    PROVE  Acc(b, L, F)
<1>1. \A l \in Elems(L) : l.id \in b.woken \/ l \in Elems(M)
    BY DEF Acc
<1> QED
    BY <1>1 DEF Acc

\* delflck
LEMMA DeleteKeeps ==
    ASSUME NEW a, NEW L, NEW F, Acc(a, L, F), NEW r, r.id \in F \cup Ids(L)
    PROVE  Acc(Delete(a, r), L, F)
<1>1. PICK b : b = Delete(a, r)
    OBVIOUS
<1>2. PICK M : M = RemoveAt(a.list, Place(a.list, r.id))
    OBVIOUS
<1>3. /\ M \in Seq(Locks) /\ Distinct(M) /\ Ids(M) = Ids(a.list) \ {r.id}
      /\ Elems(M) = {l \in Elems(a.list) : l.id # r.id}
    BY <1>2, Removed DEF Acc
<1>4. /\ DOMAIN b = Fields /\ b.list = M /\ b.free = a.free \cup {r.id}
      /\ b.woken = a.woken \cup {r.id} /\ b.lo = a.lo /\ b.hi = a.hi /\ b.out = a.out
    BY <1>1, <1>2 DEF Delete, Acc, Fields
<1>5. b.free \cap Ids(M) = {} /\ b.free \cup Ids(M) = F \cup Ids(L)
    BY <1>3, <1>4 DEF Acc
<1>6. b.lo \in Int /\ b.hi \in Int /\ b.out \in Outs
    BY <1>4 DEF Acc
<1>7. \A l \in Elems(a.list) : l.id \in b.woken \/ l \in Elems(M)
    BY <1>3, <1>4
<1> QED
    BY <1>1, <1>3, <1>4, <1>5, <1>6, <1>7, AccIs

\* A lock becomes a part of the span
LEMMA JoinKeeps ==
    ASSUME NEW a, NEW L, NEW F, Acc(a, L, F), NEW r \in Locks, r.id \in F \cup Ids(L)
    PROVE  Acc(Join(a, r), L, F)
<1>1. PICK d : d = Delete(a, r)
    OBVIOUS
<1>2. Acc(d, L, F)
    BY <1>1, DeleteKeeps
<1>3. PICK b : b = Join(a, r)
    OBVIOUS
<1>4. r.lo \in Int /\ r.hi \in Int /\ a.lo \in Int /\ a.hi \in Int
    BY DEF Locks, Acc
<1>5. /\ DOMAIN b = Fields /\ b.list = d.list /\ b.free = d.free /\ b.woken = d.woken
      /\ b.lo \in Int /\ b.hi \in Int /\ b.out \in Outs
    BY <1>1, <1>2, <1>3, <1>4 DEF Join, Acc, Fields, Outs
<1> QED
    BY <1>2, <1>3, <1>5 DEF Acc

\* A record taken from the table goes into the list
LEMMA TakenKeeps ==
    ASSUME NEW a, NEW L, NEW F, Acc(a, L, F), NEW r \in Locks, r.id \in a.free,
           NEW i \in 0 .. Len(a.list), NEW x, NEW b, DOMAIN b = Fields,
           b.list = InsertSorted(a.list, i, x, r), b.free = a.free \ {r.id},
           b.woken = a.woken, b.lo = a.lo, b.hi = a.hi, b.out \in Outs
    PROVE  Acc(b, L, F)
<1>1. PICK M : M = InsertSorted(a.list, i, x, r)
    OBVIOUS
<1>2. a.list \in Seq(Locks) /\ Distinct(a.list) /\ r.id \notin Ids(a.list)
    BY DEF Acc
<1>3. /\ M \in Seq(Locks) /\ Distinct(M) /\ Ids(M) = Ids(a.list) \cup {r.id}
      /\ Elems(M) = Elems(a.list) \cup {r}
    BY <1>1, <1>2, Inserted
<1>4. b.free \cap Ids(M) = {} /\ b.free \cup Ids(M) = F \cup Ids(L)
    BY <1>3 DEF Acc
<1>5. \A l \in Elems(a.list) : l.id \in b.woken \/ l \in Elems(M)
    BY <1>3
<1>6. b.lo \in Int /\ b.hi \in Int /\ b.list = M
    BY <1>1 DEF Acc
<1> QED
    BY <1>3, <1>4, <1>5, <1>6, AccIs

\* A record of the table
LEMMA FirstIs == ASSUME NEW S, S # {} PROVE First(S) \in S
BY DEF First

\* The piece behind the span
LEMMA SeverKeeps ==
    ASSUME NEW a, NEW L, NEW F, Acc(a, L, F), NEW r \in Locks, a.free # {}, F \cup Ids(L) \subseteq Recs
    PROVE  Acc(Sever(a, r), L, F)
<1>1. PICK n \in a.free : n = First(a.free)
    BY FirstIs
<1>2. PICK td : td = [r EXCEPT !.id = n, !.lo = a.hi]
    OBVIOUS
<1>3. n \in Recs /\ a.hi \in Int
    BY DEF Acc
<1>4. td \in Locks /\ td.id = n
    BY <1>2, <1>3 DEF Locks
<1>5. PICK i : i = Place(a.list, r.id)
    OBVIOUS
<1>6. i \in 0 .. Len(a.list)
    BY <1>5, PlaceIs DEF Acc
<1>7. PICK b : b = Sever(a, r)
    OBVIOUS
<1>8. b = [a EXCEPT !.list = InsertSorted(a.list, i, a.lo, td), !.free = a.free \ {td.id}, !.out = "stop"]
    BY <1>1, <1>2, <1>5, <1>7 DEF Sever
<1>9. /\ DOMAIN b = Fields /\ b.list = InsertSorted(a.list, i, a.lo, td)
      /\ b.free = a.free \ {td.id} /\ b.woken = a.woken /\ b.lo = a.lo /\ b.hi = a.hi /\ b.out \in Outs
    BY <1>8 DEF Fields, Outs, Acc
<1>10. td.id \in a.free
    BY <1>4
<1> QED
    BY <1>4, <1>6, <1>7, <1>9, <1>10, TakenKeeps

\* The list with a lock that ends at x
EndsAt(L, id, x) == [L EXCEPT ![Place(L, id)].hi = x]

\* A lock of a list is shortened
LEMMA Shortened ==
    ASSUME NEW L \in Seq(Locks), Distinct(L), NEW id, NEW x \in Int, NEW M, M = EndsAt(L, id, x)
    PROVE  /\ M \in Seq(Locks) /\ Distinct(M) /\ Ids(M) = Ids(L)
           /\ \A l \in Elems(L) : l.id = id \/ l \in Elems(M)
<1>n. PICK n \in Nat : n = Len(L) /\ DOMAIN L = 1 .. n
    OBVIOUS
<1>1. PICK k : k = Place(L, id)
    OBVIOUS
<1>2. k \in 0 .. n /\ (k # 0 => L[k].id = id)
    BY <1>n, <1>1, PlaceIs
<1>3. DOMAIN M = 1 .. n /\ \A i \in 1 .. n : M[i] = IF i = k THEN [L[i] EXCEPT !.hi = x] ELSE L[i]
    BY <1>n, <1>1 DEF EndsAt
<1>h. ASSUME NEW r \in Locks, NEW b, b = [r EXCEPT !.hi = x] PROVE b \in Locks /\ b.id = r.id
    BY <1>h DEF Locks
<1>4. \A i \in 1 .. n : M[i] \in Locks /\ M[i].id = L[i].id
    <2>1. ASSUME NEW i \in 1 .. n PROVE M[i] \in Locks /\ M[i].id = L[i].id
        <3>1. L[i] \in Locks
            BY <1>n
        <3>2. M[i] = [L[i] EXCEPT !.hi = x] \/ M[i] = L[i]
            BY <1>3
        <3> QED
            BY <1>h, <3>1, <3>2
    <2> QED
        BY <2>1
<1>5. M \in Seq(Locks)
    <2>1. M = [i \in 1 .. n |-> M[i]]
        <3>1. M = [i \in DOMAIN M |-> M[i]]
            BY DEF EndsAt
        <3> QED
            BY <1>3, <3>1
    <2>2. M \in [1 .. n -> Locks]
        BY <1>4, <2>1
    <2> QED
        BY <2>2
<1>6. Distinct(M)
    BY <1>n, <1>3, <1>4 DEF Distinct
<1>7. Ids(M) = Ids(L)
    <2>1. Ids(M) = {M[i].id : i \in 1 .. n} /\ Ids(L) = {L[i].id : i \in 1 .. n}
        BY <1>n, <1>3 DEF Ids
    <2>2. Ids(M) \subseteq Ids(L)
        BY <1>4, <2>1
    <2>3. Ids(L) \subseteq Ids(M)
        BY <1>4, <2>1
    <2> QED
        BY <2>2, <2>3
<1>8. ASSUME NEW l \in Elems(L) PROVE l.id = id \/ l \in Elems(M)
    <2>1. PICK i \in 1 .. n : l = L[i]
        BY <1>n DEF Elems
    <2>2. CASE i = k
        BY <1>2, <2>1, <2>2
    <2>3. CASE i # k
        BY <1>3, <2>1, <2>3 DEF Elems
    <2> QED
        BY <2>2, <2>3
<1> QED
    BY <1>5, <1>6, <1>7, <1>8

\* The piece before the span
LEMMA ShortenKeeps ==
    ASSUME NEW a, NEW L, NEW F, Acc(a, L, F), NEW r, r.id \in F \cup Ids(L)
    PROVE  Acc(Shorten(a, r), L, F)
<1>1. CASE r.lo < a.lo
    <2>1. PICK b : b = Shorten(a, r)
        OBVIOUS
    <2>0. a.list \in Seq(Locks) /\ Distinct(a.list) /\ a.lo \in Int
        BY DEF Acc
    <2>2. PICK M : M = EndsAt(a.list, r.id, a.lo)
        OBVIOUS
    <2>3. /\ M \in Seq(Locks) /\ Distinct(M) /\ Ids(M) = Ids(a.list)
          /\ \A l \in Elems(a.list) : l.id = r.id \/ l \in Elems(M)
        BY <2>2, <2>0, Shortened
    <2>4. /\ DOMAIN b = Fields /\ b.list = M /\ b.free = a.free /\ b.woken = a.woken \cup {r.id}
          /\ b.lo = a.lo /\ b.hi = a.hi /\ b.out = a.out
        BY <1>1, <2>1, <2>2 DEF Shorten, EndsAt, Acc, Fields
    <2>5. b.free \cap Ids(M) = {} /\ b.free \cup Ids(M) = F \cup Ids(L)
        BY <2>3, <2>4 DEF Acc
    <2>6. b.lo \in Int /\ b.hi \in Int /\ b.out \in Outs
        BY <2>4 DEF Acc
    <2>7. \A l \in Elems(a.list) : l.id \in b.woken \/ l \in Elems(M)
        BY <2>3, <2>4
    <2> QED
        BY <2>1, <2>3, <2>4, <2>5, <2>6, <2>7, AccIs
<1>2. CASE ~(r.lo < a.lo)
    BY <1>2, DeleteKeeps DEF Shorten
<1> QED
    BY <1>1, <1>2

\* The walk has ended
LEMMA EndKeeps ==
    ASSUME NEW a, NEW L, NEW F, Acc(a, L, F), NEW o \in Outs
    PROVE  Acc([a EXCEPT !.out = o], L, F)
<1>1. PICK b : b = [a EXCEPT !.out = o]
    OBVIOUS
<1>2. /\ DOMAIN b = Fields /\ b.list = a.list /\ b.free = a.free /\ b.woken = a.woken
      /\ b.lo = a.lo /\ b.hi = a.hi /\ b.out = o
    BY <1>1 DEF Acc, Fields
<1> QED
    BY <1>1, <1>2 DEF Acc

\* A lock of the other type makes room for the span
LEMMA MakeRoomKeeps ==
    ASSUME NEW a, NEW L, NEW F, Acc(a, L, F), NEW r \in Locks, r.id \in F \cup Ids(L),
           F \cup Ids(L) \subseteq Recs
    PROVE  Acc(MakeRoom(a, r), L, F)
<1>0. r.hi \in Int /\ a.hi \in Int
    BY DEF Acc, Locks
<1>1. CASE r.hi <= a.hi
    <2>1. MakeRoom(a, r) = Shorten(a, r)
        BY <1>0, <1>1 DEF MakeRoom
    <2> QED
        BY <2>1, ShortenKeeps
<1>2. CASE r.hi > a.hi /\ a.free = {}
    <2>1. MakeRoom(a, r) = [a EXCEPT !.out = "nospace"]
        BY <1>0, <1>2 DEF MakeRoom
    <2>2. "nospace" \in Outs
        BY DEF Outs
    <2> QED
        BY <2>1, <2>2, EndKeeps
<1>3. CASE r.hi > a.hi /\ a.free # {}
    <2>1. MakeRoom(a, r) = Shorten(Sever(a, r), r)
        BY <1>0, <1>3 DEF MakeRoom
    <2> QED
        BY <1>3, <2>1, SeverKeeps, ShortenKeeps
<1> QED
    BY <1>0, <1>1, <1>2, <1>3

\* One turn of the loop
LEMMA AdjStepKeeps ==
    ASSUME NEW p, NEW type, NEW a, NEW L, NEW F, Acc(a, L, F), NEW r \in Locks, r.id \in F \cup Ids(L),
           F \cup Ids(L) \subseteq Recs
    PROVE  Acc(AdjStep(p, type, a, r), L, F)
<1>0. r.lo \in Int /\ r.hi \in Int /\ a.lo \in Int /\ a.hi \in Int
    BY DEF Acc, Locks
<1>1. CASE a.out # "go" \/ (r.pid # p /\ ~(r.lo > a.hi))
    <2>1. AdjStep(p, type, a, r) = a
        <3>1. CASE a.out # "go"
            BY <3>1 DEF AdjStep
        <3>2. CASE a.out = "go" /\ r.pid # p /\ ~(r.lo > a.hi)
            BY <3>2 DEF AdjStep
        <3> QED
            BY <1>1, <3>1, <3>2
    <2> QED
        BY <2>1
<1>2. CASE a.out = "go" /\ r.pid # p /\ r.lo > a.hi
    <2>1. AdjStep(p, type, a, r) = [a EXCEPT !.out = "stop"]
        BY <1>2 DEF AdjStep
    <2>2. "stop" \in Outs
        BY DEF Outs
    <2> QED
        BY <2>1, <2>2, EndKeeps
<1>3. CASE a.out = "go" /\ r.pid = p
    <2> DEFINE same == r.type = type
    <2>1. PICK b : b = AdjStep(p, type, a, r)
        OBVIOUS
    <2>2. \/ b = [a EXCEPT !.out = "stop"]
          \/ b = [a EXCEPT !.insrt = r.id]
          \/ b = [a EXCEPT !.out = "held"]
          \/ b = Join(a, r)
          \/ b = MakeRoom(a, r)
        <3>1. CASE same
            BY <1>0, <1>3, <2>1, <3>1 DEF AdjStep
        <3>2. CASE ~same
            BY <1>0, <1>3, <2>1, <3>2 DEF AdjStep
        <3> QED
            BY <3>1, <3>2
    <2>3. CASE b = [a EXCEPT !.insrt = r.id]
        <3>1. /\ DOMAIN b = Fields /\ b.list = a.list /\ b.free = a.free /\ b.woken = a.woken
              /\ b.lo = a.lo /\ b.hi = a.hi /\ b.out = a.out
            BY <2>3 DEF Acc, Fields
        <3> QED
            BY <2>1, <3>1 DEF Acc
    <2>4. CASE b = [a EXCEPT !.out = "stop"] \/ b = [a EXCEPT !.out = "held"]
        <3>1. "stop" \in Outs /\ "held" \in Outs
            BY DEF Outs
        <3> QED
            BY <2>1, <2>4, <3>1, EndKeeps
    <2>5. CASE b = Join(a, r)
        BY <2>1, <2>5, JoinKeeps
    <2>6. CASE b = MakeRoom(a, r)
        BY <2>1, <2>6, MakeRoomKeeps
    <2> QED
        BY <2>2, <2>3, <2>4, <2>5, <2>6
<1> QED
    BY <1>1, <1>2, <1>3

\* The new lock
LEMMA PutLockKeeps ==
    ASSUME NEW p \in Procs, NEW type \in Modes \cup {"unlock"}, NEW a, NEW L, NEW F, Acc(a, L, F),
           F \cup Ids(L) \subseteq Recs
    PROVE  Acc(PutLock(p, type, a), L, F)
<1>1. CASE type = "unlock" \/ a.out \in {"held", "nospace"}
    <2>1. PutLock(p, type, a) = a
        BY <1>1 DEF PutLock
    <2> QED
        BY <2>1
<1>2. CASE type # "unlock" /\ a.out \in {"go", "stop"} /\ a.free = {}
    <2>1. PutLock(p, type, a) = [a EXCEPT !.out = "nospace"]
        BY <1>2 DEF PutLock
    <2>2. "nospace" \in Outs
        BY DEF Outs
    <2> QED
        BY <2>1, <2>2, EndKeeps
<1>3. CASE type # "unlock" /\ a.out \in {"go", "stop"} /\ a.free # {}
    <2>1. PICK n \in a.free : n = First(a.free)
        BY <1>3, FirstIs
    <2>2. PICK new : new = [id |-> n, pid |-> p, type |-> type, lo |-> a.lo, hi |-> a.hi]
        OBVIOUS
    <2>3. n \in Recs /\ a.lo \in Int /\ a.hi \in Int /\ type \in Modes
        BY <1>3 DEF Acc
    <2>4. new \in Locks /\ new.id = n /\ new.id \in a.free
        BY <2>2, <2>3 DEF Locks
    <2>5. PICK i : i = Place(a.list, a.insrt)
        OBVIOUS
    <2>6. i \in 0 .. Len(a.list)
        BY <2>5, PlaceIs DEF Acc
    <2>7. PICK b : b = PutLock(p, type, a)
        OBVIOUS
    <2>8. b = [a EXCEPT !.list = InsertSorted(a.list, i, a.lo, new), !.free = a.free \ {new.id}]
        BY <1>3, <2>1, <2>2, <2>5, <2>7 DEF PutLock
    <2>9. /\ DOMAIN b = Fields /\ b.list = InsertSorted(a.list, i, a.lo, new)
          /\ b.free = a.free \ {new.id} /\ b.woken = a.woken /\ b.lo = a.lo /\ b.hi = a.hi
          /\ b.out \in Outs
        BY <2>8 DEF Fields, Outs, Acc
    <2> QED
        BY <2>4, <2>6, <2>7, <2>9, TakenKeeps
<1>4. a.out \in {"go", "stop", "held", "nospace"}
    BY DEF Acc, Outs
<1> QED
    BY <1>1, <1>2, <1>3, <1>4

\* The place where blocked() ends its first loop
LEMMA StopIs == ASSUME NEW T, NEW L \in Seq(T), NEW p, NEW w PROVE Stop(p, w, L) \in 1 .. Len(L) + 1
<1>n. PICK n \in Nat : n = Len(L)
    OBVIOUS
<1>1. PICK S : S = {i \in 1 .. Len(L) : \/ L[i].lo >= w.lo
                                        \/ L[i].pid = p /\ w.lo <= L[i].hi /\ w.hi >= L[i].lo}
    OBVIOUS
<1>2. PICK s : s = IF S # {} THEN Min(S) ELSE 0
    OBVIOUS
<1>3. Stop(p, w, L) = IF s = 0 THEN Len(L) + 1 ELSE s
    BY <1>1, <1>2 DEF Stop, SelectInSeq
<1>4. S \subseteq 1 .. n /\ S \subseteq Nat
    BY <1>1, <1>n
<1>5. S # {} => Min(S) \in 1 .. n
    BY <1>4, MinIs
<1>6. s \in 0 .. n
    BY <1>2, <1>5
<1> QED
    BY <1>3, <1>6, <1>n

\* The walk starts at a lock of the list or at its head
LEMMA InsrtIs ==
    ASSUME NEW L \in Seq(Locks), NEW p, NEW w PROVE Insrt(p, w, L) = NoRec \/ Insrt(p, w, L) \in Ids(L)
<1>n. PICK n \in Nat : n = Len(L) /\ DOMAIN L = 1 .. n
    OBVIOUS
<1>1. PICK s \in 1 .. n + 1 : s = Stop(p, w, L)
    BY <1>n, StopIs
<1>2. s \in 1 .. n => L[s].id \in Ids(L)
    BY <1>n DEF Ids
<1>3. s # 1 => L[s - 1].id \in Ids(L)
    <2>1. PICK m : m = s - 1
        OBVIOUS
    <2>2. s # 1 => m \in 1 .. n
        BY <2>1
    <2> QED
        BY <1>n, <2>1, <2>2 DEF Ids
<1> QED
    BY <1>1, <1>2, <1>3, <1>n DEF Insrt

\* All of flckadj
LEMMA AdjustKeeps ==
    ASSUME NEW p \in Procs, NEW w, w.type \in Modes \cup {"unlock"}, w.lo \in Int, w.hi \in Int,
           NEW L \in Seq(Locks), Distinct(L), NEW F \in SUBSET Recs, F \cap Ids(L) = {}
    PROVE  Acc(Adjust(p, w, L, F), L, F)
<1>n. PICK n \in Nat : n = Len(L) /\ DOMAIN L = 1 .. n
    OBVIOUS
<1>0. F \cup Ids(L) \subseteq Recs
    <2>1. \A i \in 1 .. n : L[i].id \in Recs
        <3>1. \A i \in 1 .. n : L[i] \in Locks
            BY <1>n
        <3> QED
            BY <3>1 DEF Locks
    <2> QED
        BY <1>n, <2>1 DEF Ids
<1>1. PICK insrt : insrt = IF w.type # "unlock" THEN Insrt(p, w, L)
                           ELSE IF L = <<>> THEN NoRec ELSE L[1].id
    OBVIOUS
<1>2. PICK start : start = [list |-> L, free |-> F, woken |-> {}, lo |-> w.lo, hi |-> w.hi,
                            insrt |-> insrt, out |-> "go"]
    OBVIOUS
<1>3. PICK k : k = IF insrt = NoRec THEN 1 ELSE Place(L, insrt)
    OBVIOUS
<1>4. PICK walk : walk = SubSeq(L, k, n)
    OBVIOUS
<1>5. Adjust(p, w, L, F) = PutLock(p, w.type, Walked(p, w.type, start, walk))
    BY <1>1, <1>2, <1>3, <1>4, <1>n DEF Adjust, Walked
<1>6. Acc(start, L, F)
    <2>1. DOMAIN start = Fields
        BY <1>2 DEF Fields
    <2>2. start.list = L /\ start.free = F /\ start.woken = {} /\ start.out \in Outs
        BY <1>2 DEF Outs
    <2>3. start.lo \in Int /\ start.hi \in Int
        BY <1>2
    <2> QED
        BY <2>1, <2>2, <2>3 DEF Acc
\* insrt is a record of the list, but the walk is one over its locks in any case
<1>7. k \in 1 .. n \/ (k = 1 /\ n = 0)
    <2>1. insrt = NoRec \/ insrt \in Ids(L)
        <3>1. CASE w.type # "unlock"
            BY <1>1, <3>1, InsrtIs
        <3>2. CASE w.type = "unlock" /\ n # 0
            BY <1>1, <1>n, <3>2 DEF Ids
        <3>3. CASE w.type = "unlock" /\ n = 0
            <4>1. L = <<>>
                BY <1>n, <3>3
            <4> QED
                BY <1>1, <3>3, <4>1
        <3> QED
            BY <3>1, <3>2, <3>3
    <2>2. CASE insrt = NoRec
        BY <1>3, <2>2
    <2>3. CASE insrt # NoRec
        BY <1>3, <1>n, <2>1, <2>3, PlaceIs
    <2> QED
        BY <2>2, <2>3
<1>8. walk \in Seq(Locks) /\ \A i \in 1 .. Len(walk) : walk[i] \in Elems(L)
    <2>1. walk \in Seq(Locks)
        BY <1>4, <1>7, <1>n
    <2>2. CASE n = 0
        <3>0. walk = SubSeq(L, 1, 0)
            BY <1>4, <1>7, <2>2
        <3>1. Len(walk) = 0
            BY <3>0
        <3> QED
            BY <2>1, <3>1
    <2>3. CASE n # 0
        <3>1. Len(walk) = n - k + 1 /\ \A i \in 1 .. n - k + 1 : walk[i] = L[k + i - 1]
            BY <1>4, <1>7, <1>n, <2>3
        <3>2. \A i \in 1 .. n - k + 1 : k + i - 1 \in 1 .. n
            BY <1>7, <2>3
        <3>3. \A i \in 1 .. n - k + 1 : walk[i] \in Elems(L)
            BY <1>n, <3>1, <3>2 DEF Elems
        <3> QED
            BY <2>1, <3>1, <3>3
    <2> QED
        BY <2>2, <2>3
<1>9. PICK h : IsLoop(h, p, w.type, start, walk) /\ Walked(p, w.type, start, walk) = h[Len(walk)]
    BY <1>8, Loop
<1>10. Acc(h[Len(walk)], L, F)
    <2> DEFINE T == {i \in 0 .. Len(walk) : Acc(h[i], L, F)}
    <2>0. Len(walk) \in Nat
        BY <1>8
    <2>1. 0 \in T
        BY <1>6, <1>9, <2>0 DEF IsLoop
    <2>2. ASSUME NEW i \in T, i < Len(walk) PROVE i + 1 \in T
        <3>1. PICK j : j = i + 1
            OBVIOUS
        <3>2. j \in 1 .. Len(walk) /\ j - 1 = i
            BY <2>0, <2>2, <3>1
        <3>3. h[j] = AdjStep(p, w.type, h[i], walk[j])
            BY <1>9, <3>2 DEF IsLoop
        <3>4. PICK r : r = walk[j]
            OBVIOUS
        <3>5. r \in Locks /\ r.id \in F \cup Ids(L)
            <4>1. r \in Elems(L)
                BY <1>8, <3>2, <3>4
            <4>2. PICK m \in 1 .. n : r = L[m]
                BY <1>n, <4>1 DEF Elems
            <4> QED
                BY <1>n, <4>2 DEF Ids
        <3>6. Acc(h[i], L, F)
            OBVIOUS
        <3>7. Acc(h[j], L, F)
            BY <1>0, <3>3, <3>4, <3>5, <3>6, AdjStepKeeps
        <3> QED
            BY <2>0, <3>1, <3>2, <3>7
    <2>3. \A i \in T : i \in Nat /\ i < Len(walk) => i + 1 \in T
        BY <2>2
    <2> HIDE DEF T
    <2>4. 0 .. Len(walk) \subseteq T
        BY <2>0, <2>1, <2>3, InductionTo
    <2>5. Len(walk) \in T
        BY <2>0, <2>4
    <2> QED
        BY <2>5 DEF T
<1> QED
    BY <1>0, <1>5, <1>9, <1>10, PutLockKeeps

-------------------------------------------------------------------------------
(* The records of the table                                                *)

LockReqs == [file : Files, type : Modes, lo : Int, hi : Int]

\* The wait of a process whose lock is l
InWay(q, l) == /\ l.id = wchan[q] /\ l.pid = blkpid[q]
               /\ l.pid # q /\ Overlap(l, want[q]) /\ Excludes(l, want[q])

\* Everything but the records
TableTypeOK ==
    /\ chain \in [Files -> Seq(Locks)]
    /\ DOMAIN want = Procs /\ DOMAIN sf = Procs /\ DOMAIN blkpid = Procs /\ DOMAIN wchan = Procs
    /\ \A q \in Procs : Waits(q) => want[q] \in LockReqs
    /\ \A q \in Procs : wchan[q] # NoRec => Waits(q)
TableInv == TableTypeOK /\ RecordsOnce /\ SleeperBlocked

\* Where a process sleeps, by the locks instead of their places
LEMMA SleeperIs ==
    ASSUME NEW q \in Procs, wchan[q] # NoRec, NEW L, L = chain[want[q].file]
    PROVE  (\E i \in DOMAIN L : LET l == L[i] IN /\ l.id = wchan[q]
                                                 /\ l.pid = blkpid[q]
                                                 /\ l.pid # q /\ Overlap(l, want[q]) /\ Excludes(l, want[q]))
           <=> \E l \in Elems(L) : InWay(q, l)
BY DEF Elems, InWay

\* The calls
LEMMA RequestIs ==
    ASSUME NEW p \in Procs
    PROVE  /\ \A w \in Requests(p) : w \in LockReqs /\ w # Idle
           /\ \A w \in Unlocks : w.file \in Files /\ w.type = "unlock" /\ w.lo \in Int /\ w.hi \in Int
<1>1. \A s \in Spans : s.lo \in Int /\ s.hi \in Int
    BY TableAssumption DEF Spans
<1>2. ASSUME NEW f \in Files, NEW m \in Modes \cup {"unlock"}, NEW s \in Spans, NEW w, w = Request(f, m, s)
      PROVE  /\ w.file = f /\ w.type = m /\ w.lo \in Int /\ w.hi \in Int /\ w # Idle
             /\ m \in Modes => w \in LockReqs
    <2>1. w = [file |-> f, type |-> m, lo |-> s.lo, hi |-> s.hi] /\ s.lo \in Int /\ s.hi \in Int
        BY <1>1, <1>2 DEF Request
    <2>2. w # Idle
        <3>1. "type" \in DOMAIN w /\ "type" \notin DOMAIN Idle
            BY <2>1 DEF Idle
        <3> QED
            BY <3>1
    <2> QED
        BY <2>1, <2>2 DEF LockReqs
<1>3. ASSUME NEW w \in Requests(p) PROVE w \in LockReqs /\ w # Idle
    <2>1. PICK f \in Files, s \in Spans, m \in Modes : w = Request(f, m, s)
        BY DEF Requests, Modes
    <2> QED
        BY <1>2, <2>1
<1>4. ASSUME NEW w \in Unlocks
      PROVE  w.file \in Files /\ w.type = "unlock" /\ w.lo \in Int /\ w.hi \in Int
    <2>1. PICK f \in Files, s \in Spans : w = Request(f, "unlock", s)
        BY DEF Unlocks
    <2> QED
        BY <1>2, <2>1
<1> QED
    BY <1>3, <1>4

\* What frlock has for p
LEMMA FreeIs ==
    ASSUME NEW p \in Procs
    PROVE  /\ Free(p) \subseteq Recs
           /\ \A f \in Files : Free(p) \cap Ids(chain[f]) = {}
           /\ \A q \in Procs \ {p} : sf[q] \notin Free(p)
<1>1. ASSUME NEW f \in Files, NEW n \in Free(p), n \in Ids(chain[f]) PROVE FALSE
    <2>1. Ids(chain[f]) \in {Ids(chain[g]) : g \in Files}
        OBVIOUS
    <2>2. n \in UNION {Ids(chain[g]) : g \in Files}
        BY <1>1, <2>1
    <2> QED
        BY <2>2 DEF Free
<1>2. Free(p) \subseteq Recs
    BY DEF Free
<1>3. ASSUME NEW q \in Procs \ {p}, sf[q] \in Free(p) PROVE FALSE
    <2>1. sf[q] \in {sf[r] : r \in Procs \ {p}}
        OBVIOUS
    <2> QED
        BY <1>3, <2>1 DEF Free
<1> QED
    BY <1>1, <1>2, <1>3

\* The lists are as they were, and so are the records of the sleepers or they are new
LEMMA RecordsKept ==
    ASSUME RecordsOnce, chain' = chain,
           \A q, r \in Procs : sf'[q] # NoRec /\ r # q => sf'[r] # sf'[q],
           \A q \in Procs : sf'[q] # NoRec => \A f \in Files : sf'[q] \notin Ids(chain[f])
    PROVE  RecordsOnce'
<1>1. \A f \in Files : \A i, j \in DOMAIN chain'[f] : chain'[f][i].id = chain'[f][j].id => i = j
    BY DEF RecordsOnce
<1>2. \A f, g \in Files : f # g => Ids(chain'[f]) \cap Ids(chain'[g]) = {}
    BY DEF RecordsOnce
<1>3. \A q \in Procs : sf'[q] # NoRec => \A f \in Files : sf'[q] \notin Ids(chain'[f])
    OBVIOUS
<1>4. \A q \in Procs : sf'[q] # NoRec => \A r \in Procs \ {q} : sf'[r] # sf'[q]
    OBVIOUS
<1> QED
    BY <1>1, <1>2, <1>3, <1>4 DEF RecordsOnce, Ids

\* flckadj, and the wakeup of those who slept on what it has changed
LEMMA AdjustedKeeps ==
    ASSUME TableInv, NEW p \in Procs, wchan[p] = NoRec, NEW w, w.file \in Files,
           w.type \in Modes \cup {"unlock"}, w.lo \in Int, w.hi \in Int, NEW refs, Adjusted(p, w, refs)
    PROVE  TableInv'
<1>1. PICK L : L = chain[w.file]
    OBVIOUS
<1>2. L \in Seq(Locks) /\ Distinct(L)
    BY <1>1 DEF TableInv, TableTypeOK, RecordsOnce, Distinct
<1>3. PICK a : /\ a = Adjust(p, w, L, Free(p))
               /\ chain' = [chain EXCEPT ![w.file] = a.list]
               /\ WakeUp(a.woken)
               /\ Return(p, w.file, refs)
    BY <1>1 DEF Adjusted
<1>4. Acc(a, L, Free(p))
    <2>1. Free(p) \in SUBSET Recs /\ Free(p) \cap Ids(L) = {}
        BY <1>1, FreeIs
    <2> QED
        BY <1>2, <1>3, <2>1, AdjustKeeps
<1>5. /\ a.list \in Seq(Locks) /\ Distinct(a.list)
      /\ Ids(a.list) \subseteq Free(p) \cup Ids(L)
      /\ \A l \in Elems(L) : l.id \in a.woken \/ l \in Elems(a.list)
    BY <1>4 DEF Acc
<1>6. /\ chain' \in [Files -> Seq(Locks)]
      /\ chain'[w.file] = a.list /\ \A f \in Files : f # w.file => chain'[f] = chain[f]
    BY <1>3, <1>5 DEF TableInv, TableTypeOK
<1>7. /\ DOMAIN want' = Procs /\ DOMAIN sf' = Procs /\ DOMAIN blkpid' = Procs
      /\ want'[p] = Idle /\ sf'[p] = NoRec
      /\ \A q \in Procs : q # p => want'[q] = want[q] /\ sf'[q] = sf[q] /\ blkpid'[q] = blkpid[q]
    BY <1>3 DEF Return, TableInv, TableTypeOK
<1>8. /\ DOMAIN wchan' = Procs /\ wchan'[p] = NoRec
      /\ \A q \in Procs : wchan'[q] # NoRec => /\ wchan'[q] = wchan[q]
                                               /\ wchan[q] \in wakeflg => wchan[q] \notin a.woken
      /\ wakeflg' = wakeflg \ a.woken
    BY <1>3 DEF WakeUp
<1>9. TableTypeOK'
    <2>1. \A q \in Procs : Waits(q)' => want'[q] \in LockReqs
        BY <1>7 DEF Waits, TableInv, TableTypeOK
    <2>2. \A q \in Procs : wchan'[q] # NoRec => Waits(q)'
        BY <1>7, <1>8 DEF Waits, TableInv, TableTypeOK
    <2>3. LockReqs' = LockReqs
        BY DEF LockReqs
    <2> QED
        BY <1>6, <1>7, <1>8, <2>1, <2>2 DEF TableTypeOK
<1>10. RecordsOnce'
    <2>1. ASSUME NEW f \in Files PROVE Distinct(chain'[f])
        <3>1. CASE f = w.file
            BY <1>5, <1>6, <3>1
        <3>2. CASE f # w.file
            BY <1>6, <3>2 DEF TableInv, RecordsOnce, Distinct
        <3> QED
            BY <3>1, <3>2
    <2>2. ASSUME NEW f \in Files, f # w.file PROVE Ids(chain[f]) \cap Ids(a.list) = {}
        <3>1. Ids(chain[f]) \cap Ids(L) = {}
            BY <1>1, <2>2 DEF TableInv, RecordsOnce
        <3>2. Ids(chain[f]) \cap Free(p) = {}
            BY FreeIs
        <3> QED
            BY <1>5, <3>1, <3>2
    <2>3. ASSUME NEW f \in Files, NEW g \in Files, f # g PROVE Ids(chain'[f]) \cap Ids(chain'[g]) = {}
        <3>1. CASE f = w.file
            BY <1>6, <2>2, <2>3, <3>1
        <3>2. CASE g = w.file
            BY <1>6, <2>2, <2>3, <3>2
        <3>3. CASE f # w.file /\ g # w.file
            BY <1>6, <2>3, <3>3 DEF TableInv, RecordsOnce
        <3> QED
            BY <3>1, <3>2, <3>3
    <2>4. ASSUME NEW q \in Procs, sf'[q] # NoRec
          PROVE  /\ \A f \in Files : sf'[q] \notin Ids(chain'[f])
                 /\ \A r \in Procs \ {q} : sf'[r] # sf'[q]
        <3>1. q # p /\ sf'[q] = sf[q]
            BY <1>7, <2>4
        <3>2. ASSUME NEW f \in Files PROVE sf[q] \notin Ids(chain'[f])
            <4>1. sf[q] \notin Ids(chain[f]) /\ sf[q] \notin Ids(L)
                BY <1>1, <2>4, <3>1 DEF TableInv, RecordsOnce
            <4>2. sf[q] \notin Free(p)
                BY <3>1, FreeIs
            <4> QED
                BY <1>5, <1>6, <4>1, <4>2
        <3>3. ASSUME NEW r \in Procs \ {q} PROVE sf'[r] # sf'[q]
            <4>1. sf[r] # sf[q]
                BY <2>4, <3>1 DEF TableInv, RecordsOnce
            <4> QED
                BY <1>7, <2>4, <3>1, <4>1
        <3> QED
            BY <3>1, <3>2, <3>3
    <2>5. \A f \in Files : \A i, j \in DOMAIN chain'[f] : chain'[f][i].id = chain'[f][j].id => i = j
        BY <2>1 DEF Distinct
    <2> QED
        BY <2>3, <2>4, <2>5 DEF RecordsOnce, Ids
<1>11. SleeperBlocked'
    <2>1. ASSUME NEW q \in Procs, wchan'[q] # NoRec
          PROVE  /\ wchan'[q] \in wakeflg'
                 /\ \E i \in DOMAIN chain'[want'[q].file] :
                        LET l == chain'[want'[q].file][i]
                        IN  /\ l.id = wchan'[q]
                            /\ l.pid = blkpid'[q]
                            /\ l.pid # q /\ Overlap(l, want'[q]) /\ Excludes(l, want'[q])
        <3>1. q # p /\ wchan'[q] = wchan[q] /\ wchan[q] # NoRec
            BY <1>8, <2>1
        <3>2. want'[q] = want[q] /\ blkpid'[q] = blkpid[q]
            BY <1>7, <3>1
        <3>3. wchan[q] \in wakeflg
            BY <3>1 DEF TableInv, SleeperBlocked
        <3>4. wchan[q] \notin a.woken /\ wchan'[q] \in wakeflg'
            BY <1>8, <2>1, <3>1, <3>3
        <3>5. PICK f \in Files : f = want[q].file
            BY <3>1 DEF TableInv, TableTypeOK, LockReqs
        <3>6. \E l \in Elems(chain[f]) : InWay(q, l)
            BY <3>1, <3>5, SleeperIs DEF TableInv, SleeperBlocked
        <3>7. \E l \in Elems(chain'[f]) : InWay(q, l)
            BY <1>1, <1>5, <1>6, <3>4, <3>6 DEF InWay
        <3>8. \E i \in DOMAIN chain'[f] : InWay(q, chain'[f][i])
            BY <3>7 DEF Elems
        <3> QED
            BY <3>1, <3>2, <3>4, <3>5, <3>8 DEF InWay
    <2> QED
        BY <2>1 DEF SleeperBlocked, Overlap, Excludes
<1> QED
    BY <1>9, <1>10, <1>11 DEF TableInv

\* A call that is refused
LEMMA RefusedKeeps ==
    ASSUME TableInv, NEW p \in Procs, wchan[p] = NoRec, NEW w, NEW refs, Refused(p, w, refs)
    PROVE  TableInv'
<1>1. chain' = chain /\ wakeflg' = wakeflg /\ wchan' = wchan
    BY DEF Refused, lockVars
<1>2. /\ DOMAIN want' = Procs /\ DOMAIN sf' = Procs /\ DOMAIN blkpid' = Procs
      /\ want'[p] = Idle /\ sf'[p] = NoRec
      /\ \A q \in Procs : q # p => want'[q] = want[q] /\ sf'[q] = sf[q] /\ blkpid'[q] = blkpid[q]
    BY DEF Refused, Return, TableInv, TableTypeOK
<1>3. TableTypeOK'
    <2>1. \A q \in Procs : Waits(q)' => want'[q] \in LockReqs
        BY <1>2 DEF Waits, TableInv, TableTypeOK
    <2>2. \A q \in Procs : wchan'[q] # NoRec => Waits(q)'
        BY <1>1, <1>2 DEF Waits, TableInv, TableTypeOK
    <2> QED
        BY <1>1, <1>2, <2>1, <2>2 DEF TableTypeOK, TableInv
<1>4. RecordsOnce'
    <2>1. \A q \in Procs : sf'[q] # NoRec => q # p /\ sf'[q] = sf[q]
        BY <1>2
    <2>2. \A q, r \in Procs : sf'[q] # NoRec /\ r # q => sf'[r] # sf'[q]
        BY <1>2 DEF TableInv, RecordsOnce
    <2>3. \A q \in Procs : sf'[q] # NoRec => \A f \in Files : sf'[q] \notin Ids(chain[f])
        BY <2>1 DEF TableInv, RecordsOnce
    <2> QED
        BY <1>1, <2>2, <2>3, RecordsKept DEF TableInv
<1>5. SleeperBlocked'
    <2>1. \A q \in Procs : wchan[q] # NoRec => want'[q] = want[q] /\ blkpid'[q] = blkpid[q]
        BY <1>2
    <2> QED
        BY <1>1, <2>1 DEF TableInv, SleeperBlocked, Overlap, Excludes
<1> QED
    BY <1>3, <1>4, <1>5 DEF TableInv

\* What blocked() finds is in the way
LEMMA BlockedIs ==
    ASSUME NEW L \in Seq(Locks), NEW p, NEW w, NEW i, i = Blocked(p, w, L), i # 0
    PROVE  i \in 1 .. Len(L) /\ L[i].pid # p /\ Overlap(L[i], w) /\ Excludes(L[i], w)
<1>n. PICK n \in Nat : n = Len(L)
    OBVIOUS
<1>1. PICK S : S = {j \in Stop(p, w, L) .. Len(L) : L[j].lo > w.hi}
    OBVIOUS
<1>2. PICK last : last = IF S # {} THEN Min(S) ELSE 0
    OBVIOUS
<1>3. PICK to : to = IF last = 0 THEN Len(L) ELSE last
    OBVIOUS
<1>4. PICK B : B = {j \in 1 .. to : L[j].pid # p /\ Overlap(L[j], w) /\ Excludes(L[j], w)}
    OBVIOUS
<1>5. Blocked(p, w, L) = IF B # {} THEN Min(B) ELSE 0
    BY <1>1, <1>2, <1>3, <1>4 DEF Blocked, SelectInSubSeq
<1>6. to \in 0 .. n
    <2>1. Stop(p, w, L) \in 1 .. n + 1
        BY <1>n, StopIs
    <2>2. S \subseteq 1 .. n /\ S \subseteq Nat
        BY <1>1, <1>n, <2>1
    <2>3. S # {} => Min(S) \in 1 .. n
        BY <2>2, MinIs
    <2> QED
        BY <1>2, <1>3, <1>n, <2>3
<1>7. B \subseteq Nat
    BY <1>4, <1>6
<1>8. i \in B
    BY <1>5, <1>7, MinIs
<1>9. i \in 1 .. n
    BY <1>4, <1>6, <1>8
<1> QED
    BY <1>4, <1>8, <1>9, <1>n

\* A process goes to sleep on a lock
LEMMA BlockKeeps ==
    ASSUME TableInv, NEW p \in Procs, wchan[p] = NoRec, NEW w \in LockReqs, w # Idle, Free(p) # {},
           NEW i, i = Blocked(p, w, chain[w.file]), i # 0, NEW refs,
           Block(p, w, chain[w.file][i], refs)
    PROVE  TableInv'
<1>1. PICK L \in Seq(Locks) : L = chain[w.file]
    BY DEF TableInv, TableTypeOK, LockReqs
<1>2. i \in 1 .. Len(L) /\ L[i].pid # p /\ Overlap(L[i], w) /\ Excludes(L[i], w)
    BY <1>1, BlockedIs
<1>3. PICK l : l = L[i]
    OBVIOUS
<1>4. l \in Locks /\ l \in Elems(L)
    BY <1>1, <1>2, <1>3 DEF Elems
<1>5. PICK n \in Free(p) : n = First(Free(p))
    BY FirstIs
<1>6. chain' = chain /\ wakeflg' = wakeflg \cup {l.id}
    BY <1>1, <1>3 DEF Block
<1>7. /\ DOMAIN want' = Procs /\ DOMAIN sf' = Procs /\ DOMAIN blkpid' = Procs /\ DOMAIN wchan' = Procs
      /\ want'[p] = w /\ sf'[p] = n /\ blkpid'[p] = l.pid /\ wchan'[p] = l.id
      /\ \A q \in Procs : q # p => /\ want'[q] = want[q] /\ sf'[q] = sf[q]
                                   /\ blkpid'[q] = blkpid[q] /\ wchan'[q] = wchan[q]
    BY <1>1, <1>3, <1>5 DEF Block, TableInv, TableTypeOK
<1>8. TableTypeOK'
    <2>1. \A q \in Procs : Waits(q)' => want'[q] \in LockReqs
        BY <1>7 DEF Waits, TableInv, TableTypeOK
    <2>2. \A q \in Procs : wchan'[q] # NoRec => Waits(q)'
        BY <1>7 DEF Waits, TableInv, TableTypeOK
    <2> QED
        BY <1>6, <1>7, <2>1, <2>2 DEF TableTypeOK, TableInv
<1>9. RecordsOnce'
    <2>1. (\A f \in Files : n \notin Ids(chain[f])) /\ \A q \in Procs \ {p} : sf[q] # n
        BY FreeIs
    <2>2. \A q, r \in Procs : sf'[q] # NoRec /\ r # q => sf'[r] # sf'[q]
        BY <1>7, <2>1 DEF TableInv, RecordsOnce
    <2>3. \A q \in Procs : sf'[q] # NoRec => \A f \in Files : sf'[q] \notin Ids(chain[f])
        BY <1>7, <2>1 DEF TableInv, RecordsOnce
    <2> QED
        BY <1>6, <2>2, <2>3, RecordsKept DEF TableInv
<1>10. SleeperBlocked'
    <2>1. ASSUME NEW q \in Procs, wchan'[q] # NoRec
          PROVE  /\ wchan'[q] \in wakeflg'
                 /\ \E j \in DOMAIN chain[want'[q].file] :
                        LET m == chain[want'[q].file][j]
                        IN  /\ m.id = wchan'[q]
                            /\ m.pid = blkpid'[q]
                            /\ m.pid # q /\ Overlap(m, want'[q]) /\ Excludes(m, want'[q])
        <3>1. CASE q = p
            <4>1. i \in DOMAIN chain[want'[q].file] /\ chain[want'[q].file][i] = l
                BY <1>1, <1>2, <1>3, <1>7, <3>1
            <4>2. l.id = wchan'[q] /\ l.pid = blkpid'[q] /\ l.pid # q
                BY <1>2, <1>3, <1>7, <3>1
            <4>3. Overlap(l, want'[q]) /\ Excludes(l, want'[q])
                BY <1>2, <1>3, <1>7, <3>1
            <4> QED
                BY <1>6, <4>1, <4>2, <4>3
        <3>2. CASE q # p
            <4>1. want'[q] = want[q] /\ blkpid'[q] = blkpid[q] /\ wchan'[q] = wchan[q]
                BY <1>7, <3>2
            <4> QED
                BY <1>6, <2>1, <4>1 DEF TableInv, SleeperBlocked
        <3> QED
            BY <3>1, <3>2
    <2> QED
        BY <1>6, <2>1 DEF SleeperBlocked, Overlap, Excludes
<1> QED
    BY <1>8, <1>9, <1>10 DEF TableInv

\* A turn of setflck's loop
LEMMA TurnKeeps ==
    ASSUME TableInv, NEW p \in Procs, wchan[p] = NoRec, NEW w \in LockReqs, w # Idle, NEW refs,
           Turn(p, w, refs)
    PROVE  TableInv'
<1>1. PICK i \in {Blocked(p, w, chain[w.file])} :
        \/ Adjusted(p, w, refs)
        \/ Refused(p, w, refs)
        \/ i # 0 /\ Free(p) # {} /\ Block(p, w, chain[w.file][i], refs)
    BY DEF Turn
<1>2. w.file \in Files /\ w.type \in Modes /\ w.lo \in Int /\ w.hi \in Int
    BY DEF LockReqs
<1>3. CASE Adjusted(p, w, refs)
    BY <1>2, <1>3, AdjustedKeeps
<1>4. CASE Refused(p, w, refs)
    BY <1>4, RefusedKeeps
<1>5. CASE i # 0 /\ Free(p) # {} /\ Block(p, w, chain[w.file][i], refs)
    BY <1>5, BlockKeeps
<1> QED
    BY <1>1, <1>3, <1>4, <1>5

\* No step loses a record or a wakeup
LEMMA NextRecords == TableInv /\ [Next]_vars => TableInv'
<1> SUFFICES ASSUME TableInv, [Next]_vars PROVE TableInv'
    OBVIOUS
<1>0. \A p \in Procs : ~Waits(p) => wchan[p] = NoRec
    BY DEF TableInv, TableTypeOK
<1>1. ASSUME NEW p \in Procs, NEW w \in Requests(p), SetLock(p, w) PROVE TableInv'
    <2>1. w \in LockReqs /\ w # Idle
        BY RequestIs
    <2>2. wchan[p] = NoRec /\ Turn(p, w, refcnt[w.file])
        BY <1>0, <1>1 DEF SetLock
    <2> QED
        BY <2>1, <2>2, TurnKeeps
<1>2. ASSUME NEW p \in Procs, NEW w \in Unlocks, Unlock(p, w) PROVE TableInv'
    <2>1. w.file \in Files /\ w.type = "unlock" /\ w.lo \in Int /\ w.hi \in Int
        BY RequestIs
    <2>2. wchan[p] = NoRec /\ Adjusted(p, w, refcnt[w.file])
        BY <1>0, <1>2 DEF Unlock
    <2> QED
        BY <2>1, <2>2, AdjustedKeeps
<1>3. ASSUME NEW p \in Procs, Retry(p) PROVE TableInv'
    <2>1. want[p] \in LockReqs /\ want[p] # Idle /\ wchan[p] = NoRec
        BY <1>3 DEF Retry, Runnable, Waits, TableInv, TableTypeOK
    <2>2. Turn(p, want[p], refcnt[want[p].file] - 1)
        BY <1>3 DEF Retry
    <2> QED
        BY <2>1, <2>2, TurnKeeps
<1>4. ASSUME NEW p \in Procs, Signal(p) PROVE TableInv'
    <2>1. /\ DOMAIN wchan' = Procs /\ wchan'[p] = NoRec
          /\ \A q \in Procs : q # p => wchan'[q] = wchan[q]
          /\ chain' = chain /\ wakeflg' = wakeflg /\ want' = want /\ sf' = sf /\ blkpid' = blkpid
        BY <1>4 DEF Signal, lockVars, TableInv, TableTypeOK
    <2>2. TableTypeOK'
        BY <2>1 DEF TableInv, TableTypeOK, Waits
    <2>3. RecordsOnce'
        <3>1. \A q, r \in Procs : sf'[q] # NoRec /\ r # q => sf'[r] # sf'[q]
            BY <2>1 DEF TableInv, RecordsOnce
        <3>2. \A q \in Procs : sf'[q] # NoRec => \A f \in Files : sf'[q] \notin Ids(chain[f])
            BY <2>1 DEF TableInv, RecordsOnce
        <3> QED
            BY <2>1, <3>1, <3>2, RecordsKept DEF TableInv
    <2>4. SleeperBlocked'
        <3>1. \A q \in Procs : wchan'[q] # NoRec => wchan'[q] = wchan[q]
            BY <2>1
        <3> QED
            BY <2>1, <3>1 DEF TableInv, SleeperBlocked, Overlap, Excludes
    <2> QED
        BY <2>2, <2>3, <2>4 DEF TableInv
<1>5. ASSUME NEW p \in Procs, Interrupted(p) PROVE TableInv'
    BY <1>5, RefusedKeeps DEF Interrupted, Runnable
<1>6. CASE UNCHANGED vars
    <2>1. /\ chain' = chain /\ wakeflg' = wakeflg /\ want' = want /\ sf' = sf /\ blkpid' = blkpid
          /\ wchan' = wchan
        BY <1>6 DEF vars, lockVars, waitVars
    <2>2. TableTypeOK'
        BY <2>1 DEF TableInv, TableTypeOK, Waits
    <2>3. RecordsOnce'
        <3>1. \A q, r \in Procs : sf'[q] # NoRec /\ r # q => sf'[r] # sf'[q]
            BY <2>1 DEF TableInv, RecordsOnce
        <3>2. \A q \in Procs : sf'[q] # NoRec => \A f \in Files : sf'[q] \notin Ids(chain[f])
            BY <2>1 DEF TableInv, RecordsOnce
        <3> QED
            BY <2>1, <3>1, <3>2, RecordsKept DEF TableInv
    <2>4. SleeperBlocked'
        BY <2>1 DEF TableInv, SleeperBlocked, Overlap, Excludes
    <2> QED
        BY <2>2, <2>3, <2>4 DEF TableInv
<1> QED
    BY <1>1, <1>2, <1>3, <1>4, <1>5, <1>6 DEF Next

\* The first state
LEMMA InitRecords == Init => TableInv
<1> SUFFICES ASSUME Init PROVE TableInv
    OBVIOUS
<1>1. chain \in [Files -> Seq(Locks)] /\ \A f \in Files : DOMAIN chain[f] = {}
    BY DEF Init
<1>2. \A f \in Files : Ids(chain[f]) = {}
    BY <1>1 DEF Ids
<1>3. \A p \in Procs : sf[p] = NoRec /\ wchan[p] = NoRec /\ ~Waits(p)
    BY DEF Init, Waits
<1>4. DOMAIN want = Procs /\ DOMAIN sf = Procs /\ DOMAIN blkpid = Procs /\ DOMAIN wchan = Procs
    BY DEF Init
<1> QED
    BY <1>1, <1>2, <1>3, <1>4 DEF TableInv, TableTypeOK, RecordsOnce, SleeperBlocked

\* A record of the table is free, in one list once, or the record of one sleeper
\* (insflck and delflck, flock.c:187-246, and setflck's use of sleeplcks), whatever
\* flckadj does to the lists.
THEOREM RecordsOnceHolds == Spec => []RecordsOnce
<1>1. TableInv => RecordsOnce
    BY DEF TableInv
<1> QED
    BY <1>1, InitRecords, NextRecords, PTL DEF Spec

\* No wakeup is lost: a process that sleeps in setflck (flock.c:622-629) sleeps on a lock
\* that is still in its way, and flckadj will see that somebody sleeps on it.
THEOREM SleepersBlocked == Spec => []SleeperBlocked
<1>1. TableInv => SleeperBlocked
    BY DEF TableInv
<1> QED
    BY <1>1, InitRecords, NextRecords, PTL DEF Spec

=============================================================================
