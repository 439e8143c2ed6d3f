-------------------------------- MODULE Flock --------------------------------
(***************************************************************************)
(* Record locks of local files: COMMON/os/flock.c.  The locks of a file    *)
(* are a list, sorted by their start, of records from a table that all     *)
(* files share (frlock); a process that waits for a lock has a record of   *)
(* that table in sleeplcks, and deadlocks are looked for there.            *)
(*                                                                         *)
(* The kernel is not preemptive and setflck sleeps in one place only: an   *)
(* action is one turn of its loop, from the call or from the wakeup to the *)
(* sleep or to the return.  A lock covers the positions lo <= x < hi.      *)
(***************************************************************************)
EXTENDS Integers, FiniteSets, SequencesExt

CONSTANTS Procs,     \* the processes
          Readers,   \* those that ask for read locks too
          Files,     \* the files that are locked
          End,       \* MAXEND
          Recs,      \* the records of the table (flckinfo.recs)
          Fils       \* the size of the table of files (flckinfo.fils)

NoProc == "noproc"
NoRec  == 0

ASSUME TableAssumption == /\ IsFiniteSet(Recs) /\ Recs \subseteq Nat \ {NoRec}
                          /\ NoProc \notin Procs /\ Readers \subseteq Procs
                          /\ End \in Nat \ {0} /\ Fils \in Nat

Modes == {"read", "write"}
Spans == {s \in [lo : 0 .. End - 1, hi : 1 .. End] : s.lo < s.hi}

\* The struct flock of a call
Request(f, m, s) == [file |-> f, type |-> m, lo |-> s.lo, hi |-> s.hi]
Requests(p) == {Request(f, m, s) : f \in Files, s \in Spans,
                                   m \in IF p \in Readers THEN Modes ELSE {"write"}}
Unlocks == {Request(f, "unlock", s) : f \in Files, s \in Spans}

VARIABLES
    chain,     \* the list of locks of a file (fl_flck)
    wakeflg,   \* the records that somebody has slept on
    refcnt,    \* fl_refcnt
    fids,      \* the files that have an entry in the table of files
    want,      \* the request of a process that waits
    sf,        \* its record in sleeplcks
    blkpid,    \* and the owner of the lock it was blocked by
    wchan      \* the record it sleeps on, NoRec when it has been woken

lockVars == <<chain, wakeflg>>
fileVars == <<refcnt, fids>>
waitVars == <<want, sf, blkpid, wchan>>
vars == <<lockVars, fileVars, waitVars>>

Idle == [file |-> NoRec]
Waits(p) == want[p] # Idle

Init ==
    /\ chain = [f \in Files |-> <<>>]
    /\ wakeflg = {}
    /\ refcnt = [f \in Files |-> 0]
    /\ fids = {}
    /\ want = [p \in Procs |-> Idle]
    /\ sf = [p \in Procs |-> NoRec]
    /\ blkpid = [p \in Procs |-> NoProc]
    /\ wchan = [p \in Procs |-> NoRec]

-------------------------------------------------------------------------------
(* The lists                                                               *)

Ids(L) == {L[i].id : i \in DOMAIN L}

\* Slip: The records of the sleepers are taken for free ones
FreeOfLists(p) == Recs \ UNION {Ids(chain[f]) : f \in Files}

\* frlock, when p has given up its record in sleeplcks; which record of it is taken
\* next is immaterial
Free(p) == Recs \ ((UNION {Ids(chain[f]) : f \in Files}) \cup {sf[q] : q \in Procs \ {p}})
First(S) == CHOOSE r \in S : TRUE

Place(L, id) == SelectInSeq(L, LAMBDA l : l.id = id)
Before(L, id) == IF Place(L, id) = 1 THEN NoRec ELSE L[Place(L, id) - 1].id

Overlap(l, w) == w.lo < l.hi /\ w.hi > l.lo

\* Slip: A read lock does not exclude a write lock
ExcludesWriter(l, w) == l.type = "write"
Excludes(l, w) == "write" \in {l.type, w.type}

\* A walk from the record at i, past those that start before x, and insflck of r there;
\* insflck puts it first when there is no i (i = 0)
InsertSorted(L, i, x, r) ==
    LET stop == IF i = 0 THEN 0 ELSE SelectInSubSeq(L, i, Len(L), LAMBDA l : l.lo >= x)
        at   == IF stop = 0 /\ i # 0 THEN Len(L) + 1 ELSE stop
    IN  InsertAt(L, IF at > i THEN at ELSE i + 1, r)

\* Where the first loop of blocked() stops: at a lock that does not start before the
\* request, or at one of p's own that touches it
Stop(p, w, L) ==
    LET s == SelectInSeq(L, LAMBDA l : \/ l.lo >= w.lo
                                       \/ l.pid = p /\ w.lo <= l.hi /\ w.hi >= l.lo)
    IN  IF s = 0 THEN Len(L) + 1 ELSE s

\* blocked(): the place of the first lock in the way, 0 if there is none.  The second
\* loop ends at the first lock that starts behind the request.
Blocked(p, w, L) ==
    LET last == SelectInSubSeq(L, Stop(p, w, L), Len(L), LAMBDA l : l.lo > w.hi)
    IN  SelectInSubSeq(L, 1, IF last = 0 THEN Len(L) ELSE last,
                       LAMBDA l : l.pid # p /\ Overlap(l, w) /\ Excludes(l, w))

\* *insrt: the lock behind which the new one goes
Insrt(p, w, L) ==
    LET s == Stop(p, w, L)
    IN  IF s <= Len(L) /\ L[s].lo < w.lo THEN L[s].id
        ELSE IF s = 1 THEN NoRec ELSE L[s - 1].id

-------------------------------------------------------------------------------
(* flckadj: the locks of the calling process that meet the (un)lock are    *)
(* joined to it or make room for it.  The state of its walk is a record:   *)
(* the list, the free records, the records that were passed to WAKEUP, the *)
(* span of the (un)lock, the place for it, and how the walk ended.         *)

\* Slip: insrt is left at the record that is freed
DeleteUnderInsrt(a, r) ==
    [a EXCEPT !.list  = RemoveAt(a.list, Place(a.list, r.id)),
              !.free  = a.free \cup {r.id},
              !.woken = a.woken \cup {r.id}]

\* delflck of r; insrt moves to the record before it
Delete(a, r) ==
    LET before == Before(a.list, r.id)
    IN  [a EXCEPT !.list  = RemoveAt(a.list, Place(a.list, r.id)),
                  !.free  = a.free \cup {r.id},
                  !.woken = a.woken \cup {r.id},
                  !.insrt = IF r.lo <= a.lo \/ a.insrt = r.id THEN before ELSE a.insrt]

\* A lock of the same type that meets the span becomes a part of it
Join(a, r) ==
    [Delete(a, r) EXCEPT !.lo  = IF r.lo < a.lo THEN r.lo ELSE a.lo,
                         !.hi  = IF r.hi > a.hi THEN r.hi ELSE a.hi,
                         !.out = IF r.hi >= a.hi THEN "stop" ELSE "go"]

\* Slip: The piece behind the span starts where the span starts
SeverAtStart(a, r) ==
    LET td == [r EXCEPT !.id = First(a.free), !.lo = a.lo]
    IN  [a EXCEPT !.list = InsertSorted(a.list, Place(a.list, r.id), a.lo, td),
                  !.free = a.free \ {td.id},
                  !.out  = "stop"]

\* The piece of r behind the span is put where the *span* belongs in the list
Sever(a, r) ==
    LET td == [r EXCEPT !.id = First(a.free), !.lo = a.hi]
    IN  [a EXCEPT !.list = InsertSorted(a.list, Place(a.list, r.id), a.lo, td),
                  !.free = a.free \ {td.id},
                  !.out  = "stop"]

\* Slip: A lock is shortened without a WAKEUP
ShortenQuietly(a, r) ==
    IF r.lo < a.lo
    THEN [a EXCEPT !.list[Place(a.list, r.id)].hi = a.lo, !.insrt = r.id]
    ELSE Delete(a, r)

\* The piece of r before the span stays where r was
Shorten(a, r) ==
    IF r.lo < a.lo
    THEN [a EXCEPT !.list[Place(a.list, r.id)].hi = a.lo,
                   !.woken = a.woken \cup {r.id},
                   !.insrt = r.id]
    ELSE Delete(a, r)

MakeRoom(a, r) ==
    CASE r.hi <= a.hi              -> Shorten(a, r)
      [] r.hi > a.hi /\ a.free = {} -> [a EXCEPT !.out = "nospace"]
      [] OTHER                     -> Shorten(Sever(a, r), r)

\* One turn of flckadj's loop, for the regions of regflck
AdjStep(p, type, a, r) ==
    LET same == r.type = type
    IN  CASE a.out # "go" -> a
          [] a.out = "go" /\ r.pid # p -> IF r.lo > a.hi THEN [a EXCEPT !.out = "stop"] ELSE a
          [] OTHER ->
             CASE a.hi < r.lo \/ (a.hi = r.lo /\ ~same)     -> [a EXCEPT !.out = "stop"]
               [] a.lo > r.hi                               -> [a EXCEPT !.insrt = r.id]
               [] same /\ r.lo <= a.lo /\ a.hi <= r.hi      -> [a EXCEPT !.out = "held"]
               [] same /\ ~(r.lo <= a.lo /\ a.hi <= r.hi)
                       /\ r.lo <= a.hi /\ a.lo <= r.hi      -> Join(a, r)
               [] ~same /\ r.lo < a.hi /\ a.lo <= r.hi      -> MakeRoom(a, r)

\* The new lock goes in behind insrt
PutLock(p, type, a) ==
    LET new == [id |-> First(a.free), pid |-> p, type |-> type, lo |-> a.lo, hi |-> a.hi]
    IN  CASE type = "unlock" \/ a.out \in {"held", "nospace"} -> a
          [] type # "unlock" /\ a.out \in {"go", "stop"} /\ a.free = {} ->
                 [a EXCEPT !.out = "nospace"]
          [] OTHER -> [a EXCEPT !.list = InsertSorted(a.list, Place(a.list, a.insrt), a.lo, new),
                                !.free = a.free \ {new.id}]

\* flckadj from the record that blocked() found, or from the head for an unlock
Adjust(p, w, L, free) ==
    LET insrt == IF w.type # "unlock" THEN Insrt(p, w, L)
                 ELSE IF L = <<>> THEN NoRec ELSE L[1].id
        start == [list |-> L, free |-> free, woken |-> {}, lo |-> w.lo, hi |-> w.hi,
                  insrt |-> insrt, out |-> "go"]
        walk  == SubSeq(L, IF insrt = NoRec THEN 1 ELSE Place(L, insrt), Len(L))
    IN  PutLock(p, w.type, FoldLeft(LAMBDA a, r : AdjStep(p, w.type, a, r), start, walk))

-------------------------------------------------------------------------------
(* setflck                                                                 *)

\* Slip: wakeup_one instead of wakeup
WakeUpOne(S) ==
    LET Q == {q \in Procs : wchan[q] \in S \cap wakeflg}
    IN  /\ wchan' = [q \in Procs |-> IF Q # {} /\ q = First(Q) THEN NoRec ELSE wchan[q]]
        /\ wakeflg' = wakeflg \ S

\* WAKEUP of the records S, of which the processes in Q may have slept on some
WakeUp(S) == /\ wchan' = [q \in Procs |-> IF wchan[q] \in S \cap wakeflg THEN NoRec ELSE wchan[q]]
             /\ wakeflg' = wakeflg \ S

\* Slip: deadflck looks at the owner of the lock only, not at whom that one waits for
DeadlockNear(p, q) == q = p

\* deadflck: the processes that are waited for, from q on, lead back to p.  (Its walk
\* through sleeplcks reaches p when p is in every set that the walk cannot leave.)
Deadlock(p, q) ==
    \A S \in SUBSET Procs :
        q \in S /\ (\A r \in S \ {p} : sf[r] # NoRec => blkpid[r] \in S) => p \in S

\* findfid, or allocfid when the file has no entry
HaveFid(f) == f \in fids \/ Cardinality(fids) < Fils

\* Slip: The entry of a file is freed although it has locks
ReleaseEarly(f, refs) ==
    /\ refcnt' = [refcnt EXCEPT ![f] = refs]
    /\ fids' = IF refs = 0 THEN fids \ {f} ELSE fids \cup {f}

\* freelfid by the caller, when others hold refs references
Release(f, refs) ==
    /\ refcnt' = [refcnt EXCEPT ![f] = refs]
    /\ fids' = IF refs = 0 /\ chain'[f] = <<>> THEN fids \ {f} ELSE fids \cup {f}

Return(p, f, refs) ==
    /\ Release(f, refs)
    /\ want' = [want EXCEPT ![p] = Idle]
    /\ sf' = [sf EXCEPT ![p] = NoRec]
    /\ blkpid' = [blkpid EXCEPT ![p] = NoProc]

\* flckadj, for a lock (the span is free) or for an unlock
Adjusted(p, w, refs) ==
    \E a \in {Adjust(p, w, chain[w.file], Free(p))} :
        /\ chain' = [chain EXCEPT ![w.file] = a.list]
        /\ WakeUp(a.woken)
        /\ Return(p, w.file, refs)

\* EDEADLK, ENOSPC and EINTR: nothing but p's own records changes
Refused(p, w, refs) == UNCHANGED <<lockVars, wchan>> /\ Return(p, w.file, refs)

\* Slip: the owner of the lock is not told that somebody sleeps on it
BlockUnflagged(p, w, l, refs) ==
    /\ sf' = [sf EXCEPT ![p] = First(Free(p))]
    /\ blkpid' = [blkpid EXCEPT ![p] = l.pid]
    /\ want' = [want EXCEPT ![p] = w]
    /\ wchan' = [wchan EXCEPT ![p] = l.id]
    /\ refcnt' = [refcnt EXCEPT ![w.file] = refs + 1]
    /\ fids' = fids \cup {w.file}
    /\ UNCHANGED lockVars

Block(p, w, l, refs) ==
    /\ sf' = [sf EXCEPT ![p] = First(Free(p))]
    /\ blkpid' = [blkpid EXCEPT ![p] = l.pid]
    /\ want' = [want EXCEPT ![p] = w]
    /\ wakeflg' = wakeflg \cup {l.id}
    /\ wchan' = [wchan EXCEPT ![p] = l.id]
    /\ refcnt' = [refcnt EXCEPT ![w.file] = refs + 1]
    /\ fids' = fids \cup {w.file}
    /\ UNCHANGED chain

\* One turn of the loop
Turn(p, w, refs) ==
    \E i \in {Blocked(p, w, chain[w.file])} :
        \/ i = 0 /\ Adjusted(p, w, refs)
        \/ /\ i # 0
           /\ Deadlock(p, chain[w.file][i].pid) \/ Free(p) = {}
           /\ Refused(p, w, refs)
        \/ /\ i # 0
           /\ ~Deadlock(p, chain[w.file][i].pid) /\ Free(p) # {}
           /\ Block(p, w, chain[w.file][i], refs)

-------------------------------------------------------------------------------
(* fcntl                                                                   *)

\* F_SETLKW.  F_SETLK is the first alternative of Turn, and EACCES, which changes
\* nothing, where F_SETLKW would sleep.
SetLock(p, w) == /\ ~Waits(p)
                 /\ HaveFid(w.file)
                 /\ Turn(p, w, refcnt[w.file])

\* F_UNLCK, and the close of a descriptor of a file the process has locked, which
\* unlocks it all.  Nothing happens to a file without an entry.
Unlock(p, w) == /\ ~Waits(p)
                /\ w.file \in fids
                /\ Adjusted(p, w, refcnt[w.file])

Runnable(p) == Waits(p) /\ wchan[p] = NoRec

\* The process has been woken up, runs, and gives its record in sleeplcks back
Retry(p) == /\ Runnable(p)
            /\ Turn(p, want[p], refcnt[want[p].file] - 1)

\* A signal takes a process off the sleep queue
Signal(p) == /\ wchan[p] # NoRec
             /\ wchan' = [wchan EXCEPT ![p] = NoRec]
             /\ UNCHANGED <<lockVars, fileVars, want, sf, blkpid>>

\* Slip: The error path of a signal forgets freelfid
InterruptedLeak(p) == /\ Runnable(p)
                      /\ Refused(p, want[p], refcnt[want[p].file])

\* EINTR: the process runs and has got a signal
Interrupted(p) == /\ Runnable(p)
                  /\ Refused(p, want[p], refcnt[want[p].file] - 1)

Next == \E p \in Procs :
            \/ \E w \in Requests(p) : SetLock(p, w)
            \/ \E w \in Unlocks : Unlock(p, w)
            \/ Retry(p)
            \/ Signal(p)
            \/ Interrupted(p)

Spec == Init /\ [][Next]_vars

\* The scheduler runs every runnable process in the end: no process is runnable for ever
\* without running.  (A run ends in Retry or Interrupted, and both make it stop being
\* runnable.)
LiveSpec == Spec /\ \A p \in Procs : []<>~Runnable(p)

-------------------------------------------------------------------------------
(* Properties                                                              *)

\* A list is what blocked() and flckadj rely on: sorted by start, and of the locks of
\* one process no two meet or touch without being of different types.
InOrder(L) ==
    \A i, j \in DOMAIN L : i < j =>
        /\ L[i].lo <= L[j].lo
        /\ L[i].pid = L[j].pid => \/ L[i].hi < L[j].lo
                                  \/ L[i].hi = L[j].lo /\ L[i].type # L[j].type
ListsInOrder == \A f \in Files : InOrder(chain[f])

\* The lock that a process has on a position of a list
Held(L, p, b) ==
    LET i == SelectInSeq(L, LAMBDA l : l.pid = p /\ l.lo <= b /\ b < l.hi)
    IN  IF i = 0 THEN "none" ELSE L[i].type

\* No two processes have locks on one position unless both are read locks.
NoConflict ==
    \A f \in Files : \A i, j \in DOMAIN chain[f] :
        LET l == chain[f][i]
            m == chain[f][j]
        IN  l.pid # m.pid /\ Overlap(l, m) => l.type = "read" /\ m.type = "read"

\* Whatever a list looks like by now, a lock or an unlock gives its caller exactly the
\* span asked for and leaves the rest of the caller's locks and everybody else's alone;
\* when the table is full (ENOSPC) the caller can only lose locks inside the span
\* (flckadj has no undo for what it has cut off before).
Exact(p, w, L, a) ==
    \A q \in Procs, b \in 0 .. End - 1 :
        LET old == Held(L, q, b)
            new == Held(a.list, q, b)
            in  == q = p /\ w.lo <= b /\ b < w.hi
        IN  CASE ~in                       -> new = old
              [] in /\ a.out = "nospace"   -> new \in {old, "none"}
              [] in /\ a.out # "nospace"   -> new = IF w.type = "unlock" THEN "none" ELSE w.type
AdjustExact ==
    \A p \in Procs : \A w \in Requests(p) \cup Unlocks :
        LET L == chain[w.file]
        IN  ~Waits(p) /\ (w.type = "unlock" \/ Blocked(p, w, L) = 0)
            => Exact(p, w, L, Adjust(p, w, L, Free(p)))

\* No wakeup is lost: a process is asleep only on a lock that is still in its way, and
\* whoever removes or shortens that lock will see that somebody sleeps on it.
SleeperBlocked ==
    \A p \in Procs : wchan[p] # NoRec =>
        /\ wchan[p] \in wakeflg
        /\ \E i \in DOMAIN chain[want[p].file] :
               LET l == chain[want[p].file][i]
               IN  /\ l.id = wchan[p]
                   /\ l.pid = blkpid[p]
                   /\ l.pid # p /\ Overlap(l, want[p]) /\ Excludes(l, want[p])

\* The waits that sleeplcks records never form a circle, so that deadflck's walk ends
\* and the processes that sleep are not waiting for each other.
NoWaitCycle ==
    \A S \in SUBSET Procs :
        S # {} => \E p \in S : sf[p] = NoRec \/ blkpid[p] \notin S

\* A record of the table is in one place at most: it is free, in one list once, or the
\* record of one sleeper.
RecordsOnce ==
    /\ \A f \in Files : \A i, j \in DOMAIN chain[f] : chain[f][i].id = chain[f][j].id => i = j
    /\ \A f, g \in Files : f # g => Ids(chain[f]) \cap Ids(chain[g]) = {}
    /\ \A p \in Procs : sf[p] # NoRec =>
           /\ \A f \in Files : sf[p] \notin Ids(chain[f])
           /\ \A q \in Procs \ {p} : sf[q] # sf[p]

\* A file has an entry exactly as long as it has locks or a process waits for one, and the
\* entry counts these processes: no entry leaks and none is freed under a sleeper.
FidsCounted ==
    \A f \in Files :
        /\ refcnt[f] = Cardinality({p \in Procs : Waits(p) /\ want[p].file = f})
        /\ f \in fids <=> refcnt[f] > 0 \/ chain[f] # <<>>

\* A process whose lock is not in the way of anybody's any more does not wait for ever.
WaitEnds ==
    \A p \in Procs :
        \/ []<>~Waits(p)
        \/ []<>(Waits(p) /\ Blocked(p, want[p], chain[want[p].file]) # 0)

\* Over all the files, the locks behave as fcntl promises.
Promise == INSTANCE RecordLocks WITH
               Bytes <- 0 .. End - 1,
               held  <- [f \in Files |-> [p \in Procs |-> [b \in 0 .. End - 1 |->
                            Held(chain[f], p, b)]]]
Implements == Promise!Spec
=============================================================================
