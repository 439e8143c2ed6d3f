--------------------------------- MODULE Sem ---------------------------------
(***************************************************************************)
(* System V semaphores: PAGING/os/sem.c.  An action is a turn of a process *)
(* from one sleep to the next.  The copies in from the user may sleep      *)
(* (a page fault); semop and semctl go on with the set they looked up      *)
(* before, whatever has become of it.  What is copied in lies in one page, *)
(* so that semtmp, which all calls share, is filled after the last sleep   *)
(* of a copy.  Every entry of sema has semaphores of its own, as many as   *)
(* any other.                                                              *)
(***************************************************************************)
EXTENDS SleepQueue, Integers, FiniteSets, SequencesExt

CONSTANTS Sets,        \* the entries of sema
          Nums,        \* the numbers of the semaphores of a set
          SemMaxSeq,   \* the last sequence number before it wraps
          SemVmx,      \* the largest value of a semaphore (semvmx)
          SemAem,      \* the largest adjustment on exit (semaem)
          SemUme,      \* the entries of an undo structure (semume)
          SemMnu,      \* the number of undo structures (semmnu)
          OpLists,     \* the lists of operations that semop is called with
          Values,      \* the values of SETVAL
          Vectors      \* the values of SETALL

ASSUME SemAssumption ==
    /\ SemMaxSeq \in Nat /\ SemVmx \in Nat /\ SemAem \in Nat
    /\ SemUme \in Nat /\ SemMnu \in Nat /\ Values \subseteq 0 .. SemVmx
    /\ Vectors \subseteq [Nums -> 0 .. SemVmx]
    /\ OpLists \subseteq Seq([num : Nums, op : Int, undo : BOOLEAN, nowait : BOOLEAN])

\* A struct sembuf
Op(num, op, undo, nowait) == [num |-> num, op |-> op, undo |-> undo, nowait |-> nowait]

VARIABLES
    sema,      \* the sets
    undo,      \* sem_undo: the undo structure of a process and its entries
    semcall,   \* the call of a process and the id it gave
    semat      \* where the process is in it

semVars == <<sema, undo, semcall, semat>>

NoSemCall == [op |-> "none"]
NoUndo == [held |-> FALSE, ent |-> <<>>]
Zeros == [n \in Nums |-> 0]

SemInit ==
    /\ sema = [s \in Sets |-> [alloc |-> FALSE, seq |-> 0,
                               val |-> Zeros, ncnt |-> Zeros, zcnt |-> Zeros]]
    /\ undo = [p \in Procs |-> NoUndo]
    /\ semcall = [p \in Procs |-> NoSemCall]
    /\ semat = [p \in Procs |-> "idle"]
    /\ wchan = [p \in Procs |-> NoChan]

-------------------------------------------------------------------------------
(* Helpers                                                                 *)

S(p) == semcall[p].set
SemValid(p) == sema[S(p)].alloc /\ sema[S(p)].seq = semcall[p].seq

\* The channels &semncnt and &semzcnt of a semaphore
Ncnt(s, n) == <<"semncnt", s, n>>
Zcnt(s, n) == <<"semzcnt", s, n>>

SemReturn(p) ==
    /\ semcall' = [semcall EXCEPT ![p] = NoSemCall]
    /\ semat' = [semat EXCEPT ![p] = "idle"]

\* A semaphore gets the value v: those that wait for more, or for zero, are woken up
\* and no longer counted
WakesNcnt(m, s, n, more) == IF more /\ m.ncnt[n] # 0 THEN {Ncnt(s, n)} ELSE {}
WakesZcnt(m, s, n)       == IF m.val[n] = 0 /\ m.zcnt[n] # 0 THEN {Zcnt(s, n)} ELSE {}

\* semaoe for an operation v on semaphore k: u with the adjustment, or FAIL.  A process
\* keeps the structure it got, whether the entry fits or not.
FAIL == [held |-> FALSE, ent |-> "fail"]
Within(v) == -SemAem <= v /\ v <= SemAem

\* u with the entry k, which goes when it is zero
SetEntry(u, k, new) ==
    LET ks == IF new = 0 THEN DOMAIN u.ent \ {k} ELSE DOMAIN u.ent \cup {k}
    IN  [held |-> TRUE, ent |-> [e \in ks |-> IF e = k THEN new ELSE u.ent[e]]]

\* Slip: the sum of the adjustments is not looked at
SemaoeUnbounded(u, v, k, free) ==
    LET new == (IF k \in DOMAIN u.ent THEN u.ent[k] ELSE 0) - v
    IN  IF v = 0 THEN u
        ELSE IF ~u.held /\ ~free THEN FAIL ELSE SetEntry(u, k, new)

Semaoe(u, v, k, free) ==
    LET old == IF k \in DOMAIN u.ent THEN u.ent[k] ELSE 0
        new == old - v
    IN  CASE v = 0 -> u
          [] v # 0 /\ ( \/ ~Within(v) \/ ~Within(new)
                        \/ ~u.held /\ ~free
                        \/ k \notin DOMAIN u.ent /\ Cardinality(DOMAIN u.ent) >= SemUme )
               -> FAIL
          [] OTHER -> SetEntry(u, k, new)

-------------------------------------------------------------------------------
(* semop: the operations are done one after the other, and undone again    *)
(* when one must wait or fails.  The state of the loop is a record: the    *)
(* set, the undo structure of the process, the channels that were woken    *)
(* up, the number of operations done, and how the loop ended.              *)

Key(p, o) == [set |-> S(p), seq |-> semcall[p].seq, num |-> o.num]
FreeUndo == Cardinality({p \in Procs : undo[p].held}) < SemMnu

\* Slip: the operations that were done stay done
SemundoNone(p, acc, ops) == acc

\* semundo of the first acc.done of ops, the last one first
Unadjusted(p, u, o) ==
    LET new == Semaoe(u, -o.op, Key(p, o), FreeUndo)
    IN  IF ~o.undo \/ o.op = 0 \/ new = FAIL THEN u ELSE new
Undone(p, a, o) == [a EXCEPT !.m.val[o.num] = a.m.val[o.num] - o.op,
                             !.u = Unadjusted(p, a.u, o)]
Semundo(p, acc, ops) ==
    FoldRight(LAMBDA o, a : Undone(p, a, o), SubSeq(ops, 1, acc.done), acc)

\* One turn of the loop
Step(p, acc, o) ==
    LET v == acc.m.val[o.num]
        u == IF o.undo THEN Semaoe(acc.u, o.op, Key(p, o), FreeUndo) ELSE acc.u
        held == acc.u.held \/ (o.undo /\ FreeUndo /\ Within(o.op) /\ o.op # 0)
        m == [acc.m EXCEPT !.val[o.num] = v + o.op]
    IN  CASE acc.end # "no" -> acc
          [] acc.end = "no" /\ o.op > 0 /\ v + o.op > SemVmx -> [acc EXCEPT !.end = "error"]
          [] acc.end = "no" /\ o.op < 0 /\ v < -o.op ->
                [acc EXCEPT !.end = IF o.nowait THEN "error" ELSE "semncnt", !.on = o.num]
          [] acc.end = "no" /\ o.op = 0 /\ v # 0 ->
                [acc EXCEPT !.end = IF o.nowait THEN "error" ELSE "semzcnt", !.on = o.num]
          [] acc.end = "no" /\ o.op = 0 /\ v = 0 -> [acc EXCEPT !.done = acc.done + 1]
          [] OTHER ->
                IF o.undo /\ u = FAIL THEN [acc EXCEPT !.end = "error", !.u.held = held]
                ELSE [acc EXCEPT !.m = IF o.op > 0 THEN [m EXCEPT !.ncnt[o.num] = 0]
                                       ELSE [m EXCEPT !.zcnt[o.num] =
                                               IF v + o.op = 0 THEN 0 ELSE m.zcnt[o.num]],
                                 !.u = u,
                                 !.wakes = acc.wakes \cup
                                     (IF o.op > 0 THEN WakesNcnt(m, S(p), o.num, TRUE)
                                      ELSE WakesZcnt(m, S(p), o.num)),
                                 !.done = acc.done + 1]

Loop(p, ops) ==
    LET acc == FoldLeft(LAMBDA a, o : Step(p, a, o),
                        [m |-> sema[S(p)], u |-> undo[p], wakes |-> {}, done |-> 0,
                         end |-> "no", on |-> 0], ops)
    IN  IF acc.end = "no" THEN acc ELSE Semundo(p, acc, ops)

\* The loop, after the operations were copied in: it ends, or the process sleeps and is
\* counted.  The first time the permissions are checked: those of an entry of sema that was
\* freed meanwhile let the super-user pass.
Semop(p) ==
    /\ semat[p] \in {"copy", "recopy"} /\ semcall[p].op = "semop"
    /\ \E acc \in {Loop(p, semcall[p].ops)} :
          LET s == S(p)
              m == CASE acc.end = "semncnt" -> [acc.m EXCEPT !.ncnt[acc.on] = @ + 1]
                     [] acc.end = "semzcnt" -> [acc.m EXCEPT !.zcnt[acc.on] = @ + 1]
                     [] OTHER -> acc.m
          IN  /\ sema' = [sema EXCEPT ![s] = m]
              /\ undo' = [undo EXCEPT ![p] = acc.u]
              /\ IF acc.end \in {"semncnt", "semzcnt"}
                 THEN /\ semat' = [semat EXCEPT ![p] = acc.end]
                      /\ semcall' = [semcall EXCEPT ![p].on = acc.on]
                      /\ Sleep(p, <<acc.end, s, acc.on>>, acc.wakes)
                 ELSE SemReturn(p) /\ Wakeup(acc.wakes)

\* A copy fails with EFAULT, or semop with EACCES on an entry that was freed meanwhile
SemFails(p) ==
    /\ semat[p] \in {"copy", "recopy"}
    /\ SemReturn(p) /\ Wakeup({})
    /\ UNCHANGED <<sema, undo>>

\* After the sleep: the set is looked up again, and the operations are copied in again
SemopAgain(p) ==
    /\ semat[p] \in {"semncnt", "semzcnt"} /\ Awake(p)
    /\ IF SemValid(p) THEN semat' = [semat EXCEPT ![p] = "recopy"] /\ UNCHANGED semcall
                      ELSE SemReturn(p)
    /\ UNCHANGED <<sema, undo, wchan>>

\* Slip: the last one that is counted wakes up nobody
SemInterruptQuiet(p) ==
    LET s == S(p)
        n == semcall[p].on
    IN  /\ semat[p] \in {"semncnt", "semzcnt"}
        /\ sema' = [sema EXCEPT ![s].ncnt[n] = IF semat[p] = "semncnt" /\ @ > 0 THEN @ - 1 ELSE @,
                                ![s].zcnt[n] = IF semat[p] = "semzcnt" /\ @ > 0 THEN @ - 1 ELSE @]
        /\ Unsleep(p, {})
        /\ SemReturn(p)
        /\ UNCHANGED undo

\* A signal: the process is no longer counted, and when nobody is, all are woken up
SemInterrupt(p) ==
    LET s == S(p)
        n == semcall[p].on
        left == (IF semat[p] = "semncnt" THEN sema[s].ncnt[n] ELSE sema[s].zcnt[n]) - 1
        rest == IF left <= 0 THEN 0 ELSE left
    IN  /\ semat[p] \in {"semncnt", "semzcnt"}
        /\ sema' = IF semat[p] = "semncnt" THEN [sema EXCEPT ![s].ncnt[n] = rest]
                                           ELSE [sema EXCEPT ![s].zcnt[n] = rest]
        /\ Unsleep(p, IF left <= 0 THEN {<<semat[p], s, n>>} ELSE {})
        /\ SemReturn(p)
        /\ UNCHANGED undo

-------------------------------------------------------------------------------
(* The calls                                                               *)

\* semop, SETALL and IPC_SET copy in their arguments first
SemCall(p, c) ==
    /\ semat[p] = "idle" /\ sema[c.set].alloc /\ c.seq = sema[c.set].seq
    /\ semcall' = [semcall EXCEPT ![p] = c]
    /\ semat' = [semat EXCEPT ![p] = "copy"]
    /\ UNCHANGED <<sema, undo, wchan>>

\* semget makes a set; the values are those the last one left
SemGet(s) ==
    /\ ~sema[s].alloc
    /\ sema' = [sema EXCEPT ![s].alloc = TRUE]
    /\ UNCHANGED <<undo, semcall, semat, wchan>>

\* semunrm: the entries of everybody for the semaphores ns of set id
Semunrm(s, seq, ns) ==
    undo' = [p \in Procs |->
               LET keep == {e \in DOMAIN undo[p].ent :
                              ~(e.set = s /\ e.seq = seq /\ e.num \in ns)}
               IN  [undo[p] EXCEPT !.ent = [e \in keep |-> undo[p].ent[e]]]]

\* The semaphores of m whose numbers are in DOMAIN f get their values from f
SetValues(s, f) ==
    LET ns == DOMAIN f
        m  == [sema[s] EXCEPT !.val = [n \in Nums |-> IF n \in ns THEN f[n] ELSE @[n]]]
    IN  /\ sema' = [sema EXCEPT ![s] =
                      [m EXCEPT !.ncnt = [n \in Nums |-> IF n \in ns /\ m.val[n] # 0 THEN 0
                                                         ELSE m.ncnt[n]],
                                !.zcnt = [n \in Nums |-> IF n \in ns /\ m.val[n] = 0 THEN 0
                                                         ELSE m.zcnt[n]]]]
        /\ Wakeup(UNION {WakesNcnt(m, s, n, m.val[n] # 0) \cup WakesZcnt(m, s, n) : n \in ns})

SetVal(s, n, v) ==
    /\ sema[s].alloc
    /\ SetValues(s, [x \in {n} |-> v])
    /\ Semunrm(s, sema[s].seq, {n})
    /\ UNCHANGED <<semcall, semat>>

\* SETALL after its copyin: the entries of the id go, the values of the entry are set
SetAll(p) ==
    /\ semat[p] = "copy" /\ semcall[p].op = "setall"
    /\ SetValues(S(p), semcall[p].values)
    /\ Semunrm(S(p), semcall[p].seq, Nums)
    /\ SemReturn(p)

\* IPC_SET after its copyin: it marks the entry as allocated
SemIpcSet(p) ==
    /\ semat[p] = "copy" /\ semcall[p].op = "set"
    /\ sema' = [sema EXCEPT ![S(p)].alloc = TRUE]
    /\ SemReturn(p) /\ Wakeup({})
    /\ UNCHANGED undo

\* IPC_RMID
SemRmId(s) ==
    /\ sema[s].alloc
    /\ Semunrm(s, sema[s].seq, Nums)
    /\ sema' = [sema EXCEPT ![s] =
                  [alloc |-> FALSE, val |-> Zeros, ncnt |-> Zeros, zcnt |-> Zeros,
                   seq |-> IF sema[s].seq = SemMaxSeq THEN 0 ELSE sema[s].seq + 1]]
    /\ Wakeup({Ncnt(s, n) : n \in {n \in Nums : sema[s].ncnt[n] # 0}} \cup
              {Zcnt(s, n) : n \in {n \in Nums : sema[s].zcnt[n] # 0}})
    /\ UNCHANGED <<semcall, semat>>

\* semexit: what p's operations did is undone, where the value stays in its range
Adjusted(s, p) ==
    [n \in Nums |-> LET e == [set |-> s, seq |-> sema[s].seq, num |-> n]
                        aoe == IF sema[s].alloc /\ e \in DOMAIN undo[p].ent
                               THEN undo[p].ent[e] ELSE 0
                    IN  IF sema[s].val[n] + aoe \in 0 .. SemVmx THEN aoe ELSE 0]

SemExit(p) ==
    LET M(s) == [sema[s] EXCEPT !.val = [n \in Nums |-> sema[s].val[n] + Adjusted(s, p)[n]]]
        More(s) == {n \in Nums : Adjusted(s, p)[n] > 0}
        Zero(s) == {n \in Nums : Adjusted(s, p)[n] # 0 /\ M(s).val[n] = 0}
    IN  /\ semat[p] = "idle" /\ undo[p].held
        /\ sema' = [s \in Sets |->
                      [M(s) EXCEPT !.ncnt = [n \in Nums |-> IF n \in More(s) THEN 0 ELSE @[n]],
                                   !.zcnt = [n \in Nums |-> IF n \in Zero(s) THEN 0 ELSE @[n]]]]
        /\ undo' = [undo EXCEPT ![p] = NoUndo]
        /\ Wakeup(UNION {(UNION {WakesNcnt(sema[s], s, n, TRUE) : n \in More(s)}) \cup
                         (UNION {WakesZcnt(M(s), s, n) : n \in Zero(s)}) : s \in Sets})
        /\ UNCHANGED <<semcall, semat>>

-------------------------------------------------------------------------------
SemCalls ==
    [op : {"semop"}, ops : OpLists, set : Sets, seq : 0 .. SemMaxSeq, on : {0}] \cup
    [op : {"setall"}, values : Vectors, set : Sets, seq : 0 .. SemMaxSeq, on : {0}] \cup
    [op : {"set"}, set : Sets, seq : 0 .. SemMaxSeq, on : {0}]

SemTurn(p) == \/ Semop(p) \/ SemFails(p) \/ SemopAgain(p) \/ SemInterrupt(p)
              \/ SetAll(p) \/ SemIpcSet(p) \/ SemExit(p)

SemNext == \/ \E p \in Procs : SemTurn(p)
           \/ \E p \in Procs, c \in SemCalls : SemCall(p, c)
           \/ \E s \in Sets : SemGet(s) \/ SemRmId(s)
           \/ \E s \in Sets, n \in Nums, v \in Values : SetVal(s, n, v)

SemSpec == SemInit /\ [][SemNext]_<<semVars, wchan>>

-------------------------------------------------------------------------------
(* Properties                                                              *)

\* Values stay between 0 and semvmx and adjustments within semaem, no entry is zero or
\* kept without a structure, and no process has more entries than fit.
SemTypeOK ==
    /\ sema \in [Sets -> [alloc : BOOLEAN, seq : 0 .. SemMaxSeq, val : [Nums -> 0 .. SemVmx],
                          ncnt : [Nums -> Nat], zcnt : [Nums -> Nat]]]
    /\ \A p \in Procs :
          /\ undo[p].held \in BOOLEAN
          /\ Cardinality(DOMAIN undo[p].ent) <= IF undo[p].held THEN SemUme ELSE 0
          /\ \A e \in DOMAIN undo[p].ent : undo[p].ent[e] # 0 /\ Within(undo[p].ent[e])
    /\ Cardinality({p \in Procs : undo[p].held}) <= SemMnu
    /\ semat \in [Procs -> {"idle", "copy", "recopy", "semncnt", "semzcnt"}]

\* What ops, or those of them with SEM_UNDO, add to semaphore n
Sum(ops, n, undoable) ==
    FoldLeft(LAMBDA sum, o : IF o.num = n /\ (undoable => o.undo) THEN sum + o.op ELSE sum, 0, ops)

\* No wakeup is lost: a process sleeps in semop only while the semaphore is counted as
\* waited for and the operation it stopped at cannot be done after those before it, although
\* the counts are not the numbers of the sleepers.  One that waits for zero is woken up at
\* zero only, whatever the operations before it take away.
SemopWaits ==
    \A p \in Procs :
        LET m == sema[S(p)]
            n == semcall[p].on
            ops == semcall[p].ops
        IN  /\ semat[p] = "semncnt" /\ ~Awake(p) =>
                  /\ m.ncnt[n] > 0
                  /\ \E i \in DOMAIN ops :
                        /\ ops[i].num = n /\ ops[i].op < 0
                        /\ m.val[n] + Sum(SubSeq(ops, 1, i - 1), n, FALSE) < -ops[i].op
            /\ semat[p] = "semzcnt" /\ ~Awake(p) =>
                  /\ m.zcnt[n] > 0
                  /\ \E i \in DOMAIN ops :
                        /\ ops[i].num = n /\ ops[i].op = 0
                        /\ \/ m.val[n] # 0
                           \/ \E k \in 1 .. i - 1 : ops[k].num = n /\ ops[k].op > 0

\* semop does all of its operations, with their undo entries, or none of them
Aoe(u, e) == IF e \in DOMAIN u.ent THEN u.ent[e] ELSE 0
SemopAllOrNothing ==
    [][\A p \in Procs :
          semat[p] \in {"copy", "recopy"} /\ semcall[p].op = "semop" /\ semat'[p] # semat[p] =>
             \E k \in {0, 1} : \A n \in Nums :
                /\ sema'[S(p)].val[n] - sema[S(p)].val[n] = k * Sum(semcall[p].ops, n, FALSE)
                /\ \E e \in {Key(p, [num |-> n])} :
                      Aoe(undo'[p], e) - Aoe(undo[p], e) = -k * Sum(semcall[p].ops, n, TRUE)
      ]_semVars
=============================================================================
