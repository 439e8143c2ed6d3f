----------------------------- MODULE IpcProofs -----------------------------
(***************************************************************************)
(* Messages and semaphores, for any number of processes, entries, headers, *)
(* segments, sizes and operations.  No wakeup is lost by msg.c; the proof  *)
(* needs nothing of the resource map but that mfree, when it changes the   *)
(* map, wakes up those who wait.  Nor is one lost by sem.c, whose counts   *)
(* are not the numbers of the sleepers, and semop does all of its          *)
(* operations or none: semundo finds room for every adjustment it takes    *)
(* back.  The last part is about the pool of msg.c: nothing of it is lost  *)
(* if its map has an entry for each header.                                *)
(***************************************************************************)
EXTENDS Msg, Sem, FiniteSums, SequenceTheorems, TLAPS

\* msg_first: a list of messages with their sizes
IsChain(c) == /\ c \in Seq({c[i] : i \in DOMAIN c})
              /\ \A i \in DOMAIN c : c[i].size \in Nat

Fields == {"alloc", "seq", "locked", "qwant", "rwait", "wwait", "chain", "cbytes", "qbytes"}
IsQueue(m) == /\ DOMAIN m = Fields
              /\ m.alloc \in BOOLEAN /\ m.locked \in BOOLEAN /\ m.qwant \in BOOLEAN
              /\ m.rwait \in BOOLEAN /\ m.wwait \in BOOLEAN
              /\ IsChain(m.chain) /\ m.cbytes \in Int /\ m.qbytes \in Int

IsCall(c) == /\ "limit" \in DOMAIN c
             /\ c.slot \in Slots /\ c.size \in Nat /\ c.limit \in Int

\* The types, as far as the order of sleeps and wakeups depends on them
Types ==
    /\ DOMAIN que = Slots /\ \A q \in Slots : IsQueue(que[q])
    /\ msgfp \in Int /\ mapwant \in BOOLEAN
    /\ at \in [Procs -> {"idle", "enter", "copy", "set"} \cup Sleeps]
    /\ DOMAIN call = Procs
    /\ \A p \in Procs : at[p] # "idle" => IsCall(call[p])
    /\ DOMAIN held = Procs /\ \A p \in Procs : held[p].size \in Nat
    /\ DOMAIN wchan = Procs

\* A process that sleeps is in one of the five sleeps of its call
Channels == \A p \in Procs : ~Awake(p) => at[p] \in Sleeps /\ wchan[p] = Chan(at[p], Q(p))

\* An entry that is free is not locked
FreeUnlocked == \A q \in Slots : que[q].locked => que[q].alloc

\* What makes NoLostWakeup inductive
MsgInv == Types /\ Channels /\ FreeUnlocked /\ NoLostWakeup

-------------------------------------------------------------------------------
(* Messages on a queue                                                     *)

LEMMA SeqIsChain ==
    ASSUME NEW Elems, NEW c \in Seq(Elems), \A i \in DOMAIN c : c[i].size \in Nat
    PROVE  IsChain(c)
<1>1. c \in Seq({c[i] : i \in DOMAIN c})
  <2>1. Len(c) \in Nat /\ DOMAIN c = 1 .. Len(c) /\ c = [i \in 1 .. Len(c) |-> c[i]]
    OBVIOUS
  <2>2. c \in [1 .. Len(c) -> {c[i] : i \in DOMAIN c}]
    BY <2>1
  <2> QED BY <2>1, <2>2
<1> QED BY <1>1 DEF IsChain

LEMMA AppendIsChain ==
    ASSUME NEW c, IsChain(c), NEW x, x.size \in Nat
    PROVE  IsChain(Append(c, x))
<1> DEFINE Elems == {c[i] : i \in DOMAIN c} \cup {x}
<1>1. c \in Seq(Elems)
  BY DEF IsChain
<1>2. Append(c, x) \in Seq(Elems)
  BY <1>1
<1>3. ASSUME NEW i \in DOMAIN Append(c, x) PROVE Append(c, x)[i].size \in Nat
  BY <1>1, <1>3 DEF IsChain
<1> QED BY <1>2, <1>3, SeqIsChain

\* What RemoveAt leaves was on the list
LEMMA RemoveLeaves ==
    ASSUME NEW c, IsChain(c), NEW k \in DOMAIN c
    PROVE  /\ IsChain(RemoveAt(c, k))
           /\ \A i \in DOMAIN RemoveAt(c, k) : \E j \in DOMAIN c : RemoveAt(c, k)[i] = c[j]
<1> DEFINE Elems == {c[i] : i \in DOMAIN c}
           a == SubSeq(c, 1, k - 1)
           b == SubSeq(c, k + 1, Len(c))
<1>1. c \in Seq(Elems) /\ Len(c) \in Nat /\ DOMAIN c = 1 .. Len(c) /\ k \in 1 .. Len(c)
  BY DEF IsChain
<1>2. \A i \in 1 .. Len(c) : c[i] \in Elems
  BY <1>1, ElementOfSeq
<1>3. a \in Seq(Elems) /\ b \in Seq(Elems)
  <2> HIDE DEF Elems
  <2>1. SubSeq(c, 1, k - 1) \in Seq(Elems)
    BY <1>1, <1>2, SubSeqProperties
  <2>2. SubSeq(c, k + 1, Len(c)) \in Seq(Elems)
    BY <1>1, <1>2, SubSeqProperties
  <2> QED BY <2>1, <2>2
<1>4. a \o b \in Seq(Elems)
  <2> HIDE DEF Elems, a, b
  <2> QED BY <1>3, ConcatProperties
<1>5. \A i \in DOMAIN (a \o b) : (a \o b)[i] \in Elems
  <2> HIDE DEF Elems, a, b
  <2> QED BY <1>4, LenProperties, ElementOfSeq
<1>6. \A i \in DOMAIN (a \o b) : (a \o b)[i].size \in Nat
  BY <1>5 DEF IsChain
<1>7. IsChain(a \o b)
  <2> HIDE DEF Elems, a, b
  <2> QED BY <1>4, <1>6, SeqIsChain
<1> QED BY <1>5, <1>7 DEF RemoveAt

LEMMA Append1Queue ==
    ASSUME NEW m, IsQueue(m), NEW x, x.size \in Nat
    PROVE  /\ IsQueue(Append1(m, x))
           /\ Append1(m, x).alloc = m.alloc /\ Append1(m, x).seq = m.seq
           /\ Append1(m, x).locked = m.locked /\ Append1(m, x).qwant = m.qwant
           /\ Append1(m, x).wwait = m.wwait /\ Append1(m, x).cbytes >= m.cbytes
<1>1. IsChain(Append(m.chain, x))
  BY AppendIsChain DEF IsQueue
<1> QED BY <1>1 DEF IsQueue, Append1, Fields

LEMMA RemovedQueue ==
    ASSUME NEW m, IsQueue(m), NEW k \in DOMAIN m.chain
    PROVE  /\ IsQueue(Removed(m, k))
           /\ Removed(m, k).alloc = m.alloc /\ Removed(m, k).seq = m.seq
           /\ Removed(m, k).locked = m.locked /\ Removed(m, k).qwant = m.qwant
           /\ Removed(m, k).rwait = m.rwait
           /\ Removed(m, k).chain = RemoveAt(m.chain, k)
<1>1. IsChain(RemoveAt(m.chain, k))
  BY RemoveLeaves DEF IsQueue
<1>2. m.chain[k].size \in Nat
  BY DEF IsQueue, IsChain
<1> QED BY <1>1, <1>2 DEF IsQueue, Removed, Fields

\* msgqunlock changes nothing but the lock
LEMMA UnlockedQueue ==
    ASSUME NEW m, IsQueue(m)
    PROVE  /\ IsQueue(Unlocked(m)) /\ ~Unlocked(m).locked
           /\ Unlocked(m).alloc = m.alloc /\ Unlocked(m).seq = m.seq
           /\ Unlocked(m).rwait = m.rwait /\ Unlocked(m).wwait = m.wwait
           /\ Unlocked(m).chain = m.chain /\ Unlocked(m).cbytes = m.cbytes
BY DEF IsQueue, Unlocked, Fields

\* msgremove gives no receiver a message it did not have before
LEMMA NoneAfterRemove ==
    ASSUME NEW c, IsChain(c), NEW k \in DOMAIN c, NEW t, Candidates(c, t) = {}
    PROVE  Candidates(RemoveAt(c, k), t) = {}
BY RemoveLeaves DEF Candidates

-------------------------------------------------------------------------------
(* What one process does to the others that sleep                          *)

\* Everything but p stays as it is, and the channels W are woken up
Others(p, W) ==
    \A r \in Procs \ {p} : /\ at'[r] = at[r] /\ call'[r] = call[r]
                           /\ wchan'[r] = IF wchan[r] \in W THEN NoChan ELSE wchan[r]

\* Nothing changes in the queues but q, which becomes n
Becomes(q, n) == DOMAIN que' = Slots /\ que'[q] = n /\ \A s \in Slots \ {q} : que'[s] = que[s]

\* Queue q goes from m to n: who waits for it is woken up, or still has to wait
KeepsLockers(q, m, n, W) ==
    m.locked /\ m.qwant => Chan("lock", q) \in W \/ (n.locked /\ n.qwant)
KeepsReceivers(q, m, n, W) ==
    m.alloc /\ m.rwait =>
        \/ Chan("empty", q) \in W
        \/ /\ n.alloc /\ n.seq = m.seq /\ n.rwait
           /\ \A t : Candidates(m.chain, t) = {} => Candidates(n.chain, t) = {}
KeepsSenders(q, m, n, W) ==
    m.alloc /\ m.wwait =>
        \/ Chan("full", q) \in W
        \/ n.alloc /\ n.seq = m.seq /\ n.wwait /\ n.cbytes >= m.cbytes
Keeps(q, m, n, W) == KeepsLockers(q, m, n, W) /\ KeepsReceivers(q, m, n, W) /\ KeepsSenders(q, m, n, W)

\* And so for the pool
KeepsPool(W) ==
    /\ msgfp = 0 => Chan("header", 0) \in W \/ msgfp' = 0
    /\ mapwant => Chan("space", 0) \in W \/ (mapwant' /\ map' \subseteq map)

\* NoLostWakeup, for one process
Waits(p) ==
    /\ Asleep(p, "lock") => que[Q(p)].locked /\ que[Q(p)].qwant
    /\ Asleep(p, "empty") => /\ Valid(p) /\ que[Q(p)].rwait
                             /\ Candidates(que[Q(p)].chain, call[p].type) = {}
    /\ Asleep(p, "full") => /\ Valid(p) /\ que[Q(p)].wwait
                            /\ call[p].size + que[Q(p)].cbytes > call[p].limit
    /\ Asleep(p, "header") => msgfp = 0
    /\ Asleep(p, "space") => mapwant /\ Fits(map, call[p].size) = {}

LEMMA WaitsAll == NoLostWakeup <=> \A p \in Procs : Waits(p)
BY DEF NoLostWakeup, LockWaits, ReceiverWaits, SenderWaits, PoolWaits, Waits

\* The others go on waiting for what is still not there
LEMMA OthersWait ==
    ASSUME MsgInv, NEW p, NEW W, Others(p, W), KeepsPool(W),
           NEW q \in Slots, NEW n, Becomes(q, n), IsQueue(n),
           Keeps(q, que[q], n, W), NEW r \in Procs \ {p}
    PROVE  Waits(r)'
<1>1. CASE Awake(r)'
  BY <1>1 DEF Waits, Asleep
<1>2. CASE ~Awake(r)'
  <2>1. /\ at'[r] = at[r] /\ call'[r] = call[r] /\ wchan'[r] = wchan[r]
        /\ ~Awake(r) /\ wchan[r] \notin W /\ at[r] \in Sleeps /\ wchan[r] = Chan(at[r], Q(r))
    BY <1>2 DEF Others, Awake, MsgInv, Channels
  <2>2. Q(r) \in Slots /\ Q(r)' = Q(r) /\ IsCall(call[r])
    BY <2>1 DEF MsgInv, Types, IsCall, Q, Sleeps
  <2>3. que'[Q(r)] = IF Q(r) = q THEN n ELSE que[Q(r)]
    BY <2>2 DEF Becomes
  <2>4. Waits(r)
    BY WaitsAll DEF MsgInv
  <2>5. CASE at[r] = "lock"
    BY <2>1, <2>2, <2>3, <2>4, <2>5 DEF Waits, Asleep, Awake, Keeps, KeepsLockers, Chan
  <2>6. CASE at[r] = "empty"
    BY <2>1, <2>2, <2>3, <2>4, <2>6
       DEF Waits, Asleep, Awake, Keeps, KeepsReceivers, Chan, Valid
  <2>7. CASE at[r] = "full"
    <3>1. Valid(r) /\ que[Q(r)].wwait /\ call[r].size + que[Q(r)].cbytes > call[r].limit
      BY <2>1, <2>4, <2>7 DEF Waits, Asleep
    <3>2. que'[Q(r)].wwait /\ que'[Q(r)].alloc /\ que'[Q(r)].seq = que[Q(r)].seq
          /\ que'[Q(r)].cbytes >= que[Q(r)].cbytes
      BY <2>1, <2>2, <2>3, <2>7, <3>1 DEF Keeps, KeepsSenders, Chan, Valid, MsgInv, Types, IsQueue
    <3>3. call[r].size \in Int /\ que[Q(r)].cbytes \in Int /\ que'[Q(r)].cbytes \in Int
          /\ call[r].limit \in Int
      BY <2>2, <2>3 DEF IsCall, MsgInv, Types, IsQueue
    <3>4. call[r].size + que'[Q(r)].cbytes > call[r].limit
      BY <3>1, <3>2, <3>3
    <3> QED BY <2>1, <2>2, <2>7, <3>1, <3>2, <3>4 DEF Waits, Asleep, Awake, Valid
  <2>8. CASE at[r] = "header"
    BY <2>1, <2>4, <2>8 DEF Waits, Asleep, Awake, KeepsPool, Chan
  <2>9. CASE at[r] = "space"
    BY <2>1, <2>4, <2>9 DEF Waits, Asleep, Awake, KeepsPool, Chan, Fits
  <2> QED BY <2>1, <2>5, <2>6, <2>7, <2>8, <2>9 DEF Sleeps
<1> QED BY <1>1, <1>2

-------------------------------------------------------------------------------
(* The turns of a process                                                  *)

\* What a turn does to the rest of the state
Rest(p, W) == Others(p, W) /\ KeepsPool(W) /\ msgfp' \in Int /\ mapwant' \in BOOLEAN
QueueStep(q, n, W) == /\ Becomes(q, n) /\ IsQueue(n) /\ (n.locked => n.alloc)
                      /\ Keeps(q, que[q], n, W)

\* And to p itself
Domains == /\ at' \in [Procs -> {"idle", "enter", "copy", "set"} \cup Sleeps]
           /\ DOMAIN call' = Procs /\ DOMAIN held' = Procs /\ DOMAIN wchan' = Procs
           /\ \A r \in Procs : held'[r].size \in Nat
Itself(p) == /\ at'[p] # "idle" => IsCall(call'[p])
             /\ Awake(p)' \/ (at'[p] \in Sleeps /\ wchan'[p] = Chan(at'[p], Q(p)') /\ Waits(p)')

LEMMA TurnKeeps ==
    ASSUME MsgInv, NEW p, NEW W, Rest(p, W), Domains, p \in Procs => Itself(p),
           NEW q \in Slots, NEW n, QueueStep(q, n, W)
    PROVE  MsgInv'
<1>1. Types'
  BY DEF Rest, Others, Domains, Itself, QueueStep, Becomes, MsgInv, Types, IsCall
<1>2. Channels'
  <2>1. ASSUME NEW r \in Procs \ {p}, ~Awake(r)'
        PROVE  at'[r] \in Sleeps /\ wchan'[r] = Chan(at'[r], Q(r)')
    BY <2>1 DEF Rest, Others, Awake, Q, MsgInv, Channels
  <2> QED BY <2>1 DEF Itself, Channels
<1>3. FreeUnlocked'
  BY DEF QueueStep, Becomes, MsgInv, FreeUnlocked
<1>4. NoLostWakeup'
  <2>1. \A r \in Procs \ {p} : Waits(r)'
    BY OthersWait DEF Rest, QueueStep
  <2>2. p \in Procs => Waits(p)'
    BY DEF Itself, Waits, Asleep
  <2>3. \A r \in Procs : Waits(r)'
    BY <2>1, <2>2
  <2> QED BY <2>3 DEF NoLostWakeup, LockWaits, ReceiverWaits, SenderWaits, PoolWaits, Waits
<1> QED BY <1>1, <1>2, <1>3, <1>4 DEF MsgInv

\* The end of a call, with the channels W woken up
Ends(p, W) == Return(p) /\ wchan' = [Woken(W) EXCEPT ![p] = NoChan]

LEMMA EndKeeps ==
    ASSUME MsgInv, NEW p \in Procs, NEW W, Ends(p, W),
           KeepsPool(W), msgfp' \in Int, mapwant' \in BOOLEAN,
           NEW q \in Slots, NEW n, QueueStep(q, n, W)
    PROVE  MsgInv'
<1>1. Others(p, W)
  BY DEF Ends, Return, Woken, Others, MsgInv, Types
<1>2. Domains
  BY DEF Ends, Return, Woken, Domains, MsgInv, Types, NoMsg
<1>3. Itself(p)
  BY DEF Ends, Return, Woken, Itself, Awake, MsgInv, Types
<1> QED BY <1>1, <1>2, <1>3, TurnKeeps DEF Rest

\* wakeup by a process that runs, at the end of its call
LEMMA AwakeEnds ==
    ASSUME MsgInv, NEW p \in Procs, NEW W, Return(p), Awake(p), Wakeup(W)
    PROVE  Ends(p, W)
<1>1. Woken(W)[p] = NoChan
  BY DEF Woken, Awake
<1>2. Woken(W) = [Woken(W) EXCEPT ![p] = NoChan]
  BY <1>1 DEF Woken
<1> QED BY <1>2 DEF Ends, Wakeup

\* p goes to sleep
LEMMA SleepKeeps ==
    ASSUME MsgInv, NEW p \in Procs, NEW where \in Sleeps, GoToSleep(p, where), IsCall(call'[p]),
           DOMAIN call' = Procs, \A r \in Procs \ {p} : call'[r] = call[r],
           call'[p].slot = call[p].slot,
           KeepsPool({}), msgfp' \in Int, mapwant' \in BOOLEAN,
           NEW q \in Slots, NEW n, QueueStep(q, n, {}),
           Waits(p)'
    PROVE  MsgInv'
<1>1. Others(p, {})
  BY DEF GoToSleep, Sleep, Woken, Others, MsgInv, Types
<1>2. Domains
  BY DEF GoToSleep, Sleep, Woken, Domains, MsgInv, Types
<1>3. Itself(p)
  BY DEF GoToSleep, Sleep, Woken, Itself, Awake, MsgInv, Types, Q
<1> QED BY <1>1, <1>2, <1>3, TurnKeeps DEF Rest

-------------------------------------------------------------------------------
(* One lemma for each kind of turn                                         *)

\* A process in a call knows its queue
LEMMA Slot ==
    ASSUME MsgInv, NEW p \in Procs, at[p] # "idle"
    PROVE  Q(p) \in Slots /\ IsCall(call[p])
BY DEF MsgInv, Types, IsCall, Q

LEMMA ReadyAwake ==
    ASSUME MsgInv, NEW p \in Procs, at[p] \in {"copy", "set"} \/ Ready(p)
    PROVE  Awake(p) /\ at[p] # "idle"
BY DEF MsgInv, Channels, Ready, Sleeps

LEMMA SameQueue ==
    ASSUME MsgInv, NEW q \in Slots, NEW W, UNCHANGED que
    PROVE  QueueStep(q, que[q], W)
BY DEF QueueStep, Becomes, Keeps, KeepsLockers, KeepsReceivers, KeepsSenders, MsgInv, Types,
       FreeUnlocked, IsQueue

LEMMA SamePool ==
    ASSUME MsgInv, UNCHANGED poolVars, NEW W
    PROVE  KeepsPool(W) /\ msgfp' \in Int /\ mapwant' \in BOOLEAN
BY DEF KeepsPool, poolVars, MsgInv, Types

\* The pool after a call that frees messages and wakes up who waits for them
LEMMA FreedPool ==
    ASSUME MsgInv, NEW k \in Nat, NEW m, Free(k, m), NEW W, FreeWakes(k, m) \subseteq W
    PROVE  KeepsPool(W) /\ msgfp' \in Int /\ mapwant' \in BOOLEAN
<1>1. msgfp \in Int /\ mapwant \in BOOLEAN
  BY DEF MsgInv, Types
<1>2. CASE k = 0
  BY <1>1, <1>2 DEF Free, FreeWakes, KeepsPool
<1>3. CASE k > 0
  BY <1>1, <1>3 DEF Free, FreeWakes, KeepsPool
<1> QED BY <1>2, <1>3

\* A call that ends and changes nothing
LEMMA FailKeeps ==
    ASSUME MsgInv, NEW p \in Procs, at[p] # "idle", Awake(p), Return(p), Wakeup({}),
           UNCHANGED <<que, poolVars>>
    PROVE  MsgInv'
<1>1. Ends(p, {})
  BY AwakeEnds
<1> QED BY <1>1, Slot, SameQueue, SamePool, EndKeeps

LEMMA InterruptKeeps ==
    ASSUME MsgInv, NEW p \in Procs, Interrupt(p)
    PROVE  MsgInv'
<1> DEFINE q == Q(p)
           W == IF at[p] \in {"lock", "full"} THEN {Chan(at[p], q)} ELSE {}
<1>1. q \in Slots /\ at[p] \in Sleeps
  BY Slot DEF Interrupt, Sleeps
<1>2. Ends(p, W)
  BY DEF Interrupt, Ends, Unsleep
<1>3. QueueStep(q, que'[q], W)
  <2>1. CASE at[p] = "lock"
    BY <1>1, <2>1 DEF Interrupt, QueueStep, Becomes, Keeps, KeepsLockers, KeepsReceivers,
       KeepsSenders, MsgInv, Types, FreeUnlocked, IsQueue, Fields
  <2>2. CASE at[p] = "full"
    BY <1>1, <2>2 DEF Interrupt, QueueStep, Becomes, Keeps, KeepsLockers, KeepsReceivers,
       KeepsSenders, MsgInv, Types, FreeUnlocked, IsQueue, Fields
  <2>3. CASE at[p] \notin {"lock", "full"}
    BY <1>1, <2>3, SameQueue DEF Interrupt
  <2> QED BY <2>1, <2>2, <2>3
<1> QED BY <1>1, <1>2, <1>3, SamePool, EndKeeps DEF Interrupt

LEMMA WaitForLockKeeps ==
    ASSUME MsgInv, NEW p \in Procs, WaitForLock(p)
    PROVE  MsgInv'
<1> DEFINE q == Q(p)
<1>1. q \in Slots /\ IsCall(call[p])
  BY ReadyAwake, Slot DEF WaitForLock
<1>2. QueueStep(q, que'[q], {})
  BY <1>1 DEF WaitForLock, QueueStep, Becomes, Keeps, KeepsLockers, KeepsReceivers,
     KeepsSenders, MsgInv, Types, FreeUnlocked, IsQueue, Fields
<1>3. at'[p] = "lock" /\ que'[q].locked /\ que'[q].qwant
  BY <1>1 DEF WaitForLock, GoToSleep, MsgInv, Types, IsQueue, Fields
<1>4. Waits(p)'
  BY <1>1, <1>3 DEF Waits, Asleep, Q, WaitForLock
<1> QED BY <1>1, <1>2, <1>4, SamePool, SleepKeeps DEF WaitForLock, Sleeps, MsgInv, Types

\* msgsnd finds the queue full
LEMMA SndFullKeeps ==
    ASSUME MsgInv, NEW p \in Procs, SndFull(p)
    PROVE  MsgInv'
<1> DEFINE q == Q(p)
<1>1. q \in Slots /\ IsCall(call[p]) /\ Awake(p) /\ at[p] # "idle"
  BY ReadyAwake, Slot DEF SndFull, Sends, CanLock
<1>2. CASE call[p].nowait
  BY <1>1, <1>2, FailKeeps DEF SndFull
<1>3. CASE ~call[p].nowait
  <2>0. /\ que' = [que EXCEPT ![q].wwait = TRUE]
        /\ call' = [call EXCEPT ![p].limit = que[q].qbytes]
        /\ GoToSleep(p, "full")
    BY <1>3 DEF SndFull
  <2>1. QueueStep(q, que'[q], {})
    BY <1>1, <2>0 DEF QueueStep, Becomes, Keeps, KeepsLockers, KeepsReceivers,
       KeepsSenders, MsgInv, Types, FreeUnlocked, IsQueue, Fields
  <2>2. /\ at'[p] = "full" /\ Valid(p)
        /\ que'[q].wwait /\ que'[q].cbytes = que[q].cbytes
        /\ que'[q].alloc = que[q].alloc /\ que'[q].seq = que[q].seq
    BY <1>1, <2>0 DEF SndFull, Sends, CanLock, GoToSleep, MsgInv, Types, IsQueue, Fields
  <2>3. /\ IsCall(call'[p]) /\ call'[p].slot = call[p].slot /\ call'[p].size = call[p].size
        /\ call'[p].seq = call[p].seq /\ call'[p].limit = que[q].qbytes
        /\ DOMAIN call' = Procs /\ \A r \in Procs \ {p} : call'[r] = call[r]
    BY <1>1, <2>0 DEF IsCall, MsgInv, Types, IsQueue
  <2>4. call'[p].size + que'[q].cbytes > call'[p].limit
    BY <1>1, <2>2, <2>3 DEF SndFull, Room, IsCall, MsgInv, Types, IsQueue
  <2>5. Waits(p)'
    BY <2>2, <2>3, <2>4 DEF Waits, Asleep, Valid, Q
  <2> QED BY <1>1, <2>0, <2>1, <2>3, <2>5, SamePool, SleepKeeps DEF SndFull, Sleeps
<1> QED BY <1>2, <1>3

\* It waits for a header or for segments
LEMMA SndWaitKeeps ==
    ASSUME MsgInv, NEW p \in Procs, SndNoHeader(p) \/ SndNoSpace(p)
    PROVE  MsgInv'
<1>1. Q(p) \in Slots /\ IsCall(call[p]) /\ Awake(p) /\ at[p] # "idle"
  BY ReadyAwake, Slot DEF SndNoHeader, SndNoSpace, Sends, CanLock
<1>2. UNCHANGED <<que, msgfp, map>> /\ msgfp \in Int /\ mapwant \in BOOLEAN
  BY DEF SndNoHeader, SndNoSpace, poolVars, MsgInv, Types
<1>3. KeepsPool({}) /\ msgfp' \in Int /\ mapwant' \in BOOLEAN
  BY <1>2 DEF SndNoHeader, SndNoSpace, poolVars, KeepsPool
<1>4. QueueStep(Q(p), que[Q(p)], {})
  BY <1>1, <1>2, SameQueue
<1>5. CASE call[p].nowait
  <2>1. Return(p) /\ Wakeup({}) /\ UNCHANGED <<que, poolVars>>
    BY <1>2, <1>5 DEF SndNoHeader, SndNoSpace, WaitOr, poolVars
  <2> QED BY <1>1, <2>1, FailKeeps
<1>6. CASE ~call[p].nowait
  <2>1. /\ UNCHANGED call
        /\ \/ GoToSleep(p, "header") /\ msgfp = 0
           \/ GoToSleep(p, "space") /\ mapwant' /\ Fits(map, call[p].size) = {}
    BY <1>6 DEF SndNoHeader, SndNoSpace, WaitOr
  <2>2. Waits(p)'
    BY <1>2, <2>1 DEF GoToSleep, Waits, Asleep, MsgInv, Types
  <2> QED BY <1>1, <1>3, <1>4, <2>1, <2>2, SleepKeeps DEF Sleeps, MsgInv, Types
<1> QED BY <1>5, <1>6

\* A message goes to the end of queue q: the receivers are woken up
LEMMA AppendStep ==
    ASSUME MsgInv, NEW q \in Slots, NEW x, x.size \in Nat, NEW n, NEW W,
           \/ n = Append1(que[q], x)
           \/ n = Unlocked(Append1(que[q], x)) /\ WantsLock(q) \subseteq W,
           Becomes(q, n), AppendWakes(q) \subseteq W
    PROVE  QueueStep(q, n, W)
<1> DEFINE m == que[q]
<1>1. IsQueue(m) /\ (m.locked => m.alloc)
  BY DEF MsgInv, Types, FreeUnlocked
<1>2. IsQueue(Append1(m, x))
  BY <1>1, Append1Queue
<1>3. /\ IsQueue(n) /\ n.alloc = m.alloc /\ n.seq = m.seq /\ n.wwait = m.wwait
      /\ n.cbytes >= m.cbytes
      /\ n.locked => m.locked
      /\ m.locked /\ m.qwant => WantsLock(q) \subseteq W \/ (n.locked /\ n.qwant)
  BY <1>1, <1>2, Append1Queue, UnlockedQueue
<1>4. m.rwait => Chan("empty", q) \in W
  BY DEF AppendWakes
<1>5. m.locked /\ m.qwant => Chan("lock", q) \in W \/ (n.locked /\ n.qwant)
  BY <1>3 DEF WantsLock
<1> QED BY <1>1, <1>3, <1>4, <1>5
     DEF QueueStep, Keeps, KeepsLockers, KeepsReceivers, KeepsSenders

LEMMA SndEmptyKeeps ==
    ASSUME MsgInv, NEW p \in Procs, SndEmpty(p)
    PROVE  MsgInv'
<1> DEFINE q == Q(p)
           x == [NoMsg EXCEPT !.type = call[p].type]
<1>1. q \in Slots /\ Awake(p)
  BY ReadyAwake, Slot DEF SndEmpty, Sends, CanLock
<1>2. x.size \in Nat
  BY DEF NoMsg
<1>3. Becomes(q, Append1(que[q], x))
  BY <1>1 DEF SndEmpty, Becomes, MsgInv, Types
<1>4. QueueStep(q, Append1(que[q], x), AppendWakes(q))
  BY <1>1, <1>2, <1>3, AppendStep
<1>5. Ends(p, AppendWakes(q))
  BY <1>1, AwakeEnds DEF SndEmpty
<1>6. KeepsPool(AppendWakes(q)) /\ msgfp' \in Int /\ mapwant' \in BOOLEAN
  BY DEF SndEmpty, KeepsPool, MsgInv, Types
<1> QED BY <1>1, <1>4, <1>5, <1>6, EndKeeps

\* A call takes the lock, and copies
LEMMA TakeKeeps ==
    ASSUME MsgInv, NEW p \in Procs, CanLock(p),
           que' = [que EXCEPT ![Q(p)].locked = TRUE],
           at' = [at EXCEPT ![p] = "copy"], UNCHANGED <<call, wchan>>,
           NEW x, x.size \in Nat, held' = [held EXCEPT ![p] = x],
           KeepsPool({}), msgfp' \in Int, mapwant' \in BOOLEAN
    PROVE  MsgInv'
<1> DEFINE q == Q(p)
<1>1. q \in Slots /\ IsCall(call[p]) /\ Awake(p) /\ que[q].alloc /\ ~que[q].locked
  BY ReadyAwake, Slot DEF CanLock, Valid
<1>2. QueueStep(q, que'[q], {})
  BY <1>1 DEF QueueStep, Becomes, Keeps, KeepsLockers, KeepsReceivers,
     KeepsSenders, MsgInv, Types, IsQueue, Fields
<1>3. Others(p, {})
  BY DEF Others, MsgInv, Types
<1>4. Domains
  BY DEF Domains, MsgInv, Types
<1>5. Itself(p)
  BY <1>1 DEF Itself, Awake, MsgInv, Types
<1> QED BY <1>1, <1>2, <1>3, <1>4, <1>5, TurnKeeps DEF Rest

LEMMA SndTakeKeeps ==
    ASSUME MsgInv, NEW p \in Procs, SndTake(p)
    PROVE  MsgInv'
<1> DEFINE n == call[p].size
           a == Malloc(map, n)
           x == [type |-> call[p].type, size |-> n, spot |-> a]
<1>1. CanLock(p) /\ IsCall(call[p])
  BY ReadyAwake, Slot DEF SndTake, Sends, CanLock
<1>2. x.size \in Nat
  BY <1>1 DEF IsCall
<1>3. KeepsPool({}) /\ msgfp' \in Int /\ mapwant' \in BOOLEAN
  BY DEF SndTake, KeepsPool, MsgInv, Types
<1>4. /\ que' = [que EXCEPT ![Q(p)].locked = TRUE]
      /\ at' = [at EXCEPT ![p] = "copy"] /\ UNCHANGED <<call, wchan>>
      /\ held' = [held EXCEPT ![p] = x]
  BY DEF SndTake
<1> QED BY <1>1, <1>2, <1>3, <1>4, TakeKeeps

LEMMA RcvTakeKeeps ==
    ASSUME MsgInv, NEW p \in Procs, RcvTake(p)
    PROVE  MsgInv'
<1>1. CanLock(p) /\ Q(p) \in Slots
  BY ReadyAwake, Slot DEF RcvTake, Receives, CanLock
<1>2. PICK i \in DOMAIN que[Q(p)].chain : held' = [held EXCEPT ![p] = que[Q(p)].chain[i]]
  BY DEF RcvTake
<1>3. que[Q(p)].chain[i].size \in Nat
  BY <1>1, <1>2 DEF MsgInv, Types, IsQueue, IsChain
<1>4. /\ que' = [que EXCEPT ![Q(p)].locked = TRUE]
      /\ at' = [at EXCEPT ![p] = "copy"] /\ UNCHANGED <<poolVars, call, wchan>>
  BY DEF RcvTake
<1> QED BY <1>1, <1>2, <1>3, <1>4, SamePool, TakeKeeps

LEMMA SndDoneKeeps ==
    ASSUME MsgInv, NEW p \in Procs, SndDone(p)
    PROVE  MsgInv'
<1> DEFINE q == Q(p)
           n == Unlocked(Append1(que[q], held[p]))
           W == AppendWakes(q) \cup WantsLock(q)
<1>1. q \in Slots /\ Awake(p)
  BY ReadyAwake, Slot DEF SndDone
<1>2. Becomes(q, n)
  BY <1>1 DEF SndDone, Becomes, MsgInv, Types
<1>3. held[p].size \in Nat
  BY DEF MsgInv, Types
<1>4. QueueStep(q, n, W)
  BY <1>1, <1>2, <1>3, AppendStep
<1>5. Ends(p, W)
  BY <1>1, AwakeEnds DEF SndDone
<1> QED BY <1>1, <1>4, <1>5, SamePool, EndKeeps DEF SndDone

\* The lock is given back, and the rest of the queue is as it was
LEMMA UnlockStep ==
    ASSUME MsgInv, NEW q \in Slots, que' = [que EXCEPT ![q] = Unlocked(que[q])],
           NEW W, WantsLock(q) \subseteq W
    PROVE  QueueStep(q, Unlocked(que[q]), W)
<1>1. Becomes(q, Unlocked(que[q])) /\ IsQueue(que[q])
  BY DEF Becomes, MsgInv, Types
<1>2. que[q].qwant => Chan("lock", q) \in W
  BY DEF WantsLock
<1> QED BY <1>1, <1>2, UnlockedQueue DEF QueueStep, Keeps, KeepsLockers, KeepsReceivers, KeepsSenders, IsQueue

LEMMA CopyFailedKeeps ==
    ASSUME MsgInv, NEW p \in Procs, SndFault(p)
    PROVE  MsgInv'
<1> DEFINE q == Q(p)
           m == FreeText(map, held[p])
           W == WantsLock(q) \cup FreeWakes(1, m)
<1>1. q \in Slots /\ Awake(p)
  BY ReadyAwake, Slot DEF SndFault
<1>2. QueueStep(q, Unlocked(que[q]), W)
  BY <1>1, UnlockStep DEF SndFault
<1>3. KeepsPool(W) /\ msgfp' \in Int /\ mapwant' \in BOOLEAN
  BY FreedPool DEF SndFault
<1>4. Ends(p, W)
  BY <1>1, AwakeEnds DEF SndFault
<1> QED BY <1>1, <1>2, <1>3, <1>4, EndKeeps

LEMMA RcvFaultKeeps ==
    ASSUME MsgInv, NEW p \in Procs, RcvFault(p)
    PROVE  MsgInv'
<1>1. Q(p) \in Slots /\ Awake(p)
  BY ReadyAwake, Slot DEF RcvFault
<1>2. QueueStep(Q(p), Unlocked(que[Q(p)]), WantsLock(Q(p)))
  BY <1>1, UnlockStep DEF RcvFault
<1>3. Ends(p, WantsLock(Q(p)))
  BY <1>1, AwakeEnds DEF RcvFault
<1> QED BY <1>1, <1>2, <1>3, SamePool, EndKeeps DEF RcvFault

LEMMA RcvNoneKeeps ==
    ASSUME MsgInv, NEW p \in Procs, RcvNone(p)
    PROVE  MsgInv'
<1> DEFINE q == Q(p)
<1>1. q \in Slots /\ IsCall(call[p]) /\ Awake(p) /\ at[p] # "idle" /\ Valid(p)
  BY ReadyAwake, Slot DEF RcvNone, Receives, CanLock
<1>2. CASE call[p].nowait
  BY <1>1, <1>2, FailKeeps DEF RcvNone
<1>3. CASE ~call[p].nowait
  <2>1. /\ que' = [que EXCEPT ![q].rwait = TRUE]
        /\ GoToSleep(p, "empty") /\ UNCHANGED call
    BY <1>3 DEF RcvNone
  <2>2. QueueStep(q, que'[q], {})
    BY <1>1, <2>1 DEF QueueStep, Becomes, Keeps, KeepsLockers, KeepsReceivers,
       KeepsSenders, MsgInv, Types, FreeUnlocked, IsQueue, Fields
  <2>3. /\ at'[p] = "empty" /\ que'[q].rwait /\ que'[q].chain = que[q].chain
        /\ que'[q].alloc = que[q].alloc /\ que'[q].seq = que[q].seq
    BY <1>1, <2>1 DEF GoToSleep, MsgInv, Types, IsQueue, Fields
  <2>4. Waits(p)'
    BY <1>1, <2>1, <2>3 DEF RcvNone, Waits, Asleep, Valid, Q
  <2> QED BY <1>1, <2>1, <2>2, <2>4, SamePool, SleepKeeps DEF RcvNone, Sleeps, MsgInv, Types
<1> QED BY <1>2, <1>3

LEMMA RcvDoneKeeps ==
    ASSUME MsgInv, NEW p \in Procs, RcvDone(p)
    PROVE  MsgInv'
<1> DEFINE q == Q(p)
           m == FreeText(map, held[p])
           W == RemoveWakes(q) \cup FreeWakes(1, m) \cup WantsLock(q)
<1>1. q \in Slots /\ Awake(p) /\ IsQueue(que[q])
  BY ReadyAwake, Slot DEF RcvDone, MsgInv, Types
<1>2. PICK i \in DOMAIN que[q].chain : que' = [que EXCEPT ![q] = Unlocked(Removed(que[q], i))]
  BY DEF RcvDone
<1> DEFINE n == Unlocked(Removed(que[q], i))
<1>3. Becomes(q, n)
  BY <1>1, <1>2 DEF Becomes, MsgInv, Types
<1>4. /\ IsQueue(n) /\ ~n.locked /\ n.alloc = que[q].alloc /\ n.seq = que[q].seq
      /\ n.rwait = que[q].rwait /\ n.chain = RemoveAt(que[q].chain, i)
  BY <1>1, RemovedQueue, UnlockedQueue
<1>5. /\ que[q].qwant => Chan("lock", q) \in W
      /\ que[q].wwait => Chan("full", q) \in W
  BY DEF WantsLock, RemoveWakes
<1>6. \A t : Candidates(que[q].chain, t) = {} => Candidates(n.chain, t) = {}
  BY <1>1, <1>4, NoneAfterRemove DEF IsQueue
<1>7. QueueStep(q, n, W)
  BY <1>3, <1>4, <1>5, <1>6 DEF QueueStep, Keeps, KeepsLockers, KeepsReceivers, KeepsSenders
<1>8. KeepsPool(W) /\ msgfp' \in Int /\ mapwant' \in BOOLEAN
  BY FreedPool DEF RcvDone
<1>9. Ends(p, W)
  BY <1>1, AwakeEnds DEF RcvDone
<1> QED BY <1>1, <1>7, <1>8, <1>9, EndKeeps

LEMMA RmIdKeeps ==
    ASSUME MsgInv, NEW p \in Procs, RmId(p)
    PROVE  MsgInv'
<1> DEFINE q == Q(p)
           m == FoldLeft(FreeText, map, que[q].chain)
           k == Len(que[q].chain)
           W == RemoveWakes(q) \cup FreeWakes(k, m) \cup
                IF que[q].rwait THEN {Chan("empty", q)} ELSE {}
           n == [NewQueue(IF que[q].seq = MaxSeq THEN 0 ELSE que[q].seq + 1, 0)
                   EXCEPT !.alloc = FALSE, !.qbytes = que[q].qbytes]
<1>1. q \in Slots /\ Awake(p) /\ IsQueue(que[q]) /\ ~que[q].locked
  BY ReadyAwake, Slot DEF RmId, CanLock, MsgInv, Types
<1>2. que' = [que EXCEPT ![q] = n] /\ Free(k, m) /\ Return(p) /\ Wakeup(W)
  <2> HIDE DEF m, k, W, n
  <2> QED BY DEF RmId, m, k, W, n
<1>3. Becomes(q, n)
  <2> HIDE DEF n
  <2> QED BY <1>1, <1>2 DEF Becomes, MsgInv, Types
<1>4. IsQueue(n) /\ ~n.locked
  <2>1. IsChain(<<>>)
    BY DEF IsChain
  <2> QED BY <1>1, <2>1 DEF IsQueue, NewQueue, Fields
<1>5. /\ que[q].rwait => Chan("empty", q) \in W
      /\ que[q].wwait => Chan("full", q) \in W
  BY DEF RemoveWakes
<1>6. QueueStep(q, n, W)
  <2> HIDE DEF n, W
  <2> QED BY <1>1, <1>3, <1>4, <1>5
      DEF QueueStep, Keeps, KeepsLockers, KeepsReceivers, KeepsSenders
<1>7. k \in Nat
  BY <1>1, LenProperties DEF IsQueue, IsChain
<1>8. KeepsPool(W) /\ msgfp' \in Int /\ mapwant' \in BOOLEAN
  <2> HIDE DEF m, k
  <2>1. FreeWakes(k, m) \subseteq W
    OBVIOUS
  <2> HIDE DEF W
  <2> QED BY <1>2, <1>7, <2>1, FreedPool
<1>9. Ends(p, W)
  <2> HIDE DEF W
  <2> QED BY <1>1, <1>2, AwakeEnds
<1> HIDE DEF n, W
<1> QED BY <1>1, <1>6, <1>8, <1>9, EndKeeps

\* IPC_SET changes msg_qbytes only, which no sleeping process looks at
LEMMA IpcSetKeeps ==
    ASSUME MsgInv, NEW p \in Procs, IpcSet(p)
    PROVE  MsgInv'
<1> DEFINE q == Q(p)
<1>1. q \in Slots /\ Awake(p) /\ IsCall(call[p])
  BY ReadyAwake, Slot DEF IpcSet
<1>2. QueueStep(q, que'[q], {})
  BY <1>1 DEF IpcSet, QueueStep, Becomes, Keeps, KeepsLockers, KeepsReceivers, KeepsSenders,
     MsgInv, Types, FreeUnlocked, IsQueue, IsCall, Fields
<1>3. Ends(p, {})
  BY <1>1, AwakeEnds DEF IpcSet
<1> QED BY <1>1, <1>2, <1>3, SamePool, EndKeeps DEF IpcSet

LEMMA CallKeeps ==
    ASSUME MsgInv, NEW p \in Procs, NEW c \in Calls, NEW q \in Slots, Call(p, c, q)
    PROVE  MsgInv'
<1>1. Awake(p)
  BY DEF Call, MsgInv, Channels, Sleeps
<1>2. IsCall(call'[p])
  BY MsgAssumption DEF Call, IsCall, MsgInv, Types
<1>3. Others(p, {})
  BY DEF Call, Others, MsgInv, Types
<1>4. Domains
  BY DEF Call, Domains, MsgInv, Types
<1>5. Itself(p)
  BY <1>1, <1>2 DEF Call, Itself, Awake
<1>6. QueueStep(q, que[q], {})
  BY SameQueue DEF Call
<1> QED BY <1>3, <1>4, <1>5, <1>6, SamePool, TurnKeeps DEF Call, Rest

\* Nobody sleeps on a queue that was free
LEMMA MsgGetKeeps ==
    ASSUME MsgInv, NEW q \in Slots, MsgGet(q)
    PROVE  MsgInv'
<1>1. PICK p : p \notin Procs
  BY NoSetContainsEverything
<1>2. que' = [que EXCEPT ![q] = NewQueue(que[q].seq, que[q].cbytes)]
      /\ ~que[q].alloc /\ UNCHANGED <<poolVars, call, at, held, wchan>>
  BY DEF MsgGet
<1>3. IsQueue(NewQueue(que[q].seq, que[q].cbytes))
  <2>1. IsChain(<<>>)
    BY DEF IsChain
  <2> QED BY <2>1, MsgAssumption DEF IsQueue, NewQueue, Fields, MsgInv, Types
<1>4. QueueStep(q, NewQueue(que[q].seq, que[q].cbytes), {})
  BY <1>2, <1>3 DEF QueueStep, Becomes, Keeps, KeepsLockers, KeepsReceivers, KeepsSenders,
     MsgInv, Types, FreeUnlocked, NewQueue
<1>5. Others(p, {}) /\ Domains
  BY <1>2 DEF Others, Domains, MsgInv, Types
<1> QED BY <1>1, <1>2, <1>4, <1>5, SamePool, TurnKeeps DEF Rest

-------------------------------------------------------------------------------
(* The theorem                                                             *)

LEMMA MsgInvInit == MsgInit => MsgInv
<1> SUFFICES ASSUME MsgInit PROVE MsgInv
  OBVIOUS
<1>1. IsChain(<<>>)
  BY DEF IsChain
<1>2. Types
  <2>1. IsQueue(NewQueue(0, 0))
    BY <1>1, MsgAssumption DEF IsQueue, NewQueue, Fields
  <2>2. DOMAIN que = Slots /\ \A q \in Slots : IsQueue(que[q])
    BY <2>1 DEF MsgInit, IsQueue, Fields
  <2>3. msgfp \in Int /\ mapwant \in BOOLEAN
    <3>1. Hdrs \in Int
      BY MsgAssumption
    <3> QED BY <3>1 DEF MsgInit
  <2>4. \A p \in Procs : held[p].size \in Nat
    BY DEF MsgInit, NoMsg
  <2> QED BY <2>2, <2>3, <2>4 DEF MsgInit, Types
<1>3. \A p \in Procs : Awake(p)
  BY DEF MsgInit, Awake
<1>4. Channels /\ NoLostWakeup
  BY <1>3 DEF Channels, NoLostWakeup, LockWaits, ReceiverWaits, SenderWaits, PoolWaits, Asleep
<1>5. FreeUnlocked
  BY DEF MsgInit, FreeUnlocked, NewQueue
<1> QED BY <1>2, <1>4, <1>5 DEF MsgInv

LEMMA MsgInvNext == MsgInv /\ [MsgNext]_<<msgVars, wchan>> => MsgInv'
<1> SUFFICES ASSUME MsgInv, [MsgNext]_<<msgVars, wchan>> PROVE MsgInv'
  OBVIOUS
<1>1. ASSUME NEW p \in Procs, Turn(p) PROVE MsgInv'
  <2>1. CASE Gone(p)
    BY <2>1, ReadyAwake, FailKeeps DEF Gone
  <2>2. CASE WaitForLock(p)
    BY <2>2, WaitForLockKeeps
  <2>3. CASE Interrupt(p)
    BY <2>3, InterruptKeeps
  <2>4. CASE SndFull(p)
    BY <2>4, SndFullKeeps
  <2>5. CASE SndNoHeader(p) \/ SndNoSpace(p)
    BY <2>5, SndWaitKeeps
  <2>6. CASE SndEmpty(p)
    BY <2>6, SndEmptyKeeps
  <2>7. CASE SndTake(p)
    BY <2>7, SndTakeKeeps
  <2>8. CASE SndDone(p)
    BY <2>8, SndDoneKeeps
  <2>9. CASE SndFault(p)
    BY <2>9, CopyFailedKeeps
  <2>10. CASE RcvNone(p)
    BY <2>10, RcvNoneKeeps
  <2>11. CASE RcvTooBig(p)
    BY <2>11, ReadyAwake, FailKeeps DEF RcvTooBig, Receives, CanLock
  <2>12. CASE RcvTake(p)
    BY <2>12, RcvTakeKeeps
  <2>13. CASE RcvDone(p)
    BY <2>13, RcvDoneKeeps
  <2>14. CASE RcvFault(p)
    BY <2>14, RcvFaultKeeps
  <2>15. CASE RmId(p)
    BY <2>15, RmIdKeeps
  <2>16. CASE IpcSet(p)
    BY <2>16, IpcSetKeeps
  <2> QED BY <1>1, <2>1, <2>2, <2>3, <2>4, <2>5, <2>6, <2>7, <2>8, <2>9, <2>10, <2>11, <2>12,
             <2>13, <2>14, <2>15, <2>16 DEF Turn
<1>2. ASSUME NEW p \in Procs, NEW c \in Calls, NEW q \in Slots, Call(p, c, q) PROVE MsgInv'
  BY <1>2, CallKeeps
<1>3. ASSUME NEW q \in Slots, MsgGet(q) PROVE MsgInv'
  BY <1>3, MsgGetKeeps
<1>4. CASE UNCHANGED <<msgVars, wchan>>
  <2>1. UNCHANGED <<que, msgfp, map, mapwant, call, at, held, wchan>>
    BY <1>4 DEF msgVars, poolVars
  <2>2. Types' /\ Channels' /\ FreeUnlocked'
    BY <2>1 DEF MsgInv, Types, Channels, Awake, Q, FreeUnlocked
  <2>3. ASSUME NEW p \in Procs PROVE Waits(p)'
    <3>1. Waits(p)
      BY WaitsAll DEF MsgInv
    <3> QED BY <2>1, <3>1 DEF Waits, Asleep, Awake, Valid, Q
  <2>4. NoLostWakeup'
    BY <2>3 DEF NoLostWakeup, LockWaits, ReceiverWaits, SenderWaits, PoolWaits, Waits
  <2> QED BY <2>2, <2>4 DEF MsgInv
<1> QED BY <1>1, <1>2, <1>3, <1>4 DEF MsgNext

\* Nobody sleeps in msgsnd, msgrcv or msgctl for a lock, a message, room, a header or
\* segments that are there, whatever senders, receivers, removals and signals do.
THEOREM MessagesNoLostWakeup == MsgSpec => []NoLostWakeup
<1>1. MsgInv => NoLostWakeup
  BY DEF MsgInv
<1> QED BY <1>1, MsgInvInit, MsgInvNext, PTL DEF MsgSpec

-----------------------------------------------------------------------------
(* msg.c implements TypedQueues, for any number of processes and queues:   *)
(* the lock that msgrcv holds while it copies a message out keeps its      *)
(* choice right, so that the receive takes effect in one step.             *)

\* What TypedQueues sees of a queue is consistent: a free entry has no message
QueueOK(m) == /\ m.seq \in 0 .. MaxSeq
              /\ ~m.alloc => m.chain = <<>>
              /\ \A i \in DOMAIN m.chain : m.chain[i].type \in Int

\* A call that receives asks for something; a process without a call does not
CallOK(p) == IF at[p] = "idle" THEN call[p] = NoCall ELSE call[p].type \in Int

\* msgrcv still holds the message that it has to choose
IsChosen(p) == \E i \in DOMAIN que[Q(p)].chain :
                /\ Picks(que[Q(p)].chain, call[p].type, i)
                /\ que[Q(p)].chain[i] = held[p] /\ held[p].size <= call[p].size

\* A process that copies holds the lock of the queue it asked for
Owns(p) == at[p] = "copy" =>
              que[Q(p)].locked /\ Valid(p) /\ (call[p].op = "rcv" => IsChosen(p))

\* One process at a time copies to or from a queue
OneCopies == \A p, r \in Procs :
                at[p] = "copy" /\ at[r] = "copy" /\ Q(p) = Q(r) => p = r

\* What makes each step a step of TypedQueues
CopyInv == /\ \A q \in Slots : QueueOK(que[q])
           /\ \A p \in Procs : CallOK(p) /\ Owns(p) /\ held[p].type \in Int
           /\ OneCopies

-------------------------------------------------------------------------------
(* The steps that keep it                                                  *)

\* What TypedQueues sees of queue q stays as it is
SameBox(q) == /\ que'[q].alloc = que[q].alloc /\ que'[q].seq = que[q].seq
              /\ que'[q].chain = que[q].chain

\* A turn of p that changes nothing of the other processes, and no queue but q
Only(p, q) ==
    /\ \A r \in Procs \ {p} : at'[r] = at[r] /\ call'[r] = call[r] /\ held'[r] = held[r]
    /\ \A s \in Slots \ {q} : que'[s] = que[s]

\* It leaves a queue that is locked by another one alone
Respects(p, q) ==
    que[q].locked => \/ p \in Procs /\ at[p] = "copy" /\ Q(p) = q
                     \/ que'[q].locked /\ SameBox(q)

LEMMA StepKeeps ==
    ASSUME MsgInv, CopyInv, NEW p, NEW q \in Slots, Only(p, q), QueueOK(que'[q]),
           Respects(p, q),
           p \in Procs => CallOK(p)' /\ Owns(p)' /\ held'[p].type \in Int,
           p \in Procs /\ at'[p] = "copy" => ~que[q].locked /\ Q(p)' = q
    PROVE  CopyInv'
<1>1. ASSUME NEW r \in Procs \ {p}, at[r] = "copy"
      PROVE  /\ Q(r) \in Slots /\ que[Q(r)].locked
             /\ p \in Procs /\ at[p] = "copy" => Q(p) # Q(r)
             /\ que'[Q(r)].locked /\ SameBox(Q(r))
  <2>1. Q(r) \in Slots /\ que[Q(r)].locked
    BY <1>1, Slot DEF CopyInv, Owns
  <2>2. p \in Procs /\ at[p] = "copy" => Q(p) # Q(r)
    BY <1>1 DEF CopyInv, OneCopies
  <2>3. CASE Q(r) = q
    BY <2>1, <2>2, <2>3 DEF Respects
  <2>4. CASE Q(r) # q
    BY <2>1, <2>2, <2>4 DEF Only, SameBox
  <2> QED BY <2>1, <2>2, <2>3, <2>4
<1>2. \A s \in Slots : QueueOK(que'[s])
  BY DEF Only, CopyInv
<1>3. ASSUME NEW r \in Procs \ {p} PROVE CallOK(r)' /\ Owns(r)' /\ held'[r].type \in Int
  <2>1. at'[r] = at[r] /\ call'[r] = call[r] /\ held'[r] = held[r] /\ Q(r)' = Q(r)
    BY DEF Only, Q
  <2>2. CallOK(r)' /\ held'[r].type \in Int
    BY <2>1 DEF CopyInv, CallOK
  <2>3. CASE at[r] = "copy"
    <3>1. que'[Q(r)].locked /\ SameBox(Q(r))
      BY <1>1, <2>3
    <3>2. Valid(r) /\ (call[r].op = "rcv" => IsChosen(r))
      BY <2>3 DEF CopyInv, Owns
    <3> QED BY <2>1, <2>2, <3>1, <3>2 DEF Owns, Valid, IsChosen, SameBox
  <2>4. CASE at[r] # "copy"
    BY <2>1, <2>2, <2>4 DEF Owns
  <2> QED BY <2>3, <2>4
<1>4. OneCopies'
  <2> SUFFICES ASSUME NEW r \in Procs, NEW s \in Procs, r # s,
                      at'[r] = "copy", at'[s] = "copy", Q(r)' = Q(s)'
               PROVE  FALSE
    BY DEF OneCopies
  <2>1. \A t \in Procs \ {p} : at'[t] = at[t] /\ Q(t)' = Q(t)
    BY DEF Only, Q
  <2>2. ASSUME NEW t \in Procs \ {p}, at[t] = "copy", p \in Procs, at'[p] = "copy"
        PROVE  Q(t)' # Q(p)'
    BY <1>1, <2>1, <2>2
  <2> QED BY <2>1, <2>2 DEF CopyInv, OneCopies
<1> QED BY <1>2, <1>3, <1>4 DEF CopyInv

-------------------------------------------------------------------------------
(* Turns and steps of TypedQueues                                          *)

\* The mapping of Msg!Promise
boxes == [q \in Slots |-> [open |-> que[q].alloc, seq |-> que[q].seq, msgs |-> que[q].chain]]
AskOf(p) == IF call[p].op = "rcv"
            THEN [slot |-> Q(p), seq |-> call[p].seq, type |-> call[p].type,
                  room |-> call[p].size]
            ELSE [slot |-> "none"]
asks == [p \in Procs |-> AskOf(p)]
Simulates == [Promise!Next]_<<boxes, asks>>

\* What msgrcv picks is what TypedQueues selects
LEMMA PicksSelects ==
    ASSUME NEW c, IsChain(c), \A j \in DOMAIN c : c[j].type \in Int,
           NEW t \in Int, NEW i, Picks(c, t, i)
    PROVE  i \in DOMAIN c /\ Promise!Selects(t, c, i)
<1>1. DOMAIN c = 1 .. Len(c) /\ Len(c) \in Nat
  BY DEF IsChain
<1>2. i \in DOMAIN c /\ Takes(t, c[i].type)
  BY DEF Picks, Candidates
<1>3. CASE t = 0
  BY <1>1, <1>2, <1>3 DEF Picks, Candidates, Takes, Promise!Selects
<1>4. CASE t > 0
  <2>1. c[i].type = t
    BY <1>2, <1>4 DEF Takes
  <2>2. \A j \in 1 .. i - 1 : c[j].type # t
    BY <1>1, <1>2, <1>4 DEF Picks, Candidates, Takes
  <2>3. t # 0 /\ ~(t < 0)
    BY <1>4
  <2> QED BY <1>2, <1>4, <2>1, <2>2, <2>3 DEF Promise!Selects
<1>5. CASE t < 0
  <2>1. c[i].type <= -t
    BY <1>2, <1>5 DEF Takes
  <2>2. \A j \in DOMAIN c : c[j].type >= c[i].type
    BY <1>2, <1>5, <2>1 DEF Picks, Candidates, Takes
  <2>3. \A j \in 1 .. i - 1 : c[j].type # c[i].type
    BY <1>1, <1>2, <1>5 DEF Picks, Candidates, Takes
  <2> QED BY <1>2, <1>5, <2>1, <2>2, <2>3 DEF Promise!Selects
<1> QED BY <1>3, <1>4, <1>5

\* A turn that TypedQueues does not see
LEMMA Stutters ==
    ASSUME \A q \in Slots : SameBox(q), \A p \in Procs : AskOf(p)' = AskOf(p)
    PROVE  Simulates
<1>1. boxes' = boxes
  BY DEF boxes, SameBox
<1>2. asks' = asks
  BY DEF asks
<1> QED BY <1>1, <1>2 DEF Simulates

\* A call ends and leaves the messages of all queues alone: a receive gives up
LEMMA Quits ==
    ASSUME MsgInv, NEW p \in Procs, Return(p), \A q \in Slots : SameBox(q)
    PROVE  Simulates
<1>1. call' = [call EXCEPT ![p] = NoCall] /\ DOMAIN call = Procs
  BY DEF Return, MsgInv, Types
<1>2. AskOf(p)' = [slot |-> "none"] /\ \A r \in Procs \ {p} : AskOf(r)' = AskOf(r)
  BY <1>1 DEF AskOf, NoCall, Q
<1>3. CASE call[p].op # "rcv"
  <2>1. AskOf(p) = [slot |-> "none"]
    BY <1>3 DEF AskOf
  <2> QED BY <1>2, <2>1, Stutters
<1>4. CASE call[p].op = "rcv"
  <2>1. asks[p] # Promise!NoAsk
    BY <1>4 DEF asks, AskOf, Promise!NoAsk
  <2>2. asks' = [asks EXCEPT ![p] = Promise!NoAsk]
    BY <1>2 DEF asks, Promise!NoAsk
  <2>3. boxes' = boxes
    BY DEF boxes, SameBox
  <2>4. Promise!GiveUp(p)
    BY <2>1, <2>2, <2>3 DEF Promise!GiveUp, boxes, asks, AskOf
  <2> QED BY <2>4 DEF Simulates, Promise!Next
<1> QED BY <1>3, <1>4

\* The owner of the lock may do what it likes; others leave a locked queue as it is
Polite(p, q) == at[p] = "copy" \/ (que[q].locked => que'[q].locked)

\* A call ends, and the messages of its queue are as they were
LEMMA QuitKeeps ==
    ASSUME MsgInv, CopyInv, NEW p \in Procs, at[p] # "idle", Return(p),
           \A s \in Slots \ {Q(p)} : que'[s] = que[s], SameBox(Q(p)), Polite(p, Q(p))
    PROVE  CopyInv' /\ Simulates
<1>1. Q(p) \in Slots
  BY Slot
<1>2. at'[p] = "idle" /\ call'[p] = NoCall /\ held'[p] = NoMsg
  BY DEF Return, MsgInv, Types
<1>3. Only(p, Q(p))
  BY DEF Only, Return, MsgInv, Types
<1>4. QueueOK(que'[Q(p)])
  BY <1>1 DEF QueueOK, CopyInv, SameBox
<1>5. Respects(p, Q(p))
  BY DEF Respects, Polite
<1>6. CallOK(p)' /\ Owns(p)' /\ held'[p].type \in Int
  BY <1>2 DEF CallOK, Owns, NoMsg
<1>7. \A q \in Slots : SameBox(q)
  BY DEF SameBox
<1> QED BY <1>1, <1>2, <1>3, <1>4, <1>5, <1>6, <1>7, StepKeeps, Quits

\* A process goes to sleep in its call, or begins to copy
LEMMA GoesOnKeeps ==
    ASSUME MsgInv, CopyInv, NEW p \in Procs, at[p] # "idle",
           NEW a \in Sleeps \cup {"copy"}, at' = [at EXCEPT ![p] = a],
           call'[p].op = call[p].op, call'[p].slot = call[p].slot,
           call'[p].seq = call[p].seq, call'[p].type = call[p].type,
           call'[p].size = call[p].size, \A r \in Procs \ {p} : call'[r] = call[r],
           \A r \in Procs \ {p} : held'[r] = held[r], held'[p].type \in Int,
           \A s \in Slots \ {Q(p)} : que'[s] = que[s], SameBox(Q(p)),
           que[Q(p)].locked => que'[Q(p)].locked,
           a = "copy" => ~que[Q(p)].locked /\ Owns(p)'
    PROVE  CopyInv' /\ Simulates
<1>1. Q(p) \in Slots /\ Q(p)' = Q(p)
  BY Slot DEF Q
<1>2. at'[p] = a /\ a # "idle"
  BY DEF MsgInv, Types, Sleeps
<1>3. Only(p, Q(p))
  BY DEF Only, MsgInv, Types
<1>4. QueueOK(que'[Q(p)])
  BY <1>1 DEF QueueOK, CopyInv, SameBox
<1>5. Respects(p, Q(p))
  BY DEF Respects
<1>6. CallOK(p)' /\ Owns(p)'
  BY <1>2 DEF CopyInv, CallOK, Owns
<1>7. \A q \in Slots : SameBox(q)
  BY DEF SameBox
<1>8. \A r \in Procs : AskOf(r)' = AskOf(r)
  BY DEF AskOf, Q
<1> QED BY <1>1, <1>2, <1>3, <1>4, <1>5, <1>6, <1>7, <1>8, StepKeeps, Stutters

LEMMA InterruptStep ==
    ASSUME MsgInv, CopyInv, NEW p \in Procs, Interrupt(p)
    PROVE  CopyInv' /\ Simulates
<1>1. Q(p) \in Slots /\ at[p] # "idle"
  BY Slot DEF Interrupt, Sleeps
<1>2. /\ \A s \in Slots \ {Q(p)} : que'[s] = que[s]
      /\ SameBox(Q(p)) /\ que'[Q(p)].locked = que[Q(p)].locked
  <2>1. CASE at[p] = "lock"
    BY <1>1, <2>1 DEF Interrupt, SameBox, MsgInv, Types, IsQueue, Fields
  <2>2. CASE at[p] = "full"
    BY <1>1, <2>2 DEF Interrupt, SameBox, MsgInv, Types, IsQueue, Fields
  <2>3. CASE at[p] \notin {"lock", "full"}
    BY <1>1, <2>3 DEF Interrupt, SameBox
  <2> QED BY <2>1, <2>2, <2>3
<1> QED BY <1>1, <1>2, QuitKeeps DEF Interrupt, Polite

LEMMA WaitForLockStep ==
    ASSUME MsgInv, CopyInv, NEW p \in Procs, WaitForLock(p)
    PROVE  CopyInv' /\ Simulates
<1>1. Q(p) \in Slots /\ at[p] # "idle"
  BY ReadyAwake, Slot DEF WaitForLock
<1>2. /\ que' = [que EXCEPT ![Q(p)].qwant = TRUE]
      /\ at' = [at EXCEPT ![p] = "lock"] /\ UNCHANGED <<call, held>>
  BY DEF WaitForLock, GoToSleep
<1>3. /\ \A s \in Slots \ {Q(p)} : que'[s] = que[s]
      /\ SameBox(Q(p)) /\ que'[Q(p)].locked = que[Q(p)].locked
  BY <1>1, <1>2 DEF SameBox, MsgInv, Types, IsQueue, Fields
<1>4. held'[p].type \in Int
  BY <1>2 DEF CopyInv
<1> QED BY <1>1, <1>2, <1>3, <1>4, GoesOnKeeps DEF Sleeps

\* msgsnd waits or fails
LEMMA SndWaitStep ==
    ASSUME MsgInv, CopyInv, NEW p \in Procs,
           SndFull(p) \/ SndNoHeader(p) \/ SndNoSpace(p)
    PROVE  CopyInv' /\ Simulates
<1>1. Q(p) \in Slots /\ at[p] # "idle" /\ ~que[Q(p)].locked
  BY ReadyAwake, Slot DEF SndFull, SndNoHeader, SndNoSpace, Sends, CanLock
<1>2. CASE call[p].nowait
  <2>1. Return(p) /\ que' = que
    BY <1>2 DEF SndFull, SndNoHeader, SndNoSpace, WaitOr
  <2> QED BY <1>1, <2>1, QuitKeeps DEF SameBox, Polite
<1>3. CASE ~call[p].nowait
  <2>1. PICK a \in Sleeps : at' = [at EXCEPT ![p] = a] /\ held' = held
    BY <1>3 DEF SndFull, SndNoHeader, SndNoSpace, WaitOr, GoToSleep, Sleeps
  <2>2. /\ \A s \in Slots \ {Q(p)} : que'[s] = que[s]
        /\ SameBox(Q(p)) /\ que'[Q(p)].locked = que[Q(p)].locked
    BY <1>1, <1>3 DEF SndFull, SndNoHeader, SndNoSpace, SameBox, MsgInv, Types, IsQueue,
       Fields
  <2>3. /\ call'[p].op = call[p].op /\ call'[p].slot = call[p].slot
        /\ call'[p].seq = call[p].seq /\ call'[p].type = call[p].type
        /\ call'[p].size = call[p].size /\ \A r \in Procs \ {p} : call'[r] = call[r]
    <3>1. CASE SndFull(p)
      <4>1. call' = [call EXCEPT ![p].limit = que[Q(p)].qbytes]
        BY <1>3, <3>1 DEF SndFull
      <4>2. DOMAIN call = Procs /\ IsCall(call[p])
        BY <1>1 DEF MsgInv, Types
      <4> QED BY <4>1, <4>2 DEF IsCall
    <3>2. CASE SndNoHeader(p) \/ SndNoSpace(p)
      BY <1>3, <3>2 DEF SndNoHeader, SndNoSpace, WaitOr
    <3> QED BY <3>1, <3>2
  <2>4. held'[p].type \in Int
    BY <2>1 DEF CopyInv
  <2>5. a # "copy"
    BY DEF Sleeps
  <2> QED BY <1>1, <2>1, <2>2, <2>3, <2>4, <2>5, GoesOnKeeps
<1> QED BY <1>2, <1>3

\* A message is put on queue q, and the call ends
LEMMA PutStep ==
    ASSUME MsgInv, CopyInv, NEW p \in Procs, at[p] # "idle", Return(p), call[p].op = "snd",
           NEW q \in Slots, q = Q(p), que[q].alloc, NEW x, x.type \in Int,
           \A s \in Slots \ {q} : que'[s] = que[s],
           que'[q].alloc = que[q].alloc, que'[q].seq = que[q].seq,
           que'[q].chain = Append(que[q].chain, x),
           at[p] = "copy" \/ ~que[q].locked
    PROVE  CopyInv' /\ Simulates
<1>1. at'[p] = "idle" /\ call'[p] = NoCall /\ held'[p] = NoMsg
  BY DEF Return, MsgInv, Types
<1>2. IsChain(que[q].chain)
  BY DEF MsgInv, Types, IsQueue
<1> DEFINE c == que[q].chain
<1>3. PICK Elems : c \in Seq(Elems) /\ x \in Elems
  <2>1. c \in Seq({c[i] : i \in DOMAIN c} \cup {x})
    BY <1>2 DEF IsChain
  <2> QED BY <2>1
<1>4. /\ Len(Append(c, x)) = Len(c) + 1 /\ Last(Append(c, x)) = x
      /\ \A i \in DOMAIN Append(c, x) : Append(c, x)[i] = x \/ (i \in DOMAIN c /\ Append(c, x)[i] = c[i])
  BY <1>3 DEF Last
<1>5. Only(p, q)
  BY DEF Only, Return, MsgInv, Types
<1>6. QueueOK(que'[q])
  BY <1>4 DEF QueueOK, CopyInv
<1>7. Respects(p, q)
  BY DEF Respects
<1>8. CallOK(p)' /\ Owns(p)' /\ held'[p].type \in Int
  BY <1>1 DEF CallOK, Owns, NoMsg
<1>9. CopyInv'
  BY <1>1, <1>5, <1>6, <1>7, <1>8, StepKeeps
<1>10. Promise!Put(q)
  <2>1. boxes'[q] = [open |-> que[q].alloc, seq |-> que[q].seq, msgs |-> Append(c, x)]
    BY DEF boxes
  <2>2. boxes[q].msgs = c /\ boxes[q].open
    BY DEF boxes
  <2>3. boxes' = [boxes EXCEPT ![q].msgs = Append(@, x)]
    BY <2>1 DEF boxes
  <2>4. asks' = asks
    BY <1>1 DEF asks, AskOf, NoCall, Return, MsgInv, Types, Q
  <2>5. /\ boxes[q].open /\ Len(boxes'[q].msgs) = Len(boxes[q].msgs) + 1
        /\ boxes' = [boxes EXCEPT ![q].msgs = Append(@, Last(boxes'[q].msgs))]
        /\ UNCHANGED asks
    <3>1. boxes'[q].msgs = Append(c, x)
      BY <2>1
    <3> HIDE DEF c
    <3> QED BY <1>4, <2>2, <2>3, <2>4, <3>1
  <2> HIDE DEF c
  <2> QED BY <2>5 DEF Promise!Put, Promise!Last, Last, boxes, asks, AskOf
<1> QED BY <1>9, <1>10 DEF Simulates, Promise!Next

LEMMA SndEmptyStep ==
    ASSUME MsgInv, CopyInv, NEW p \in Procs, SndEmpty(p)
    PROVE  CopyInv' /\ Simulates
<1> DEFINE x == [NoMsg EXCEPT !.type = call[p].type]
<1>1. /\ Q(p) \in Slots /\ at[p] # "idle" /\ que[Q(p)].alloc /\ ~que[Q(p)].locked
      /\ call[p].op = "snd" /\ Return(p)
  BY ReadyAwake, Slot DEF SndEmpty, Sends, CanLock, Valid
<1>2. x.type \in Int
  BY <1>1 DEF CopyInv, CallOK, NoMsg
<1>3. que' = [que EXCEPT ![Q(p)] = Append1(que[Q(p)], x)]
  BY DEF SndEmpty
<1>4. /\ \A s \in Slots \ {Q(p)} : que'[s] = que[s]
      /\ que'[Q(p)].alloc = que[Q(p)].alloc /\ que'[Q(p)].seq = que[Q(p)].seq
      /\ que'[Q(p)].chain = Append(que[Q(p)].chain, x)
  BY <1>1, <1>3 DEF Append1, MsgInv, Types, IsQueue, Fields
<1> HIDE DEF x
<1> QED BY <1>1, <1>2, <1>4, PutStep

LEMMA SndDoneStep ==
    ASSUME MsgInv, CopyInv, NEW p \in Procs, SndDone(p)
    PROVE  CopyInv' /\ Simulates
<1>1. /\ Q(p) \in Slots /\ at[p] = "copy" /\ at[p] # "idle" /\ que[Q(p)].alloc
      /\ call[p].op = "snd" /\ Return(p)
  BY ReadyAwake, Slot DEF SndDone, CopyInv, Owns, Valid
<1>2. held[p].type \in Int /\ held[p].size \in Nat
  BY DEF CopyInv, MsgInv, Types
<1>3. IsQueue(que[Q(p)])
  BY <1>1 DEF MsgInv, Types
<1>4. IsQueue(Append1(que[Q(p)], held[p]))
  BY <1>2, <1>3, Append1Queue
<1>5. /\ \A s \in Slots \ {Q(p)} : que'[s] = que[s]
      /\ que'[Q(p)] = Unlocked(Append1(que[Q(p)], held[p]))
  BY <1>1 DEF SndDone, MsgInv, Types
<1>6. Append1(que[Q(p)], held[p]).chain = Append(que[Q(p)].chain, held[p])
  BY <1>3 DEF Append1, IsQueue, Fields
<1>7. /\ que'[Q(p)].alloc = que[Q(p)].alloc /\ que'[Q(p)].seq = que[Q(p)].seq
      /\ que'[Q(p)].chain = Append(que[Q(p)].chain, held[p])
  BY <1>2, <1>3, <1>4, <1>5, <1>6, Append1Queue, UnlockedQueue
<1> QED BY <1>1, <1>2, <1>5, <1>7, PutStep

\* A call takes the lock to copy x
LEMMA TakeStep ==
    ASSUME MsgInv, CopyInv, NEW p \in Procs, CanLock(p),
           que' = [que EXCEPT ![Q(p)].locked = TRUE], at' = [at EXCEPT ![p] = "copy"],
           UNCHANGED call, NEW x, x.type \in Int, held' = [held EXCEPT ![p] = x],
           call[p].op = "rcv" => /\ \E i \in DOMAIN que[Q(p)].chain :
                                       /\ Picks(que[Q(p)].chain, call[p].type, i)
                                       /\ que[Q(p)].chain[i] = x
                                 /\ x.size <= call[p].size
    PROVE  CopyInv' /\ Simulates
<1>1. Q(p) \in Slots /\ at[p] # "idle" /\ Valid(p) /\ ~que[Q(p)].locked
  BY ReadyAwake, Slot DEF CanLock
<1>2. /\ \A s \in Slots \ {Q(p)} : que'[s] = que[s]
      /\ SameBox(Q(p)) /\ que'[Q(p)].locked
  BY <1>1 DEF SameBox, MsgInv, Types, IsQueue, Fields
<1>3. held'[p] = x /\ Q(p)' = Q(p)
  BY DEF MsgInv, Types, Q
<1>4. Owns(p)'
  BY <1>1, <1>2, <1>3 DEF Owns, Valid, IsChosen, SameBox
<1> QED BY <1>1, <1>2, <1>3, <1>4, GoesOnKeeps DEF MsgInv, Types

LEMMA SndTakeStep ==
    ASSUME MsgInv, CopyInv, NEW p \in Procs, SndTake(p)
    PROVE  CopyInv' /\ Simulates
<1> DEFINE x == [type |-> call[p].type, size |-> call[p].size,
                 spot |-> Malloc(map, call[p].size)]
<1>1. CanLock(p) /\ call[p].op # "rcv" /\ at[p] # "idle"
  BY ReadyAwake DEF SndTake, Sends, CanLock
<1>2. x.type \in Int
  BY <1>1 DEF CopyInv, CallOK
<1>3. /\ que' = [que EXCEPT ![Q(p)].locked = TRUE] /\ at' = [at EXCEPT ![p] = "copy"]
      /\ UNCHANGED call /\ held' = [held EXCEPT ![p] = x]
  BY DEF SndTake
<1> HIDE DEF x
<1> QED BY <1>1, <1>2, <1>3, TakeStep

LEMMA RcvTakeStep ==
    ASSUME MsgInv, CopyInv, NEW p \in Procs, RcvTake(p)
    PROVE  CopyInv' /\ Simulates
<1>1. CanLock(p) /\ Q(p) \in Slots
  BY ReadyAwake, Slot DEF RcvTake, Receives, CanLock
<1>2. PICK i \in DOMAIN que[Q(p)].chain :
          /\ Picks(que[Q(p)].chain, call[p].type, i)
          /\ que[Q(p)].chain[i].size <= call[p].size
          /\ held' = [held EXCEPT ![p] = que[Q(p)].chain[i]]
  BY DEF RcvTake
<1>3. que[Q(p)].chain[i].type \in Int
  BY <1>1, <1>2 DEF CopyInv, QueueOK
<1>4. /\ que' = [que EXCEPT ![Q(p)].locked = TRUE] /\ at' = [at EXCEPT ![p] = "copy"]
      /\ UNCHANGED call
  BY DEF RcvTake
<1> QED BY <1>1, <1>2, <1>3, <1>4, TakeStep

LEMMA FaultStep ==
    ASSUME MsgInv, CopyInv, NEW p \in Procs, SndFault(p) \/ RcvFault(p)
    PROVE  CopyInv' /\ Simulates
<1>1. Q(p) \in Slots /\ at[p] = "copy" /\ at[p] # "idle" /\ Return(p) /\ IsQueue(que[Q(p)])
  BY ReadyAwake, Slot DEF SndFault, RcvFault, MsgInv, Types
<1>2. que' = [que EXCEPT ![Q(p)] = Unlocked(que[Q(p)])]
  BY DEF SndFault, RcvFault
<1>3. SameBox(Q(p)) /\ \A s \in Slots \ {Q(p)} : que'[s] = que[s]
  BY <1>1, <1>2, UnlockedQueue DEF SameBox, MsgInv, Types
<1> QED BY <1>1, <1>3, QuitKeeps DEF Polite

\* A call fails without a look at the messages, or sets msg_qbytes
LEMMA FailStep ==
    ASSUME MsgInv, CopyInv, NEW p \in Procs, Gone(p) \/ RcvTooBig(p) \/ IpcSet(p)
    PROVE  CopyInv' /\ Simulates
<1>1. Q(p) \in Slots /\ at[p] # "idle" /\ Return(p) /\ IsQueue(que[Q(p)])
  BY ReadyAwake, Slot DEF Gone, RcvTooBig, Receives, CanLock, IpcSet, MsgInv, Types
<1>2. CASE que' = que
  BY <1>1, <1>2, QuitKeeps DEF SameBox, Polite
<1>3. CASE que' = [que EXCEPT ![Q(p)].qbytes = call[p].size]
  <2>1. /\ \A s \in Slots \ {Q(p)} : que'[s] = que[s]
        /\ SameBox(Q(p)) /\ que'[Q(p)].locked = que[Q(p)].locked
    BY <1>1, <1>3 DEF SameBox, MsgInv, Types, IsQueue, Fields
  <2> QED BY <1>1, <2>1, QuitKeeps DEF Polite
<1> QED BY <1>2, <1>3 DEF Gone, RcvTooBig, IpcSet

LEMMA RcvNoneStep ==
    ASSUME MsgInv, CopyInv, NEW p \in Procs, RcvNone(p)
    PROVE  CopyInv' /\ Simulates
<1>1. Q(p) \in Slots /\ at[p] # "idle" /\ ~que[Q(p)].locked
  BY ReadyAwake, Slot DEF RcvNone, Receives, CanLock
<1>2. CASE call[p].nowait
  <2>1. Return(p) /\ que' = que
    BY <1>2 DEF RcvNone
  <2> QED BY <1>1, <2>1, QuitKeeps DEF SameBox, Polite
<1>3. CASE ~call[p].nowait
  <2>1. /\ que' = [que EXCEPT ![Q(p)].rwait = TRUE]
        /\ at' = [at EXCEPT ![p] = "empty"] /\ UNCHANGED <<call, held>>
    BY <1>3 DEF RcvNone, GoToSleep
  <2>2. /\ \A s \in Slots \ {Q(p)} : que'[s] = que[s]
        /\ SameBox(Q(p)) /\ que'[Q(p)].locked = que[Q(p)].locked
    BY <1>1, <2>1 DEF SameBox, MsgInv, Types, IsQueue, Fields
  <2>3. held'[p].type \in Int
    BY <2>1 DEF CopyInv
  <2> QED BY <1>1, <2>1, <2>2, <2>3, GoesOnKeeps DEF Sleeps
<1> QED BY <1>2, <1>3

\* The message that msgrcv chose before it copied is still the one to take
LEMMA RcvDoneStep ==
    ASSUME MsgInv, CopyInv, NEW p \in Procs, NEW q \in Slots, q = Q(p), RcvDone(p)
    PROVE  CopyInv' /\ Simulates
<1> DEFINE c == que[q].chain
           t == call[p].type
<1>1. /\ at[p] = "copy" /\ at[p] # "idle" /\ call[p].op = "rcv" /\ Return(p) /\ Valid(p)
      /\ IsQueue(que[q]) /\ t \in Int
  BY DEF RcvDone, CopyInv, CallOK, Owns, MsgInv, Types
<1>2. PICK i \in DOMAIN c : /\ c[i] = held[p] /\ \A j \in 1 .. i - 1 : c[j] # held[p]
                            /\ que' = [que EXCEPT ![q] = Unlocked(Removed(que[q], i))]
  BY DEF RcvDone
<1>3. PICK k \in DOMAIN c : Picks(c, t, k) /\ c[k] = held[p] /\ held[p].size <= call[p].size
  BY <1>1 DEF CopyInv, Owns, IsChosen
<1>4. /\ DOMAIN c = 1 .. Len(c) /\ Len(c) \in Nat /\ IsChain(c)
      /\ \A j \in DOMAIN c : c[j].type \in Int
  <2>1. IsChain(c)
    BY <1>1 DEF IsQueue
  <2>2. \A j \in DOMAIN c : c[j].type \in Int
    BY DEF CopyInv, QueueOK
  <2>3. DOMAIN c = 1 .. Len(c) /\ Len(c) \in Nat
    BY <2>1 DEF IsChain
  <2> QED BY <2>1, <2>2, <2>3
<1>5. i = k
  <2>1. i \in Candidates(c, t)
    BY <1>2, <1>3 DEF Picks, Candidates
  <2>2. k <= i
    BY <1>2, <1>3, <1>4, <2>1 DEF Picks
  <2> QED BY <1>2, <1>3, <1>4, <2>2
<1>6. Promise!Selects(t, c, i) /\ c[i].size <= call[p].size
  BY <1>1, <1>2, <1>3, <1>4, <1>5, PicksSelects
<1>7. /\ \A s \in Slots \ {q} : que'[s] = que[s]
      /\ que'[q].alloc = que[q].alloc /\ que'[q].seq = que[q].seq
      /\ que'[q].chain = RemoveAt(c, i)
  BY <1>1, <1>2, RemovedQueue, UnlockedQueue DEF MsgInv, Types
<1>8. at'[p] = "idle" /\ call'[p] = NoCall /\ held'[p] = NoMsg
  BY <1>1 DEF Return, MsgInv, Types
<1>9. Only(p, q)
  BY <1>1, <1>7 DEF Only, Return, MsgInv, Types
<1>10. QueueOK(que'[q])
  <2>1. que[q].alloc
    BY <1>1 DEF Valid
  <2>2. \A j \in DOMAIN RemoveAt(c, i) : RemoveAt(c, i)[j].type \in Int
    BY <1>4, RemoveLeaves
  <2> QED BY <1>7, <2>1, <2>2 DEF QueueOK, CopyInv
<1>11. Respects(p, q)
  BY <1>1 DEF Respects
<1>12. CallOK(p)' /\ Owns(p)' /\ held'[p].type \in Int
  BY <1>8 DEF CallOK, Owns, NoMsg
<1>13. CopyInv'
  BY <1>8, <1>9, <1>10, <1>11, <1>12, StepKeeps
<1>14. Promise!Take(p)
  <2>1. /\ asks[p] = [slot |-> q, seq |-> call[p].seq, type |-> t, room |-> call[p].size]
        /\ asks[p] # Promise!NoAsk
    BY <1>1 DEF asks, AskOf, Promise!NoAsk
  <2>2. boxes[q] = [open |-> que[q].alloc, seq |-> que[q].seq, msgs |-> c]
    BY DEF boxes
  <2>3. boxes[q].open /\ boxes[q].seq = asks[p].seq
    BY <1>1, <2>1, <2>2 DEF Valid
  <2>4. boxes' = [boxes EXCEPT ![q].msgs = RemoveAt(@, i)]
    <3>1. boxes'[q] = [open |-> que[q].alloc, seq |-> que[q].seq, msgs |-> RemoveAt(c, i)]
      BY <1>7 DEF boxes
    <3> QED BY <1>7, <2>2, <3>1 DEF boxes
  <2>5. asks' = [asks EXCEPT ![p] = Promise!NoAsk]
    <3>1. call' = [call EXCEPT ![p] = NoCall] /\ DOMAIN call = Procs
      BY <1>1 DEF Return, MsgInv, Types
    <3>2. AskOf(p)' = [slot |-> "none"] /\ \A r \in Procs \ {p} : AskOf(r)' = AskOf(r)
      BY <3>1 DEF AskOf, NoCall, Q
    <3> QED BY <3>2 DEF asks, Promise!NoAsk
  <2>6. /\ asks[p] # Promise!NoAsk
        /\ boxes[asks[p].slot].open /\ boxes[asks[p].slot].seq = asks[p].seq
        /\ \E j \in DOMAIN boxes[asks[p].slot].msgs :
              /\ Promise!Selects(asks[p].type, boxes[asks[p].slot].msgs, j)
              /\ boxes[asks[p].slot].msgs[j].size <= asks[p].room
              /\ boxes' = [boxes EXCEPT ![asks[p].slot].msgs = RemoveAt(@, j)]
        /\ asks' = [asks EXCEPT ![p] = Promise!NoAsk]
    <3>1. asks[p].slot = q /\ asks[p].type = t /\ asks[p].room = call[p].size
      BY <2>1
    <3>2. boxes[q].msgs = c
      BY <2>2
    <3> HIDE DEF c, t
    <3> QED BY <1>2, <1>6, <2>1, <2>3, <2>4, <2>5, <3>1, <3>2
  <2> QED BY <2>6 DEF Promise!Take, Promise!RemoveAt, RemoveAt, boxes, asks, AskOf
<1> QED BY <1>13, <1>14 DEF Simulates, Promise!Next

\* IPC_RMID: the next queue of the entry has another id
LEMMA RmIdStep ==
    ASSUME MsgInv, CopyInv, NEW p \in Procs, NEW q \in Slots, q = Q(p), RmId(p)
    PROVE  CopyInv' /\ Simulates
<1>1. /\ at[p] # "idle" /\ que[q].alloc /\ ~que[q].locked /\ call[p].op # "rcv"
      /\ IsQueue(que[q]) /\ que[q].seq \in 0 .. MaxSeq /\ Return(p)
  BY ReadyAwake DEF RmId, CanLock, Valid, CopyInv, QueueOK, MsgInv, Types
<1>2. /\ \A s \in Slots \ {q} : que'[s] = que[s]
      /\ ~que'[q].alloc /\ que'[q].chain = <<>>
      /\ que'[q].seq = IF que[q].seq = MaxSeq THEN 0 ELSE que[q].seq + 1
  BY DEF RmId, NewQueue, MsgInv, Types
<1>3. que'[q].seq \in 0 .. MaxSeq /\ que'[q].seq # que[q].seq
  BY <1>1, <1>2, MsgAssumption
<1>4. at'[p] = "idle" /\ call'[p] = NoCall /\ held'[p] = NoMsg
  BY <1>1 DEF Return, MsgInv, Types
<1>5. Only(p, q)
  BY <1>1, <1>2 DEF Only, Return, MsgInv, Types
<1>6. QueueOK(que'[q]) /\ Respects(p, q)
  BY <1>1, <1>2, <1>3 DEF QueueOK, Respects
<1>7. CallOK(p)' /\ Owns(p)' /\ held'[p].type \in Int
  BY <1>4 DEF CallOK, Owns, NoMsg
<1>8. CopyInv'
  BY <1>4, <1>5, <1>6, <1>7, StepKeeps
<1>9. Promise!Discard(q)
  <2>1. boxes[q].open /\ boxes[q].seq = que[q].seq
    BY <1>1 DEF boxes
  <2>2. ~boxes'[q].open /\ boxes'[q].msgs = <<>> /\ boxes'[q].seq = que'[q].seq
    BY <1>2 DEF boxes
  <2>3. \A r \in Slots \ {q} : boxes'[r] = boxes[r]
    BY <1>2 DEF boxes
  <2>4. asks' = asks
    <3>1. call' = [call EXCEPT ![p] = NoCall] /\ DOMAIN call = Procs
      BY <1>1 DEF Return, MsgInv, Types
    <3>2. \A r \in Procs : AskOf(r)' = AskOf(r)
      BY <1>1, <3>1 DEF AskOf, NoCall, Q
    <3> QED BY <3>2 DEF asks
  <2>5. /\ boxes[q].open
        /\ ~boxes'[q].open /\ boxes'[q].msgs = <<>> /\ boxes'[q].seq # boxes[q].seq
        /\ \A r \in Slots \ {q} : boxes'[r] = boxes[r]
        /\ UNCHANGED asks
    BY <1>3, <2>1, <2>2, <2>3, <2>4
  <2> QED BY <2>5 DEF Promise!Discard, boxes, asks, AskOf
<1> QED BY <1>8, <1>9 DEF Simulates, Promise!Next

LEMMA CallStep ==
    ASSUME MsgInv, CopyInv, NEW p \in Procs, NEW c \in Calls, NEW q \in Slots, Call(p, c, q)
    PROVE  CopyInv' /\ Simulates
<1>1. /\ at[p] = "idle" /\ call[p] = NoCall
      /\ at'[p] = IF c.op = "set" THEN "set" ELSE "enter"
      /\ call'[p] = [op |-> c.op, type |-> c.type, size |-> c.size, nowait |-> c.nowait,
                     slot |-> q, seq |-> que[q].seq, limit |-> 0]
      /\ \A r \in Procs \ {p} : call'[r] = call[r]
      /\ que' = que /\ held' = held
  BY DEF Call, CopyInv, CallOK, MsgInv, Types
<1>2. Only(p, q)
  BY <1>1 DEF Only, Call, MsgInv, Types
<1>3. QueueOK(que'[q]) /\ Respects(p, q)
  BY <1>1 DEF CopyInv, Respects, SameBox
<1>4. CallOK(p)' /\ Owns(p)' /\ held'[p].type \in Int /\ at'[p] # "copy"
  BY <1>1, MsgAssumption DEF CallOK, Owns, CopyInv
<1>5. CopyInv'
  BY <1>2, <1>3, <1>4, StepKeeps
<1>6. AskOf(p) = [slot |-> "none"] /\ \A r \in Procs \ {p} : AskOf(r)' = AskOf(r)
  BY <1>1 DEF AskOf, NoCall, Q
<1>7. CASE c.op = "rcv"
  <2>1. asks[p] = Promise!NoAsk /\ \A r \in Procs \ {p} : asks'[r] = asks[r]
    BY <1>6 DEF asks, Promise!NoAsk
  <2>2. boxes' = boxes
    BY <1>1 DEF boxes
  <2>3. Promise!Ask(p)
    BY <2>1, <2>2 DEF Promise!Ask, boxes, asks, AskOf
  <2> QED BY <1>5, <2>3 DEF Simulates, Promise!Next
<1>8. CASE c.op # "rcv"
  <2>1. AskOf(p)' = AskOf(p)
    BY <1>1, <1>6, <1>8 DEF AskOf
  <2> QED BY <1>1, <1>5, <1>6, <2>1, Stutters DEF SameBox
<1> QED BY <1>7, <1>8

LEMMA MsgGetStep ==
    ASSUME MsgInv, CopyInv, NEW q \in Slots, MsgGet(q)
    PROVE  CopyInv' /\ Simulates
<1>1. PICK p : p \notin Procs
  BY NoSetContainsEverything
<1>2. /\ ~que[q].alloc /\ ~que[q].locked /\ que[q].chain = <<>> /\ QueueOK(que[q])
      /\ \A s \in Slots \ {q} : que'[s] = que[s]
      /\ que'[q].alloc /\ que'[q].seq = que[q].seq /\ que'[q].chain = <<>>
      /\ UNCHANGED <<call, at, held>>
  BY DEF MsgGet, NewQueue, CopyInv, QueueOK, MsgInv, FreeUnlocked, Types
<1>3. Only(p, q) /\ QueueOK(que'[q]) /\ Respects(p, q)
  BY <1>2 DEF Only, QueueOK, Respects
<1>4. CopyInv'
  BY <1>1, <1>3, StepKeeps
<1>5. Promise!Open(q)
  <2>1. ~boxes[q].open
    BY <1>2 DEF boxes
  <2>2. boxes' = [boxes EXCEPT ![q].open = TRUE]
    <3>1. /\ boxes[q] = [open |-> FALSE, seq |-> que[q].seq, msgs |-> <<>>]
          /\ boxes'[q] = [open |-> TRUE, seq |-> que[q].seq, msgs |-> <<>>]
      <4>1. que[q].alloc \in BOOLEAN /\ que'[q].alloc = TRUE
        BY DEF MsgGet, NewQueue, MsgInv, Types, IsQueue
      <4> QED BY <1>2, <4>1 DEF boxes
    <3> QED BY <1>2, <3>1 DEF boxes
  <2>3. asks' = asks
    BY <1>2 DEF asks, AskOf, Q
  <2> QED BY <2>1, <2>2, <2>3 DEF Promise!Open, boxes, asks, AskOf
<1> QED BY <1>4, <1>5 DEF Simulates, Promise!Next

-------------------------------------------------------------------------------
(* The theorem                                                             *)

LEMMA CopyInvInit == MsgInit => CopyInv /\ Promise!Init
<1> SUFFICES ASSUME MsgInit PROVE CopyInv /\ Promise!Init
  OBVIOUS
<1>1. \A q \in Slots : /\ que[q].seq = 0 /\ que[q].alloc = FALSE /\ que[q].chain = <<>>
                       /\ ~que[q].locked
  BY DEF MsgInit, NewQueue
<1>2. \A p \in Procs : at[p] = "idle" /\ call[p] = NoCall /\ held[p] = NoMsg
  BY DEF MsgInit
<1>3. CopyInv
  <2>1. \A q \in Slots : QueueOK(que[q])
    BY <1>1, MsgAssumption DEF QueueOK
  <2> QED BY <1>2, <2>1 DEF CopyInv, CallOK, Owns, OneCopies, NoMsg
<1>4. boxes = [q \in Slots |-> [open |-> FALSE, seq |-> 0, msgs |-> <<>>]]
  BY <1>1 DEF boxes
<1>5. asks = [p \in Procs |-> Promise!NoAsk]
  BY <1>2 DEF asks, AskOf, NoCall, Promise!NoAsk
<1> QED BY <1>3, <1>4, <1>5 DEF Promise!Init, boxes, asks, AskOf

LEMMA CopyInvNext == MsgInv /\ CopyInv /\ [MsgNext]_<<msgVars, wchan>> => CopyInv' /\ Simulates
<1> SUFFICES ASSUME MsgInv, CopyInv, [MsgNext]_<<msgVars, wchan>> PROVE CopyInv' /\ Simulates
  OBVIOUS
<1>1. ASSUME NEW p \in Procs, Turn(p) PROVE CopyInv' /\ Simulates
  <2>1. CASE Gone(p) \/ RcvTooBig(p) \/ IpcSet(p)
    BY <2>1, FailStep
  <2>2. CASE WaitForLock(p)
    BY <2>2, WaitForLockStep
  <2>3. CASE Interrupt(p)
    BY <2>3, InterruptStep
  <2>4. CASE SndFull(p) \/ SndNoHeader(p) \/ SndNoSpace(p)
    BY <2>4, SndWaitStep
  <2>5. CASE SndEmpty(p)
    BY <2>5, SndEmptyStep
  <2>6. CASE SndTake(p)
    BY <2>6, SndTakeStep
  <2>7. CASE SndDone(p)
    BY <2>7, SndDoneStep
  <2>8. CASE SndFault(p) \/ RcvFault(p)
    BY <2>8, FaultStep
  <2>9. CASE RcvNone(p)
    BY <2>9, RcvNoneStep
  <2>10. CASE RcvTake(p)
    BY <2>10, RcvTakeStep
  <2>11. CASE RcvDone(p)
    <3>1. Q(p) \in Slots
      BY <2>11, Slot DEF RcvDone
    <3> QED BY <2>11, <3>1, RcvDoneStep
  <2>12. CASE RmId(p)
    <3>1. Q(p) \in Slots
      BY <2>12, ReadyAwake, Slot DEF RmId, CanLock
    <3> QED BY <2>12, <3>1, RmIdStep
  <2> QED BY <1>1, <2>1, <2>2, <2>3, <2>4, <2>5, <2>6, <2>7, <2>8, <2>9, <2>10, <2>11, <2>12
      DEF Turn
<1>2. ASSUME NEW p \in Procs, NEW c \in Calls, NEW q \in Slots, Call(p, c, q)
      PROVE  CopyInv' /\ Simulates
  BY <1>2, CallStep
<1>3. ASSUME NEW q \in Slots, MsgGet(q) PROVE CopyInv' /\ Simulates
  BY <1>3, MsgGetStep
<1>4. CASE UNCHANGED <<msgVars, wchan>>
  <2>1. UNCHANGED <<que, call, at, held>>
    BY <1>4 DEF msgVars, poolVars
  <2>2. CopyInv'
    BY <2>1 DEF CopyInv, CallOK, Owns, IsChosen, Valid, OneCopies, Q
  <2>3. Simulates
    BY <2>1, Stutters DEF SameBox, AskOf, Q
  <2> QED BY <2>2, <2>3
<1> QED BY <1>1, <1>2, <1>3, <1>4 DEF MsgNext

\* A receive takes effect in one step, and takes the message that its type selects at that
\* step: msgrcv, which sleeps in copyout after it has chosen, implements TypedQueues.
THEOREM MessagesReceiveAtomically == MsgSpec => ReceivesAtomically
<1> QED BY MsgInvInit, MsgInvNext, CopyInvInit, CopyInvNext, PTL
    DEF MsgSpec, ReceivesAtomically, Promise!Spec, Simulates, boxes, asks, AskOf

-------------------------------------------------------------------------------
(* Semaphores: the loops of semop and semundo, turn by turn                *)

\* A turn of the loops over a list: semop, semundo and a sum over a list of operations,
\* msgfree of all the messages of a queue and the sum of their sizes
LoopTurn(kind, p, a, o) ==
    CASE kind = "semop" -> Step(p, a, o)
      [] kind = "semundo" -> Undone(p, a, o)
      [] kind = "free" -> FreeText(a, o)
      [] kind = "size" -> a + o.size
      [] OTHER -> IF o.num = p[1] /\ (p[2] => o.undo) THEN a + o.op ELSE a

\* semundo begins with the last operation: the first one is left to the end
Left(kind, T) == IF kind = "semundo" THEN Min(T) ELSE Max(T)

\* The loop over all the sets of turns, as the library defines it
IsLoop(g, kind, p, start, ops) ==
    g = [T \in SUBSET DOMAIN ops |->
            IF T = {} THEN start
            ELSE LoopTurn(kind, p, g[T \ {Left(kind, T)}], ops[Left(kind, T)])]

\* The greatest and the least of finitely many turns
LEMMA MaxMin ==
    ASSUME NEW n \in Nat, NEW T \in SUBSET (1 .. n), T # {}
    PROVE  /\ Max(T) \in T /\ \A x \in T : x <= Max(T)
           /\ Min(T) \in T /\ \A x \in T : Min(T) <= x
<1>z. n \in Int /\ \A x \in T : x \in Int
    OBVIOUS
<1> DEFINE U == {n - x : x \in T}
<1>0. \A x \in T : n - x \in Nat
    OBVIOUS
<1>1. U \subseteq Nat /\ U # {}
    BY <1>0
<1>2. PICK t \in U : \A y \in U : t <= y
    BY <1>1, LeastNat
<1>3. PICK m \in T : t = n - m
    BY <1>2
<1>4. \A x \in T : m >= x
    <2>1. ASSUME NEW x \in T PROVE m >= x
        <3>1. n - x \in U
            OBVIOUS
        <3>2. n - m <= n - x
            BY <1>2, <1>3, <3>1
        <3> QED
            BY <1>z, <3>2
    <2> QED
        BY <2>1
<1>5. \E x \in T : \A y \in T : x >= y
    BY <1>4
<1>6. Max(T) \in T /\ \A y \in T : Max(T) >= y
    BY <1>5 DEF Max
<1>7. T \subseteq Nat
    OBVIOUS
<1>a. \E x \in T : \A y \in T : x <= y
    BY <1>7, LeastNat
<1>8. Min(T) \in T /\ \A y \in T : Min(T) <= y
    BY <1>a DEF Min
<1> QED
    BY <1>6, <1>8

\* There is such a loop
LEMMA LoopExists ==
    ASSUME NEW kind, NEW p, NEW start, NEW ops, NEW len \in Nat, DOMAIN ops = 1 .. len
    PROVE  \E g : IsLoop(g, kind, p, start, ops)
<1> DEFINE D == DOMAIN ops
           lf(T) == Left(kind, T)
           rhs(g, T) == IF T = {} THEN start ELSE LoopTurn(kind, p, g[T \ {lf(T)}], ops[lf(T)])
           Upto(n, g) == \A T \in SUBSET D : Cardinality(T) <= n => g[T] = rhs(g, T)
           N == {n \in Nat : \E g : g = [T \in SUBSET D |-> g[T]] /\ Upto(n, g)}
<1>d. IsFiniteSet(D) /\ D = 1 .. len
    BY FS_Interval
<1>0. \A T \in SUBSET D : IsFiniteSet(T) /\ Cardinality(T) \in Nat
    BY <1>d, FS_Subset, FS_CardinalityType
<1>1. 0 \in N
    <2> DEFINE g == [T \in SUBSET D |-> start]
    <2>1. ASSUME NEW T \in SUBSET D, Cardinality(T) <= 0 PROVE g[T] = rhs(g, T)
        <3>1. T = {}
            BY <1>0, <2>1, FS_EmptySet
        <3> QED
            BY <3>1
    <2>2. g = [T \in SUBSET D |-> g[T]]
        OBVIOUS
    <2> HIDE DEF rhs, g, D
    <2> QED
        BY <2>1, <2>2
<1>2. ASSUME NEW n \in N PROVE n + 1 \in N
    <2>1. PICK g : g = [T \in SUBSET D |-> g[T]] /\ Upto(n, g)
        OBVIOUS
    <2> DEFINE h == [T \in SUBSET D |-> IF Cardinality(T) = n + 1 THEN rhs(g, T) ELSE g[T]]
    <2>2. ASSUME NEW T \in SUBSET D, T # {}
          PROVE  T \ {lf(T)} \in SUBSET D /\ Cardinality(T \ {lf(T)}) = Cardinality(T) - 1
        <3>1. lf(T) \in T
            BY <1>d, <2>2, MaxMin DEF Left
        <3> QED
            BY <1>0, <3>1, FS_RemoveElement
    <2>3. ASSUME NEW T \in SUBSET D, Cardinality(T) <= n + 1 PROVE h[T] = rhs(h, T)
        <3>0. Cardinality(T) \in Nat /\ n \in Nat
            BY <1>0
        <3>1. rhs(h, T) = rhs(g, T)
            <4>1. CASE T = {}
                BY <4>1
            <4>2. CASE T # {}
                <5>1. PICK R : R = T \ {lf(T)}
                    OBVIOUS
                <5>2. R \in SUBSET D /\ Cardinality(R) # n + 1
                    BY <2>2, <2>3, <3>0, <4>2, <5>1
                <5>3. h[R] = g[R]
                    BY <5>2
                <5> QED
                    BY <4>2, <5>1, <5>3
            <4> QED
                BY <4>1, <4>2
        <3>2. CASE Cardinality(T) = n + 1
            BY <3>1, <3>2
        <3>3. CASE Cardinality(T) # n + 1
            <4>1. Cardinality(T) <= n
                BY <2>3, <3>0, <3>3
            <4>2. g[T] = rhs(g, T)
                BY <2>1, <4>1
            <4>3. h[T] = g[T]
                BY <3>3
            <4> QED
                BY <3>1, <4>2, <4>3
        <3> QED
            BY <3>2, <3>3
    <2>4. h = [T \in SUBSET D |-> h[T]] /\ Upto(n + 1, h)
        BY <2>3
    <2>5. n + 1 \in Nat
        OBVIOUS
    <2> HIDE DEF Upto, h, D
    <2> QED
        BY <2>4, <2>5
<1>3. Cardinality(D) \in N
    <2>1. Cardinality(D) \in Nat
        BY <1>0
    <2> HIDE DEF N
    <2>2. 0 .. Cardinality(D) \subseteq N
        BY <1>1, <1>2, <2>1, InductionTo
    <2> QED
        BY <2>1, <2>2
<1>4. PICK g : g = [T \in SUBSET D |-> g[T]] /\ Upto(Cardinality(D), g)
    BY <1>3
<1>5. ASSUME NEW T \in SUBSET D PROVE g[T] = rhs(g, T)
    <2>1. Cardinality(T) <= Cardinality(D)
        BY <1>d, FS_Subset
    <2> QED
        BY <1>4, <2>1
<1>6. IsLoop(g, kind, p, start, ops)
    <2> HIDE DEF rhs
    <2>1. g = [T \in SUBSET D |-> rhs(g, T)]
        BY <1>4, <1>5
    <2> QED
        BY <2>1 DEF IsLoop, rhs
<1> QED
    BY <1>6

\* h is the loop turn by turn, its start at 0
IsTurns(h, kind, p, start, ops) ==
    h[0] = start /\ \A i \in 1 .. Len(ops) : h[i] = LoopTurn(kind, p, h[i - 1], ops[i])

\* A loop from the first operation, turn by turn
LEMMA Turns ==
    ASSUME NEW kind, kind # "semundo", NEW p, NEW start, NEW T, NEW ops \in Seq(T),
           NEW g, IsLoop(g, kind, p, start, ops)
    PROVE  \E h : IsTurns(h, kind, p, start, ops) /\ g[DOMAIN ops] = h[Len(ops)]
<1>0. Len(ops) \in Nat /\ DOMAIN ops = 1 .. Len(ops)
    OBVIOUS
<1>3. \A U \in SUBSET DOMAIN ops :
          g[U] = IF U = {} THEN start ELSE LoopTurn(kind, p, g[U \ {Max(U)}], ops[Max(U)])
    BY DEF IsLoop, Left
<1> DEFINE h == [i \in 0 .. Len(ops) |-> g[1 .. i]]
<1>4. h[0] = start
    <2>1. 1 .. 0 = {} /\ 0 \in 0 .. Len(ops)
        BY <1>0
    <2> QED
        BY <1>3, <2>1
<1>5. ASSUME NEW i \in 1 .. Len(ops) PROVE h[i] = LoopTurn(kind, p, h[i - 1], ops[i])
    <2>1. PICK U : U = 1 .. i
        OBVIOUS
    <2>0. i \in Nat /\ i <= Len(ops) /\ i \in 1 .. i
        BY <1>0
    <2>2. U \in SUBSET DOMAIN ops /\ U # {} /\ i \in U
        <3>1. 1 .. i \subseteq 1 .. Len(ops)
            BY <1>0, <2>0
        <3> QED
            BY <1>0, <2>0, <2>1, <3>1
    <2>3. Max(U) = i
        <3>1. Max(U) \in U /\ \A x \in U : x <= Max(U)
            BY <1>0, <2>2, MaxMin
        <3> QED
            BY <2>1, <2>2, <3>1
    <2>4. U \ {i} = 1 .. (i - 1) /\ i - 1 \in 0 .. Len(ops) /\ i \in 0 .. Len(ops)
        BY <1>0, <2>1
    <2>5. g[U] = LoopTurn(kind, p, g[U \ {i}], ops[i])
        BY <1>3, <2>2, <2>3
    <2> QED
        BY <2>1, <2>4, <2>5
<1>6. IsTurns(h, kind, p, start, ops)
    BY <1>4, <1>5 DEF IsTurns
<1>7. g[DOMAIN ops] = h[Len(ops)]
    BY <1>0
<1> QED
    BY <1>6, <1>7

\* The loop of semop
Ran(p, start, ops) == FoldLeft(LAMBDA a, o : Step(p, a, o), start, ops)
IsRun(g, p, start, ops) ==
    g = [U \in SUBSET DOMAIN ops |->
            IF U = {} THEN start ELSE Step(p, g[U \ {Max(U)}], ops[Max(U)])]

LEMMA RunIs ==
    ASSUME NEW p, NEW start, NEW ops
    PROVE  Ran(p, start, ops) = (CHOOSE g : IsRun(g, p, start, ops))[DOMAIN ops]
BY Zenon DEF Ran, FoldLeft, MapThenFoldSet, IsRun

\* h is the loop of semop turn by turn
IsSemop(h, p, start, ops) ==
    h[0] = start /\ \A i \in 1 .. Len(ops) : h[i] = Step(p, h[i - 1], ops[i])

LEMMA RanTurns ==
    ASSUME NEW p, NEW start, NEW T, NEW ops \in Seq(T)
    PROVE  \E h : IsSemop(h, p, start, ops) /\ Ran(p, start, ops) = h[Len(ops)]
<1>0. Len(ops) \in Nat /\ DOMAIN ops = 1 .. Len(ops)
    OBVIOUS
<1>1. \A g : IsLoop(g, "semop", p, start, ops) <=> IsRun(g, p, start, ops)
    BY Zenon DEF IsLoop, IsRun, LoopTurn, Left
<1>2. PICK g : g = (CHOOSE k : IsRun(k, p, start, ops))
    OBVIOUS
<1>3. IsLoop(g, "semop", p, start, ops)
    BY <1>0, <1>1, <1>2, LoopExists
<1>4. PICK h : IsTurns(h, "semop", p, start, ops) /\ g[DOMAIN ops] = h[Len(ops)]
    BY <1>3, Turns
<1>5. IsSemop(h, p, start, ops)
    BY <1>4 DEF IsTurns, IsSemop, LoopTurn
<1> QED
    BY <1>2, <1>4, <1>5, RunIs

\* The sum of a list
IsAdding(g, n, undoable, ops) ==
    g = [U \in SUBSET DOMAIN ops |->
            IF U = {} THEN 0
            ELSE IF ops[Max(U)].num = n /\ (undoable => ops[Max(U)].undo)
                 THEN g[U \ {Max(U)}] + ops[Max(U)].op ELSE g[U \ {Max(U)}]]

LEMMA SumIsAdding ==
    ASSUME NEW n, NEW undoable, NEW ops
    PROVE  Sum(ops, n, undoable) = (CHOOSE g : IsAdding(g, n, undoable, ops))[DOMAIN ops]
BY Zenon DEF Sum, FoldLeft, MapThenFoldSet, IsAdding

\* h is the sum operation by operation
IsSum(h, n, undoable, ops) ==
    /\ h[0] = 0
    /\ \A i \in 1 .. Len(ops) :
          h[i] = IF ops[i].num = n /\ (undoable => ops[i].undo) THEN h[i - 1] + ops[i].op
                                                                ELSE h[i - 1]

LEMMA SumTurns ==
    ASSUME NEW n, NEW undoable, NEW T, NEW ops \in Seq(T)
    PROVE  \E h : IsSum(h, n, undoable, ops) /\ Sum(ops, n, undoable) = h[Len(ops)]
<1>0. Len(ops) \in Nat /\ DOMAIN ops = 1 .. Len(ops)
    OBVIOUS
<1>p. PICK p : p = <<n, undoable>>
    OBVIOUS
<1>q. p[1] = n /\ p[2] = undoable
    BY <1>p
<1>1. \A g : IsLoop(g, "sum", p, 0, ops) <=> IsAdding(g, n, undoable, ops)
    BY <1>q, ZenonT(60) DEF IsLoop, IsAdding, LoopTurn, Left
<1>2. PICK g : g = (CHOOSE k : IsAdding(k, n, undoable, ops))
    OBVIOUS
<1>3. IsLoop(g, "sum", p, 0, ops)
    BY <1>0, <1>1, <1>2, LoopExists
<1>4. PICK h : IsTurns(h, "sum", p, 0, ops) /\ g[DOMAIN ops] = h[Len(ops)]
    BY <1>3, Turns
<1>5. IsSum(h, n, undoable, ops)
    BY <1>4, <1>q DEF IsTurns, IsSum, LoopTurn
<1> QED
    BY <1>2, <1>4, <1>5, SumIsAdding

\* The loop of semundo
Back(p, start, ops) == FoldRight(LAMBDA o, a : Undone(p, a, o), ops, start)
IsBack(g, p, start, ops) ==
    g = [U \in SUBSET DOMAIN ops |->
            IF U = {} THEN start ELSE Undone(p, g[U \ {Min(U)}], ops[Min(U)])]

LEMMA BackIs ==
    ASSUME NEW p, NEW start, NEW ops
    PROVE  Back(p, start, ops) = (CHOOSE g : IsBack(g, p, start, ops))[DOMAIN ops]
BY Zenon DEF Back, FoldRight, MapThenFoldSet, IsBack

\* h is the loop of semundo turn by turn, from the last operation to the first
IsSemundo(h, p, start, ops) ==
    h[Len(ops)] = start /\ \A i \in 1 .. Len(ops) : h[i - 1] = Undone(p, h[i], ops[i])

LEMMA BackTurns ==
    ASSUME NEW p, NEW start, NEW T, NEW ops \in Seq(T)
    PROVE  \E h : IsSemundo(h, p, start, ops) /\ Back(p, start, ops) = h[0]
<1>0. Len(ops) \in Nat /\ DOMAIN ops = 1 .. Len(ops)
    OBVIOUS
<1>1. \A g : IsLoop(g, "semundo", p, start, ops) <=> IsBack(g, p, start, ops)
    BY Zenon DEF IsLoop, IsBack, LoopTurn, Left
<1>2. PICK g : g = (CHOOSE k : IsBack(k, p, start, ops))
    OBVIOUS
<1>3. IsBack(g, p, start, ops)
    BY <1>0, <1>1, <1>2, LoopExists
<1>4. \A U \in SUBSET DOMAIN ops :
          g[U] = IF U = {} THEN start ELSE Undone(p, g[U \ {Min(U)}], ops[Min(U)])
    BY <1>3 DEF IsBack
<1> DEFINE n == Len(ops)
           h == [i \in 0 .. n |-> g[(i + 1) .. n]]
<1>5. h[n] = start
    <2>1. (n + 1) .. n = {} /\ n \in 0 .. n
        BY <1>0
    <2> QED
        BY <1>4, <2>1
<1>6. ASSUME NEW i \in 1 .. n PROVE h[i - 1] = Undone(p, h[i], ops[i])
    <2>1. PICK U : U = i .. n
        OBVIOUS
    <2>0. i \in Nat /\ 1 <= i /\ i <= n /\ i \in i .. n
        BY <1>0
    <2>2. U \in SUBSET DOMAIN ops /\ U # {} /\ i \in U
        <3>1. i .. n \subseteq 1 .. n
            BY <1>0, <2>0
        <3> QED
            BY <1>0, <2>0, <2>1, <3>1
    <2>3. Min(U) = i
        <3>1. Min(U) \in U /\ \A x \in U : Min(U) <= x
            BY <1>0, <2>2, MaxMin
        <3> QED
            BY <2>1, <2>2, <3>1
    <2>4. /\ U \ {i} = (i + 1) .. n /\ i - 1 \in 0 .. n /\ i \in 0 .. n
          /\ i - 1 + 1 = i
        BY <1>0, <2>1
    <2>5. g[U] = Undone(p, g[U \ {i}], ops[i])
        BY <1>4, <2>2, <2>3
    <2> QED
        BY <2>1, <2>4, <2>5
<1>7. IsSemundo(h, p, start, ops)
    BY <1>5, <1>6 DEF IsSemundo
<1>8. Back(p, start, ops) = h[0]
    <2>1. Back(p, start, ops) = g[DOMAIN ops]
        BY <1>2, BackIs
    <2>2. h[0] = g[1 .. n]
        BY <1>0
    <2> QED
        BY <1>0, <2>1, <2>2
<1> QED
    BY <1>7, <1>8

-------------------------------------------------------------------------------
(* semaoe and semundo: the loop does all of the operations or none         *)

SetRec == [alloc : BOOLEAN, seq : 0 .. SemMaxSeq, val : [Nums -> 0 .. SemVmx],
           ncnt : [Nums -> Nat], zcnt : [Nums -> Nat]]

\* The entries of an undo structure
EntOK(u) ==
    /\ IsFiniteSet(DOMAIN u.ent)
    /\ \A e \in DOMAIN u.ent : u.ent[e] \in Int /\ u.ent[e] # 0 /\ Within(u.ent[e])

UndoOK(u) ==
    /\ u = [held |-> u.held, ent |-> u.ent] /\ u.held \in BOOLEAN
    /\ EntOK(u)
    /\ Cardinality(DOMAIN u.ent) <= IF u.held THEN SemUme ELSE 0

\* Two structures have the same entries
SameEnt(u, w) ==
    DOMAIN u.ent = DOMAIN w.ent /\ \A e \in DOMAIN u.ent : u.ent[e] = w.ent[e]

LEMMA SemaoeIs ==
    ASSUME NEW u, UndoOK(u), NEW v \in Int, v # 0, NEW k, NEW free \in BOOLEAN
    PROVE  \/ /\ Semaoe(u, v, k, free) = FAIL
              /\ \/ ~Within(v) \/ ~Within(Aoe(u, k) - v)
                 \/ ~u.held /\ ~free
                 \/ k \notin DOMAIN u.ent /\ Cardinality(DOMAIN u.ent) >= SemUme
           \/ /\ Semaoe(u, v, k, free) = SetEntry(u, k, Aoe(u, k) - v)
              /\ Within(v) /\ Within(Aoe(u, k) - v) /\ (u.held \/ free)
              /\ k \in DOMAIN u.ent \/ ~(Cardinality(DOMAIN u.ent) >= SemUme)
<1> DEFINE new == Aoe(u, k) - v
           bad == \/ ~Within(v) \/ ~Within(new)
                  \/ ~u.held /\ ~free
                  \/ k \notin DOMAIN u.ent /\ Cardinality(DOMAIN u.ent) >= SemUme
<1>0. u.held \in BOOLEAN
    BY DEF UndoOK
<1>1. Semaoe(u, v, k, free) = IF bad THEN FAIL ELSE SetEntry(u, k, new)
    BY <1>0 DEF Semaoe, Aoe, Within
<1>2. CASE bad
    BY <1>1, <1>2
<1>3. CASE ~bad
    <2>1. Semaoe(u, v, k, free) = SetEntry(u, k, new)
        <3> HIDE DEF bad
        <3> QED
            BY <1>1, <1>3
    <2>2. /\ Within(v) /\ Within(new) /\ (u.held \/ free)
          /\ k \in DOMAIN u.ent \/ ~(Cardinality(DOMAIN u.ent) >= SemUme)
        BY <1>0, <1>3 DEF Within
    <2> QED
        BY <2>1, <2>2
<1> QED
    BY <1>2, <1>3

LEMMA WithinNeg == ASSUME NEW v \in Int, Within(v) PROVE Within(-v) /\ Within(0)
    BY SemAssumption DEF Within

LEMMA AoeOK == ASSUME NEW u, UndoOK(u), NEW k PROVE Aoe(u, k) \in Int /\ Within(Aoe(u, k))
    BY SemAssumption DEF Aoe, UndoOK, EntOK, Within

\* Entries that semaoe sets keep their form
LEMMA SetEntryOK ==
    ASSUME NEW u, UndoOK(u), NEW k, NEW new \in Int, Within(new), NEW w, w = SetEntry(u, k, new),
           k \in DOMAIN u.ent \/ ~(Cardinality(DOMAIN u.ent) >= SemUme), SemUme \in Nat
    PROVE  UndoOK(w)
<1>0. IsFiniteSet(DOMAIN u.ent) /\ Cardinality(DOMAIN u.ent) \in Nat
    BY FS_CardinalityType DEF UndoOK, EntOK
<1>1. Cardinality(DOMAIN u.ent) <= SemUme
    BY <1>0 DEF UndoOK
<1>2. IsFiniteSet(DOMAIN w.ent) /\ Cardinality(DOMAIN w.ent) <= SemUme
    <2>1. CASE new = 0
        <3>1. DOMAIN w.ent = DOMAIN u.ent \ {k}
            BY <2>1 DEF SetEntry
        <3>2. /\ IsFiniteSet(DOMAIN u.ent \ {k})
              /\ Cardinality(DOMAIN u.ent \ {k}) <= Cardinality(DOMAIN u.ent)
            BY <1>0, FS_Subset
        <3>3. Cardinality(DOMAIN u.ent \ {k}) \in Nat
            BY <3>2, FS_CardinalityType
        <3> QED
            BY <1>0, <1>1, <3>1, <3>2, <3>3
    <2>2. CASE new # 0
        <3>1. DOMAIN w.ent = DOMAIN u.ent \cup {k}
            BY <2>2 DEF SetEntry
        <3>2. PICK D : D = DOMAIN u.ent
            OBVIOUS
        <3>3. CASE k \in D
            <4>1. DOMAIN w.ent = D
                BY <3>1, <3>2, <3>3
            <4> QED
                BY <1>0, <1>1, <3>2, <4>1
        <3>4. CASE k \notin D
            <4>1. IsFiniteSet(D \cup {k}) /\ Cardinality(D \cup {k}) = Cardinality(D) + 1
                BY <1>0, <3>2, <3>4, FS_AddElement
            <4>2. ~(Cardinality(D) >= SemUme) /\ Cardinality(D) \in Nat
                BY <1>0, <3>2, <3>4
            <4> QED
                BY <3>1, <3>2, <4>1, <4>2
        <3> QED
            BY <3>3, <3>4
    <2> QED
        BY <2>1, <2>2
<1>3. \A e \in DOMAIN w.ent : w.ent[e] \in Int /\ w.ent[e] # 0 /\ Within(w.ent[e])
    BY DEF SetEntry, UndoOK, EntOK
<1>4. w = [held |-> w.held, ent |-> w.ent] /\ w.held = TRUE
    BY DEF SetEntry
<1> QED
    BY <1>2, <1>3, <1>4 DEF UndoOK, EntOK

\* semaoe keeps the entries in their form, and takes a structure only if there is one
LEMMA SemaoeOK ==
    ASSUME NEW u, UndoOK(u), NEW v \in Int, v # 0, NEW k, NEW free \in BOOLEAN,
           Semaoe(u, v, k, free) # FAIL
    PROVE  /\ UndoOK(Semaoe(u, v, k, free)) /\ Semaoe(u, v, k, free).held
           /\ u.held \/ free
           /\ Semaoe(u, v, k, free) = SetEntry(u, k, Aoe(u, k) - v)
<1>1. /\ Semaoe(u, v, k, free) = SetEntry(u, k, Aoe(u, k) - v)
      /\ Within(v) /\ Within(Aoe(u, k) - v) /\ (u.held \/ free)
      /\ k \in DOMAIN u.ent \/ ~(Cardinality(DOMAIN u.ent) >= SemUme)
    BY SemaoeIs
<1>2. Aoe(u, k) - v \in Int
    BY AoeOK
<1>3. UndoOK(Semaoe(u, v, k, free))
    BY <1>1, <1>2, SetEntryOK, SemAssumption
<1>4. Semaoe(u, v, k, free).held
    BY <1>1 DEF SetEntry
<1> QED
    BY <1>1, <1>3, <1>4

\* What semaoe changed, semaoe changes back
LEMMA Restored ==
    ASSUME NEW u, UndoOK(u), NEW v \in Int, v # 0, NEW k, NEW free \in BOOLEAN,
           Semaoe(u, v, k, free) # FAIL,
           NEW w, UndoOK(w), w.held, SameEnt(w, Semaoe(u, v, k, free))
    PROVE  /\ Semaoe(w, -v, k, free) # FAIL
           /\ UndoOK(Semaoe(w, -v, k, free)) /\ Semaoe(w, -v, k, free).held
           /\ SameEnt(Semaoe(w, -v, k, free), u)
<1>0. PICK x : x = Semaoe(u, v, k, free)
    OBVIOUS
<1>1. /\ x = SetEntry(u, k, Aoe(u, k) - v)
      /\ Within(v) /\ Within(Aoe(u, k) - v)
      /\ k \in DOMAIN u.ent \/ ~(Cardinality(DOMAIN u.ent) >= SemUme)
    BY <1>0, SemaoeIs
<1>2. Aoe(u, k) \in Int /\ Within(Aoe(u, k)) /\ -v \in Int /\ -v # 0 /\ Within(-v)
    BY <1>1, AoeOK, WithinNeg
<1>3. Aoe(w, k) = Aoe(u, k) - v
    <2>1. Aoe(w, k) = Aoe(x, k)
        BY <1>0 DEF SameEnt, Aoe
    <2>2. Aoe(x, k) = Aoe(u, k) - v
        BY <1>1, <1>2 DEF SetEntry, Aoe
    <2> QED
        BY <2>1, <2>2
<1>4. Aoe(w, k) - (-v) = Aoe(u, k)
    BY <1>2, <1>3
<1>5. k \in DOMAIN w.ent \/ ~(Cardinality(DOMAIN w.ent) >= SemUme)
    <2>1. ASSUME k \notin DOMAIN w.ent PROVE Cardinality(DOMAIN w.ent) < SemUme
        <3>1. DOMAIN w.ent = DOMAIN u.ent \ {k} /\ Aoe(u, k) - v = 0
            BY <2>1, <1>0, <1>1 DEF SetEntry, SameEnt
        <3>2. k \in DOMAIN u.ent
            BY <3>1 DEF Aoe
        <3>3. Cardinality(DOMAIN u.ent) <= SemUme /\ Cardinality(DOMAIN u.ent) \in Nat
            BY SemAssumption, FS_CardinalityType DEF UndoOK, EntOK
        <3>4. Cardinality(DOMAIN w.ent) = Cardinality(DOMAIN u.ent) - 1
            BY <3>1, <3>2, FS_RemoveElement DEF UndoOK, EntOK
        <3> QED
            BY <3>3, <3>4, SemAssumption
    <2>2. Cardinality(DOMAIN w.ent) \in Nat
        BY FS_CardinalityType DEF UndoOK, EntOK
    <2> QED
        BY <2>1, <2>2, SemAssumption
<1>6. PICK y : y = Semaoe(w, -v, k, free)
    OBVIOUS
<1>7. y = SetEntry(w, k, Aoe(u, k))
    <2>1. Within(-v) /\ Within(Aoe(w, k) - (-v)) /\ w.held
        BY <1>2, <1>4
    <2> QED
        BY <1>2, <1>4, <1>5, <1>6, <2>1, SemaoeIs
<1>8. y # FAIL
    <2>1. y.held = TRUE
        BY <1>7 DEF SetEntry
    <2> QED
        BY <2>1 DEF FAIL
<1>9. UndoOK(y) /\ y.held
    BY <1>2, <1>6, <1>8, SemaoeOK
<1>10. SameEnt(y, u)
    <2>1. DOMAIN y.ent = DOMAIN u.ent
        <3>1. DOMAIN x.ent \ {k} = DOMAIN u.ent \ {k} /\ DOMAIN w.ent = DOMAIN x.ent
            BY <1>0, <1>1 DEF SetEntry, SameEnt
        <3>2. CASE Aoe(u, k) = 0
            <4>1. k \notin DOMAIN u.ent
                BY <3>2 DEF Aoe, UndoOK, EntOK
            <4>2. DOMAIN y.ent = DOMAIN w.ent \ {k}
                BY <1>7, <3>2 DEF SetEntry
            <4> QED
                BY <3>1, <4>1, <4>2
        <3>3. CASE Aoe(u, k) # 0
            <4>1. k \in DOMAIN u.ent
                BY <3>3 DEF Aoe
            <4>2. DOMAIN y.ent = DOMAIN w.ent \cup {k}
                BY <1>7, <3>3 DEF SetEntry
            <4> QED
                BY <3>1, <4>1, <4>2
        <3> QED
            BY <3>2, <3>3
    <2>2. ASSUME NEW e \in DOMAIN u.ent PROVE y.ent[e] = u.ent[e]
        <3>1. CASE e = k
            BY <1>7, <2>1, <3>1 DEF SetEntry, Aoe
        <3>2. CASE e # k
            <4>1. e \in DOMAIN x.ent /\ x.ent[e] = u.ent[e]
                BY <1>1, <3>2 DEF SetEntry
            <4>2. w.ent[e] = x.ent[e] /\ e \in DOMAIN w.ent
                BY <1>0, <4>1 DEF SameEnt
            <4> QED
                BY <1>7, <2>1, <3>2, <4>1, <4>2 DEF SetEntry
        <3> QED
            BY <3>1, <3>2
    <2> QED
        BY <2>1, <2>2 DEF SameEnt
<1> QED
    BY <1>6, <1>8, <1>9, <1>10
-------------------------------------------------------------------------------
(* A turn of the loop of semop                                             *)

OpRec == [num : Nums, op : Int, undo : BOOLEAN, nowait : BOOLEAN]
LoopEnds == {"no", "error", "semncnt", "semzcnt"}

AccOK(p, a) ==
    /\ a = [m |-> a.m, u |-> a.u, wakes |-> a.wakes, done |-> a.done, end |-> a.end,
            on |-> a.on]
    /\ a.m \in SetRec /\ UndoOK(a.u) /\ (a.u.held => undo[p].held \/ FreeUndo)
    /\ a.done \in Nat /\ a.end \in LoopEnds
    /\ a.end \in {"semncnt", "semzcnt"} => a.on \in Nums

\* Those that are counted are woken up, or still counted: for a greater value while it is not
\* greater, and for zero while it is not zero
Watched(s, m, new, wakes) ==
    \A n \in Nums :
        /\ m.ncnt[n] > 0 => Ncnt(s, n) \in wakes \/ (new.ncnt[n] > 0 /\ new.val[n] <= m.val[n])
        /\ m.zcnt[n] > 0 =>
              Zcnt(s, n) \in wakes \/ (new.zcnt[n] > 0 /\ (m.val[n] # 0 => new.val[n] # 0))

\* The operation o is done
DoneOp(p, a, o, b) ==
    /\ \A n \in Nums : b.m.val[n] = IF n = o.num THEN a.m.val[n] + o.op ELSE a.m.val[n]
    /\ b.u = IF o.undo /\ o.op # 0 THEN Semaoe(a.u, o.op, Key(p, o), FreeUndo) ELSE a.u
    /\ o.undo /\ o.op # 0 => Semaoe(a.u, o.op, Key(p, o), FreeUndo) # FAIL
    /\ b.done = a.done + 1 /\ b.end = "no"

\* It is not: the loop ends
StopOp(p, a, o, b) ==
    /\ b.m = a.m /\ b.u.ent = a.u.ent /\ (a.u.held => b.u.held)
    /\ b.done = a.done /\ b.end # "no"
    /\ b.end = "semncnt" => b.on = o.num /\ o.op < 0 /\ a.m.val[o.num] < -o.op
    /\ b.end = "semzcnt" => b.on = o.num /\ o.op = 0 /\ a.m.val[o.num] # 0

\* The value v + o.op of semaphore o.num, and who is woken up
Changed(m, o, v) ==
    LET w == [m EXCEPT !.val[o.num] = v]
    IN  IF o.op > 0 THEN [w EXCEPT !.ncnt[o.num] = 0]
        ELSE [w EXCEPT !.zcnt[o.num] = IF v = 0 THEN 0 ELSE w.zcnt[o.num]]

LEMMA FreeBool == FreeUndo \in BOOLEAN
    BY DEF FreeUndo

LEMMA ChangedOK ==
    ASSUME NEW m \in SetRec, NEW o \in OpRec, NEW v \in 0 .. SemVmx
    PROVE  /\ Changed(m, o, v) \in SetRec
           /\ \A n \in Nums : /\ Changed(m, o, v).val[n] = IF n = o.num THEN v ELSE m.val[n]
                              /\ Changed(m, o, v).ncnt[n] = IF o.op > 0 /\ n = o.num THEN 0
                                                            ELSE m.ncnt[n]
                              /\ Changed(m, o, v).zcnt[n] =
                                    IF ~(o.op > 0) /\ n = o.num /\ v = 0 THEN 0 ELSE m.zcnt[n]
<1>0. o.num \in Nums /\ o.op \in Int
    BY DEF OpRec
<1>m. m = [alloc |-> m.alloc, seq |-> m.seq, val |-> m.val, ncnt |-> m.ncnt, zcnt |-> m.zcnt]
    BY DEF SetRec
<1>t. /\ m.alloc \in BOOLEAN /\ m.seq \in 0 .. SemMaxSeq /\ m.val \in [Nums -> 0 .. SemVmx]
      /\ m.ncnt \in [Nums -> Nat] /\ m.zcnt \in [Nums -> Nat]
    BY DEF SetRec
<1>v. PICK val : val = [m.val EXCEPT ![o.num] = v]
    OBVIOUS
<1>w. /\ val \in [Nums -> 0 .. SemVmx]
      /\ \A n \in Nums : val[n] = IF n = o.num THEN v ELSE m.val[n]
    BY <1>0, <1>t, <1>v
<1>x. PICK w : w = [m EXCEPT !.val[o.num] = v]
    OBVIOUS
<1>y. w = [alloc |-> m.alloc, seq |-> m.seq, val |-> val, ncnt |-> m.ncnt, zcnt |-> m.zcnt]
    BY <1>m, <1>v, <1>x
<1>1. CASE o.op > 0
    <2>1. PICK c : c = [m.ncnt EXCEPT ![o.num] = 0]
        OBVIOUS
    <2>2. c \in [Nums -> Nat] /\ \A n \in Nums : c[n] = IF n = o.num THEN 0 ELSE m.ncnt[n]
        BY <1>0, <1>t, <2>1
    <2>3. Changed(m, o, v) = [w EXCEPT !.ncnt[o.num] = 0]
        BY <1>1, <1>x DEF Changed
    <2>4. Changed(m, o, v) = [alloc |-> m.alloc, seq |-> m.seq, val |-> val, ncnt |-> c,
                              zcnt |-> m.zcnt]
        BY <1>y, <2>1, <2>3
    <2>5. Changed(m, o, v) \in SetRec
        BY <1>t, <1>w, <2>2, <2>4 DEF SetRec
    <2> QED
        BY <1>1, <1>w, <2>2, <2>4, <2>5
<1>2. CASE ~(o.op > 0)
    <2>1. PICK z \in Nat : z = IF v = 0 THEN 0 ELSE w.zcnt[o.num]
        BY <1>0, <1>t, <1>y
    <2>2. PICK c : c = [m.zcnt EXCEPT ![o.num] = z]
        OBVIOUS
    <2>3. c \in [Nums -> Nat] /\ \A n \in Nums : c[n] = IF n = o.num THEN z ELSE m.zcnt[n]
        BY <1>0, <1>t, <2>2
    <2>4. Changed(m, o, v) = [w EXCEPT !.zcnt[o.num] = z]
        BY <1>2, <1>x, <2>1 DEF Changed
    <2>5. Changed(m, o, v) = [alloc |-> m.alloc, seq |-> m.seq, val |-> val, ncnt |-> m.ncnt,
                              zcnt |-> c]
        BY <1>y, <2>2, <2>4
    <2>6. Changed(m, o, v) \in SetRec
        BY <1>t, <1>w, <2>3, <2>5 DEF SetRec
    <2> QED
        BY <1>2, <1>w, <1>y, <2>1, <2>3, <2>5, <2>6
<1> QED
    BY <1>1, <1>2

\* What a turn does
LEMMA StepIs ==
    ASSUME NEW p \in Procs, UndoOK(undo[p]), NEW a, AccOK(p, a), a.end = "no", NEW o \in OpRec
    PROVE  /\ AccOK(p, Step(p, a, o))
           /\ DoneOp(p, a, o, Step(p, a, o)) \/ StopOp(p, a, o, Step(p, a, o))
           /\ Watched(S(p), a.m, Step(p, a, o).m, Step(p, a, o).wakes)
           /\ a.wakes \subseteq Step(p, a, o).wakes
<1>0. o.num \in Nums /\ o.op \in Int /\ o.undo \in BOOLEAN /\ o.nowait \in BOOLEAN
    BY DEF OpRec
<1>1. a.m.val \in [Nums -> 0 .. SemVmx] /\ a.m.ncnt \in [Nums -> Nat] /\ a.m.zcnt \in [Nums -> Nat]
    BY DEF AccOK, SetRec
<1>2. PICK v : v = a.m.val[o.num]
    OBVIOUS
<1>3. v \in 0 .. SemVmx /\ v \in Nat
    BY <1>0, <1>1, <1>2
<1>4. Watched(S(p), a.m, a.m, a.wakes)
    BY <1>1 DEF Watched
<1>5. \A b : /\ b.m = a.m /\ b.wakes = a.wakes
             => Watched(S(p), a.m, b.m, b.wakes) /\ a.wakes \subseteq b.wakes
    BY <1>4
<1>6. CASE o.op > 0 /\ v + o.op > SemVmx
    <2>1. Step(p, a, o) = [a EXCEPT !.end = "error"]
        BY <1>0, <1>2, <1>3, <1>6 DEF Step
    <2>2. PICK b : b = Step(p, a, o)
        OBVIOUS
    <2>3. b = [m |-> a.m, u |-> a.u, wakes |-> a.wakes, done |-> a.done, end |-> "error",
               on |-> a.on]
        BY <2>1, <2>2 DEF AccOK
    <2>4. AccOK(p, b)
        BY <2>3 DEF AccOK, LoopEnds
    <2>5. StopOp(p, a, o, b)
        BY <2>3 DEF StopOp
    <2> QED
        BY <1>5, <2>2, <2>3, <2>4, <2>5
<1>7. CASE o.op < 0 /\ v < -o.op
    <2>1. Step(p, a, o) =
              [a EXCEPT !.end = IF o.nowait THEN "error" ELSE "semncnt", !.on = o.num]
        BY <1>0, <1>2, <1>7 DEF Step
    <2>2. PICK b : b = Step(p, a, o)
        OBVIOUS
    <2>e. PICK end : end = IF o.nowait THEN "error" ELSE "semncnt"
        OBVIOUS
    <2>3. b = [m |-> a.m, u |-> a.u, wakes |-> a.wakes, done |-> a.done, end |-> end, on |-> o.num]
        BY <2>1, <2>2, <2>e DEF AccOK
    <2>4. end \in {"error", "semncnt"}
        BY <2>e
    <2>5. AccOK(p, b)
        BY <1>0, <2>3, <2>4 DEF AccOK, LoopEnds
    <2>6. StopOp(p, a, o, b)
        BY <1>2, <1>7, <2>3, <2>4 DEF StopOp
    <2> QED
        BY <1>5, <2>2, <2>3, <2>5, <2>6
<1>8. CASE o.op = 0 /\ v # 0
    <2>1. Step(p, a, o) =
              [a EXCEPT !.end = IF o.nowait THEN "error" ELSE "semzcnt", !.on = o.num]
        BY <1>2, <1>8 DEF Step
    <2>2. PICK b : b = Step(p, a, o)
        OBVIOUS
    <2>e. PICK end : end = IF o.nowait THEN "error" ELSE "semzcnt"
        OBVIOUS
    <2>3. b = [m |-> a.m, u |-> a.u, wakes |-> a.wakes, done |-> a.done, end |-> end, on |-> o.num]
        BY <2>1, <2>2, <2>e DEF AccOK
    <2>4. end \in {"error", "semzcnt"}
        BY <2>e
    <2>5. AccOK(p, b)
        BY <1>0, <2>3, <2>4 DEF AccOK, LoopEnds
    <2>6. StopOp(p, a, o, b)
        BY <1>2, <1>8, <2>3, <2>4 DEF StopOp
    <2> QED
        BY <1>5, <2>2, <2>3, <2>5, <2>6
<1>9. CASE o.op = 0 /\ v = 0
    <2>1. Step(p, a, o) = [a EXCEPT !.done = a.done + 1]
        BY <1>2, <1>9 DEF Step
    <2>2. PICK b : b = Step(p, a, o)
        OBVIOUS
    <2>3. b = [m |-> a.m, u |-> a.u, wakes |-> a.wakes, done |-> a.done + 1, end |-> a.end,
               on |-> a.on]
        BY <2>1, <2>2 DEF AccOK
    <2>4. AccOK(p, b)
        BY <2>3 DEF AccOK
    <2>5. DoneOp(p, a, o, b)
        BY <1>1, <1>9, <2>3 DEF DoneOp
    <2> QED
        BY <1>5, <2>2, <2>3, <2>4, <2>5
<1>10. CASE o.op # 0 /\ ~(o.op > 0 /\ v + o.op > SemVmx) /\ ~(o.op < 0 /\ v < -o.op)
    <2>v. v + o.op \in 0 .. SemVmx
        BY <1>0, <1>3, <1>10, SemAssumption
    <2>u. PICK u : u = IF o.undo THEN Semaoe(a.u, o.op, Key(p, o), FreeUndo) ELSE a.u
        OBVIOUS
    <2>h. PICK holds : holds = (a.u.held \/ (o.undo /\ FreeUndo /\ Within(o.op) /\ o.op # 0))
        OBVIOUS
    <2>c. PICK new : new = Changed(a.m, o, v + o.op)
        OBVIOUS
    <2>m. PICK w : w = [a.m EXCEPT !.val[o.num] = v + o.op]
        OBVIOUS
    <2>n. w.ncnt = a.m.ncnt /\ w.zcnt = a.m.zcnt /\ w.val[o.num] = v + o.op
        BY <1>0, <2>m DEF AccOK, SetRec
    <2>w. PICK more : more = IF o.op > 0 THEN WakesNcnt(w, S(p), o.num, TRUE)
                             ELSE WakesZcnt(w, S(p), o.num)
        OBVIOUS
    <2>d. /\ new \in SetRec
          /\ \A n \in Nums : /\ new.val[n] = IF n = o.num THEN v + o.op ELSE a.m.val[n]
                             /\ new.ncnt[n] = IF o.op > 0 /\ n = o.num THEN 0 ELSE a.m.ncnt[n]
                             /\ new.zcnt[n] = IF ~(o.op > 0) /\ n = o.num /\ v + o.op = 0 THEN 0
                                              ELSE a.m.zcnt[n]
        BY <2>c, <2>v, ChangedOK DEF AccOK
    <2>f. FreeUndo \in BOOLEAN /\ a.u.held \in BOOLEAN /\ UndoOK(a.u)
        BY FreeBool DEF AccOK, UndoOK
    <2>x. new = IF o.op > 0 THEN [w EXCEPT !.ncnt[o.num] = 0]
                ELSE [w EXCEPT !.zcnt[o.num] = IF v + o.op = 0 THEN 0 ELSE w.zcnt[o.num]]
        BY <2>c, <2>m DEF Changed
    <2>s. Step(p, a, o) =
              IF o.undo /\ u = FAIL THEN [a EXCEPT !.end = "error", !.u.held = holds]
              ELSE [a EXCEPT !.m = new, !.u = u, !.wakes = a.wakes \cup more, !.done = a.done + 1]
        BY <1>0, <1>2, <1>3, <1>10, <2>u, <2>h, <2>x, <2>w, <2>m DEF Step
    <2>b. PICK b : b = Step(p, a, o)
        OBVIOUS
    <2>1. CASE o.undo /\ u = FAIL
        <3>1. PICK x : x = [a.u EXCEPT !.held = holds]
            OBVIOUS
        <3>2. x = [held |-> holds, ent |-> a.u.ent]
            BY <3>1, <2>f DEF UndoOK
        <3>3. b = [m |-> a.m, u |-> x, wakes |-> a.wakes, done |-> a.done, end |-> "error",
               on |-> a.on]
            BY <2>s, <2>b, <2>1, <3>1 DEF AccOK
        <3>4. holds \in BOOLEAN /\ (a.u.held => holds) /\ (holds => a.u.held \/ FreeUndo)
            BY <2>h, <2>f
        <3>5. UndoOK(x)
            <4>1. EntOK(x)
                BY <2>f, <3>2 DEF UndoOK, EntOK
            <4>2. Cardinality(DOMAIN x.ent) \in Nat
                BY <4>1, FS_CardinalityType DEF EntOK
            <4>3. Cardinality(DOMAIN x.ent) <= IF holds THEN SemUme ELSE 0
                BY <2>f, <3>2, <3>4, <4>2, SemAssumption DEF UndoOK
            <4> QED
                BY <3>2, <3>4, <4>1, <4>3 DEF UndoOK
        <3>6. holds => undo[p].held \/ FreeUndo
            BY <3>4 DEF AccOK
        <3>7. AccOK(p, b)
            BY <3>2, <3>3, <3>5, <3>6 DEF AccOK, LoopEnds
        <3>8. StopOp(p, a, o, b)
            BY <3>2, <3>3, <3>4 DEF StopOp
        <3> QED
            BY <1>5, <2>b, <3>3, <3>7, <3>8
    <2>2. CASE ~(o.undo /\ u = FAIL)
        <3>1. b = [m |-> new, u |-> u, wakes |-> a.wakes \cup more, done |-> a.done + 1,
                   end |-> a.end, on |-> a.on]
            BY <2>s, <2>b, <2>2 DEF AccOK
        <3>2. UndoOK(u) /\ (u.held => undo[p].held \/ FreeUndo)
            <4>1. CASE o.undo
                <5>1. /\ UndoOK(Semaoe(a.u, o.op, Key(p, o), FreeUndo))
                      /\ a.u.held \/ FreeUndo
                    BY <1>0, <1>10, <2>u, <2>f, <2>2, <4>1, SemaoeOK
                <5> QED
                    BY <2>u, <4>1, <5>1 DEF AccOK
            <4>2. CASE ~o.undo
                BY <2>u, <4>2 DEF AccOK
            <4> QED
                BY <4>1, <4>2, <1>0
        <3>3. AccOK(p, b)
            BY <2>d, <3>1, <3>2 DEF AccOK, LoopEnds
        <3>4. DoneOp(p, a, o, b)
            BY <1>2, <1>10, <2>d, <2>u, <2>2, <3>1 DEF DoneOp
        <3>5. Watched(S(p), a.m, new, a.wakes \cup more)
            <4>1. ASSUME NEW n \in Nums, a.m.ncnt[n] > 0
                  PROVE  \/ Ncnt(S(p), n) \in more
                         \/ new.ncnt[n] > 0 /\ new.val[n] <= a.m.val[n]
                <5>1. CASE o.op > 0 /\ n = o.num
                    BY <1>1, <2>n, <2>w, <4>1, <5>1 DEF WakesNcnt
                <5>2. CASE ~(o.op > 0 /\ n = o.num)
                    BY <1>0, <1>1, <1>2, <2>d, <4>1, <5>2
                <5> QED
                    BY <5>1, <5>2
            <4>2. ASSUME NEW n \in Nums, a.m.zcnt[n] > 0
                  PROVE  \/ Zcnt(S(p), n) \in more
                         \/ new.zcnt[n] > 0 /\ (a.m.val[n] # 0 => new.val[n] # 0)
                <5>1. CASE ~(o.op > 0) /\ n = o.num /\ v + o.op = 0
                    <6>1. w.val[n] = 0 /\ w.zcnt[n] # 0
                        BY <1>1, <2>n, <4>2, <5>1
                    <6>2. more = WakesZcnt(w, S(p), n)
                        BY <2>w, <5>1
                    <6>3. more = {Zcnt(S(p), n)}
                        BY <6>1, <6>2 DEF WakesZcnt
                    <6> QED
                        BY <6>3
                <5>2. CASE ~(~(o.op > 0) /\ n = o.num /\ v + o.op = 0)
                    <6>1. new.zcnt[n] = a.m.zcnt[n]
                        BY <2>d, <5>2
                    <6>2. new.val[n] = 0 => a.m.val[n] = 0
                        BY <1>0, <1>1, <1>3, <1>10, <2>d, <5>2
                    <6> QED
                        BY <4>2, <6>1, <6>2
                <5> QED
                    BY <5>1, <5>2
            <4> QED
                BY <4>1, <4>2 DEF Watched
        <3> QED
            BY <2>b, <3>1, <3>3, <3>4, <3>5
    <2> QED
        BY <2>1, <2>2
<1> QED
    BY <1>0, <1>3, <1>6, <1>7, <1>8, <1>9, <1>10

-------------------------------------------------------------------------------
(* The loop of semop and semundo                                           *)

Start(p) == [m |-> sema[S(p)], u |-> undo[p], wakes |-> {}, done |-> 0, end |-> "no", on |-> 0]

\* The loop after i turns
TurnOK(h, p, ops, i) ==
    LET d == h[i].done
    IN  /\ AccOK(p, h[i]) /\ Watched(S(p), sema[S(p)], h[i].m, h[i].wakes)
        /\ d <= i /\ (h[i].end = "no" => d = i)
        /\ h[i].end # "no" => d < i /\ StopOp(p, h[d], ops[d + 1], h[i])
        /\ \A j \in 1 .. d : AccOK(p, h[j - 1]) /\ DoneOp(p, h[j - 1], ops[j], h[j])
        /\ AccOK(p, h[d])

LEMMA WatchedTwice ==
    ASSUME NEW s, NEW m \in SetRec, NEW m1 \in SetRec, NEW m2 \in SetRec, NEW w1, NEW w2,
           Watched(s, m, m1, w1), Watched(s, m1, m2, w2), w1 \subseteq w2
    PROVE  Watched(s, m, m2, w2)
<1>1. ASSUME NEW n \in Nums
      PROVE  /\ m.val[n] \in Nat /\ m1.val[n] \in Nat /\ m2.val[n] \in Nat
             /\ m.ncnt[n] \in Nat /\ m1.ncnt[n] \in Nat /\ m2.ncnt[n] \in Nat
             /\ m.zcnt[n] \in Nat /\ m1.zcnt[n] \in Nat /\ m2.zcnt[n] \in Nat
    BY SemAssumption DEF SetRec
<1>2. ASSUME NEW n \in Nums, m.ncnt[n] > 0
      PROVE  Ncnt(s, n) \in w2 \/ (m2.ncnt[n] > 0 /\ m2.val[n] <= m.val[n])
    <2>1. Ncnt(s, n) \in w1 \/ (m1.ncnt[n] > 0 /\ m1.val[n] <= m.val[n])
        BY <1>2 DEF Watched
    <2>2. m1.ncnt[n] > 0 => Ncnt(s, n) \in w2 \/ (m2.ncnt[n] > 0 /\ m2.val[n] <= m1.val[n])
        BY DEF Watched
    <2> QED
        BY <1>1, <2>1, <2>2
<1>3. ASSUME NEW n \in Nums, m.zcnt[n] > 0
      PROVE  Zcnt(s, n) \in w2 \/ (m2.zcnt[n] > 0 /\ (m.val[n] # 0 => m2.val[n] # 0))
    <2>1. Zcnt(s, n) \in w1 \/ (m1.zcnt[n] > 0 /\ (m.val[n] # 0 => m1.val[n] # 0))
        BY <1>3 DEF Watched
    <2>2. m1.zcnt[n] > 0 =>
              Zcnt(s, n) \in w2 \/ (m2.zcnt[n] > 0 /\ (m1.val[n] # 0 => m2.val[n] # 0))
        BY DEF Watched
    <2> QED
        BY <2>1, <2>2
<1> QED
    BY <1>2, <1>3 DEF Watched

LEMMA TurnsOK ==
    ASSUME NEW p \in Procs, sema[S(p)] \in SetRec, UndoOK(undo[p]), NEW ops \in Seq(OpRec),
           NEW h, IsSemop(h, p, Start(p), ops)
    PROVE  \A i \in 0 .. Len(ops) : TurnOK(h, p, ops, i)
<1> DEFINE N == {i \in Nat : i <= Len(ops) => TurnOK(h, p, ops, i)}
<1>0. Len(ops) \in Nat /\ \A i \in 1 .. Len(ops) : ops[i] \in OpRec
    OBVIOUS
<1>1. 0 \in N
    <2>1. PICK a : a = h[0]
        OBVIOUS
    <2>2. /\ a.m = sema[S(p)] /\ a.u = undo[p] /\ a.wakes = {} /\ a.done = 0 /\ a.end = "no"
          /\ a = [m |-> a.m, u |-> a.u, wakes |-> a.wakes, done |-> a.done, end |-> a.end,
                  on |-> a.on]
        BY <2>1 DEF IsSemop, Start
    <2>3. AccOK(p, a)
        BY <2>2 DEF AccOK, LoopEnds
    <2>4. Watched(S(p), sema[S(p)], a.m, a.wakes)
        BY <2>2 DEF Watched, SetRec
    <2>5. AccOK(p, h[0]) /\ h[0].done = 0 /\ h[0].end = "no"
        BY <2>1, <2>2, <2>3
    <2>6. 1 .. 0 = {} /\ 0 <= 0 /\ 0 \in Nat
        OBVIOUS
    <2>7. TurnOK(h, p, ops, 0)
        BY <2>1, <2>4, <2>5, <2>6 DEF TurnOK
    <2> QED
        BY <2>6, <2>7
<1>2. ASSUME NEW k \in N, k < Len(ops) PROVE k + 1 \in N
    <2>0. k \in Nat /\ k + 1 \in 1 .. Len(ops) /\ k + 1 - 1 = k
        BY <1>0, <1>2
    <2>1. TurnOK(h, p, ops, k)
        BY <1>0, <1>2
    <2>2. h[k + 1] = Step(p, h[k], ops[k + 1])
        BY <2>0 DEF IsSemop
    <2>3. CASE h[k].end # "no"
        <3>1. h[k + 1] = h[k]
            BY <2>2, <2>3 DEF Step
        <3>2. h[k].done < k + 1 /\ h[k].done <= k + 1
            <4>1. h[k].done <= k /\ h[k].done \in Nat
                BY <2>1 DEF TurnOK, AccOK
            <4> QED
                BY <2>0, <4>1
        <3>3. TurnOK(h, p, ops, k + 1)
            BY <2>1, <2>3, <3>1, <3>2 DEF TurnOK
        <3> QED
            BY <2>0, <3>3
    <2>4. CASE h[k].end = "no"
        <3>0. h[k].done = k /\ AccOK(p, h[k])
            BY <2>1, <2>4 DEF TurnOK
        <3>1. /\ AccOK(p, h[k + 1])
              /\ DoneOp(p, h[k], ops[k + 1], h[k + 1]) \/ StopOp(p, h[k], ops[k + 1], h[k + 1])
              /\ Watched(S(p), h[k].m, h[k + 1].m, h[k + 1].wakes)
              /\ h[k].wakes \subseteq h[k + 1].wakes
            BY <1>0, <2>0, <2>2, <2>4, <3>0, StepIs
        <3>2. Watched(S(p), sema[S(p)], h[k + 1].m, h[k + 1].wakes)
            <4>1. h[k].m \in SetRec /\ h[k + 1].m \in SetRec
                BY <3>0, <3>1 DEF AccOK
            <4>2. Watched(S(p), sema[S(p)], h[k].m, h[k].wakes)
                BY <2>1 DEF TurnOK
            <4> QED
                BY <3>1, <4>1, <4>2, WatchedTwice
        <3>3. CASE DoneOp(p, h[k], ops[k + 1], h[k + 1])
            <4>1. h[k + 1].done = k + 1 /\ h[k + 1].end = "no"
                BY <3>0, <3>3 DEF DoneOp
            <4>2. ASSUME NEW j \in 1 .. (k + 1)
                  PROVE  AccOK(p, h[j - 1]) /\ DoneOp(p, h[j - 1], ops[j], h[j])
                <5>1. CASE j = k + 1
                    BY <2>0, <3>0, <3>3, <5>1
                <5>2. CASE j # k + 1
                    <6>1. j \in 1 .. h[k].done
                        BY <2>0, <3>0, <5>2
                    <6> QED
                        BY <2>1, <6>1 DEF TurnOK
                <5> QED
                    BY <5>1, <5>2
            <4>3. TurnOK(h, p, ops, k + 1)
                BY <2>0, <3>1, <3>2, <4>1, <4>2 DEF TurnOK
            <4> QED
                BY <2>0, <4>3
        <3>4. CASE StopOp(p, h[k], ops[k + 1], h[k + 1])
            <4>1. h[k + 1].done = k /\ h[k + 1].end # "no"
                BY <3>0, <3>4 DEF StopOp
            <4>2. \A j \in 1 .. k : AccOK(p, h[j - 1]) /\ DoneOp(p, h[j - 1], ops[j], h[j])
                BY <2>1, <3>0 DEF TurnOK
            <4>3. TurnOK(h, p, ops, k + 1)
                BY <2>0, <3>0, <3>1, <3>2, <3>4, <4>1, <4>2 DEF TurnOK
            <4> QED
                BY <2>0, <4>3
        <3> QED
            BY <3>1, <3>3, <3>4
    <2> QED
        BY <2>3, <2>4
<1>3. 0 .. Len(ops) \subseteq N
    <2> HIDE DEF N
    <2>1. \A i \in N : i \in Nat /\ i < Len(ops) => i + 1 \in N
        BY <1>2
    <2> QED
        BY <1>0, <1>1, <2>1, InductionTo
<1>4. ASSUME NEW i \in 0 .. Len(ops) PROVE TurnOK(h, p, ops, i)
    <2>1. i \in N /\ i <= Len(ops)
        BY <1>0, <1>3
    <2> QED
        BY <2>1
<1> QED
    BY <1>4

\* Undone takes back what DoneOp did
SameVals(m, new) == \A n \in Nums : m.val[n] = new.val[n]
SameCounts(m, new) == m.ncnt = new.ncnt /\ m.zcnt = new.zcnt

LEMMA UndoneOK ==
    ASSUME NEW p \in Procs, NEW a, AccOK(p, a), NEW b, AccOK(p, b), NEW o \in OpRec,
           DoneOp(p, a, o, b), NEW w, AccOK(p, w), SameVals(w.m, b.m), SameEnt(w.u, b.u),
           b.u.held => w.u.held
    PROVE  /\ AccOK(p, Undone(p, w, o)) /\ SameVals(Undone(p, w, o).m, a.m)
           /\ SameEnt(Undone(p, w, o).u, a.u) /\ (a.u.held => Undone(p, w, o).u.held)
           /\ SameCounts(Undone(p, w, o).m, w.m)
           /\ Undone(p, w, o).wakes = w.wakes /\ Undone(p, w, o).end = w.end
           /\ Undone(p, w, o).on = w.on /\ Undone(p, w, o).done = w.done
<1>0. o.num \in Nums /\ o.op \in Int /\ o.undo \in BOOLEAN
    BY DEF OpRec
<1>1. PICK v : v = w.m.val[o.num] - o.op
    OBVIOUS
<1>t. a.m \in SetRec /\ b.m \in SetRec /\ w.m \in SetRec
    BY DEF AccOK
<1>2. v = a.m.val[o.num] /\ v \in 0 .. SemVmx
    <2>1. w.m.val[o.num] = a.m.val[o.num] + o.op
        BY <1>0 DEF SameVals, DoneOp
    <2>2. a.m.val[o.num] \in 0 .. SemVmx
        BY <1>0, <1>t DEF SetRec
    <2> QED
        BY <1>0, <1>1, <2>1, <2>2, SemAssumption
<1>3. PICK val : val = [w.m.val EXCEPT ![o.num] = v]
    OBVIOUS
<1>4. val \in [Nums -> 0 .. SemVmx] /\ \A n \in Nums : val[n] = a.m.val[n]
    <2>1. w.m.val \in [Nums -> 0 .. SemVmx]
        BY <1>t DEF SetRec
    <2>2. \A n \in Nums : val[n] = IF n = o.num THEN v ELSE w.m.val[n]
        BY <1>3, <2>1
    <2>3. val \in [Nums -> 0 .. SemVmx]
        BY <1>2, <1>3, <2>1
    <2> QED
        BY <1>2, <2>2, <2>3 DEF SameVals, DoneOp
<1>5. PICK m : m = [w.m EXCEPT !.val[o.num] = v]
    OBVIOUS
<1>6. m = [alloc |-> w.m.alloc, seq |-> w.m.seq, val |-> val, ncnt |-> w.m.ncnt,
           zcnt |-> w.m.zcnt]
    BY <1>t, <1>3, <1>5 DEF SetRec
<1>7. m \in SetRec
    BY <1>t, <1>4, <1>6 DEF SetRec
<1>8. PICK u : u = Unadjusted(p, w.u, o)
    OBVIOUS
<1>9. /\ UndoOK(u) /\ SameEnt(u, a.u) /\ (a.u.held => u.held)
      /\ u.held => undo[p].held \/ FreeUndo
    <2>1. CASE o.undo /\ o.op # 0
        <3>1. PICK x : x = Semaoe(w.u, -o.op, Key(p, o), FreeUndo)
            OBVIOUS
        <3>2. b.u = Semaoe(a.u, o.op, Key(p, o), FreeUndo) /\ b.u # FAIL
            BY <2>1 DEF DoneOp
        <3>3. UndoOK(a.u) /\ UndoOK(w.u) /\ b.u.held /\ w.u.held
            BY <1>0, <2>1, <3>2, SemaoeOK, FreeBool DEF AccOK
        <3>4. x # FAIL /\ UndoOK(x) /\ x.held /\ SameEnt(x, a.u)
            BY <1>0, <2>1, <3>1, <3>2, <3>3, Restored, FreeBool
        <3>5. u = x
            BY <1>8, <2>1, <3>1, <3>4 DEF Unadjusted
        <3>6. undo[p].held \/ FreeUndo
            BY <3>3 DEF AccOK
        <3> QED
            BY <3>4, <3>5, <3>6
    <2>2. CASE ~(o.undo /\ o.op # 0)
        <3>1. u = w.u /\ b.u = a.u
            BY <1>0, <1>8, <2>2 DEF Unadjusted, DoneOp
        <3> QED
            BY <3>1 DEF AccOK
    <2> QED
        BY <2>1, <2>2
<1>10. Undone(p, w, o) = [m |-> m, u |-> u, wakes |-> w.wakes, done |-> w.done, end |-> w.end,
                          on |-> w.on]
    <2>1. w = [m |-> w.m, u |-> w.u, wakes |-> w.wakes, done |-> w.done, end |-> w.end,
               on |-> w.on]
        BY DEF AccOK
    <2>2. Undone(p, w, o) = [w EXCEPT !.m.val[o.num] = v, !.u = u]
        BY <1>1, <1>8 DEF Undone
    <2>3. PICK x : x = [w EXCEPT !.m.val[o.num] = v]
        OBVIOUS
    <2>4. x = [m |-> m, u |-> w.u, wakes |-> w.wakes, done |-> w.done, end |-> w.end,
               on |-> w.on]
        BY <1>5, <2>1, <2>3
    <2>5. Undone(p, w, o) = [x EXCEPT !.u = u]
        BY <2>2, <2>3
    <2> QED
        BY <2>4, <2>5
<1>11. PICK r : r = Undone(p, w, o)
    OBVIOUS
<1>12. /\ r.m = m /\ r.u = u /\ r.wakes = w.wakes /\ r.done = w.done /\ r.end = w.end
       /\ r.on = w.on
       /\ r = [m |-> r.m, u |-> r.u, wakes |-> r.wakes, done |-> r.done, end |-> r.end,
               on |-> r.on]
    BY <1>10, <1>11
<1>13. AccOK(p, r)
    BY <1>7, <1>9, <1>12 DEF AccOK
<1>14. SameVals(r.m, a.m) /\ SameCounts(r.m, w.m)
    BY <1>4, <1>6, <1>12 DEF SameVals, SameCounts
<1> QED
    BY <1>9, <1>11, <1>12, <1>13, <1>14

\* The first d operations are done, one after the other
DoneAll(p, ops, h, d) ==
    /\ AccOK(p, h[0]) /\ AccOK(p, h[d])
    /\ \A j \in 1 .. d : AccOK(p, h[j - 1]) /\ DoneOp(p, h[j - 1], ops[j], h[j])

\* semundo takes everything back
LEMMA SemundoOK ==
    ASSUME NEW p \in Procs, NEW ops \in Seq(OpRec), NEW h, NEW d \in 0 .. Len(ops),
           DoneAll(p, ops, h, d), NEW acc, AccOK(p, acc), acc.done = d, acc.m = h[d].m,
           acc.u.ent = h[d].u.ent, h[d].u.held => acc.u.held
    PROVE  /\ AccOK(p, Semundo(p, acc, ops)) /\ SameVals(Semundo(p, acc, ops).m, h[0].m)
           /\ SameEnt(Semundo(p, acc, ops).u, h[0].u)
           /\ SameCounts(Semundo(p, acc, ops).m, acc.m)
           /\ Semundo(p, acc, ops).wakes = acc.wakes /\ Semundo(p, acc, ops).end = acc.end
           /\ Semundo(p, acc, ops).on = acc.on
<1>0. Len(ops) \in Nat /\ d \in Nat /\ d <= Len(ops)
    OBVIOUS
<1>a. AccOK(p, h[d]) /\ \A j \in 1 .. d : AccOK(p, h[j - 1]) /\ DoneOp(p, h[j - 1], ops[j], h[j])
    BY DEF DoneAll
<1>1. PICK done : done = SubSeq(ops, 1, d)
    OBVIOUS
<1>2. done \in Seq(OpRec) /\ Len(done) = d /\ \A j \in 1 .. d : done[j] = ops[j]
    BY <1>0, <1>1
<1>3. Semundo(p, acc, ops) = Back(p, acc, done)
    BY <1>1 DEF Semundo, Back
<1>4. PICK r : IsSemundo(r, p, acc, done) /\ Back(p, acc, done) = r[0]
    BY <1>2, BackTurns
<1>5. r[d] = acc /\ \A j \in 1 .. d : r[j - 1] = Undone(p, r[j], ops[j]) /\ ops[j] \in OpRec
    BY <1>0, <1>2, <1>4 DEF IsSemundo
<1> DEFINE Ok(x, a) ==
               /\ AccOK(p, x) /\ AccOK(p, a) /\ SameVals(x.m, a.m) /\ SameEnt(x.u, a.u)
               /\ a.u.held => x.u.held
               /\ SameCounts(x.m, acc.m) /\ x.wakes = acc.wakes /\ x.end = acc.end
               /\ x.on = acc.on
           N == {i \in Nat : i <= d => Ok(r[d - i], h[d - i])}
<1>6. 0 \in N
    <2>1. Ok(acc, h[d])
        BY <1>a DEF SameVals, SameEnt, SameCounts
    <2>2. d - 0 = d
        BY <1>0
    <2> QED
        BY <1>5, <2>1, <2>2
<1>7. ASSUME NEW k \in N, k < d PROVE k + 1 \in N
    <2>1. PICK j \in 1 .. d : j = d - k
        BY <1>0, <1>7
    <2>2. j - 1 = d - (k + 1) /\ k <= d /\ k + 1 \in Nat
        BY <1>0, <1>7, <2>1
    <2>3. Ok(r[j], h[j])
        BY <1>7, <2>1, <2>2
    <2>4. AccOK(p, h[j - 1]) /\ DoneOp(p, h[j - 1], ops[j], h[j]) /\ ops[j] \in OpRec
          /\ r[j - 1] = Undone(p, r[j], ops[j])
        BY <1>a, <1>5
    <2>5. PICK x : x = Undone(p, r[j], ops[j])
        OBVIOUS
    <2>6. /\ AccOK(p, x) /\ SameVals(x.m, h[j - 1].m)
          /\ SameEnt(x.u, h[j - 1].u) /\ (h[j - 1].u.held => x.u.held)
          /\ SameCounts(x.m, r[j].m)
          /\ x.wakes = r[j].wakes /\ x.end = r[j].end
          /\ x.on = r[j].on
        <3>1. PICK a, b, w, o : a = h[j - 1] /\ b = h[j] /\ w = r[j] /\ o = ops[j]
            OBVIOUS
        <3>2. /\ AccOK(p, a) /\ AccOK(p, b) /\ o \in OpRec /\ DoneOp(p, a, o, b) /\ AccOK(p, w)
              /\ SameVals(w.m, b.m) /\ SameEnt(w.u, b.u) /\ (b.u.held => w.u.held)
            BY <2>3, <2>4, <3>1
        <3>3. /\ AccOK(p, Undone(p, w, o)) /\ SameVals(Undone(p, w, o).m, a.m)
              /\ SameEnt(Undone(p, w, o).u, a.u) /\ (a.u.held => Undone(p, w, o).u.held)
              /\ SameCounts(Undone(p, w, o).m, w.m)
              /\ Undone(p, w, o).wakes = w.wakes /\ Undone(p, w, o).end = w.end
              /\ Undone(p, w, o).on = w.on
            BY <3>2, UndoneOK
        <3> QED
            BY <2>5, <3>1, <3>3
    <2>7. Ok(x, h[j - 1])
        BY <2>3, <2>4, <2>6 DEF SameCounts
    <2> HIDE DEF Ok
    <2> QED
        BY <2>2, <2>4, <2>5, <2>7
<1>8. Ok(r[0], h[0])
    <2> HIDE DEF N
    <2>1. \A i \in N : i \in Nat /\ i < d => i + 1 \in N
        BY <1>7
    <2>2. 0 .. d \subseteq N
        BY <1>0, <1>6, <2>1, InductionTo
    <2>3. d \in N /\ d - d = 0
        BY <1>0, <2>2
    <2> QED
        BY <2>3 DEF N
<1> QED
    BY <1>3, <1>4, <1>8

\* An entry changes the adjustment of its semaphore only
LEMMA SetEntryAoe ==
    ASSUME NEW u, NEW k, NEW new, NEW e
    PROVE  Aoe(SetEntry(u, k, new), e) = IF e = k THEN new ELSE Aoe(u, e)
<1>1. PICK w : w = SetEntry(u, k, new)
    OBVIOUS
<1>2. /\ DOMAIN w.ent = IF new = 0 THEN DOMAIN u.ent \ {k} ELSE DOMAIN u.ent \cup {k}
      /\ \A x \in DOMAIN w.ent : w.ent[x] = IF x = k THEN new ELSE u.ent[x]
    BY <1>1 DEF SetEntry
<1>3. CASE e \in DOMAIN w.ent
    BY <1>1, <1>2, <1>3 DEF Aoe
<1>4. CASE e \notin DOMAIN w.ent
    BY <1>1, <1>2, <1>4 DEF Aoe
<1> QED
    BY <1>3, <1>4

\* What the operations that are done add to the values and take from the entries
LEMMA SumsOK ==
    ASSUME NEW p \in Procs, NEW ops \in Seq(OpRec), NEW h,
           DoneAll(p, ops, h, Len(ops)), NEW n \in Nums
    PROVE  /\ Sum(ops, n, FALSE) \in Int /\ Sum(ops, n, TRUE) \in Int
           /\ h[Len(ops)].m.val[n] = h[0].m.val[n] + Sum(ops, n, FALSE)
           /\ Aoe(h[Len(ops)].u, Key(p, [num |-> n])) =
                 Aoe(h[0].u, Key(p, [num |-> n])) - Sum(ops, n, TRUE)
<1>e. PICK e : e = Key(p, [num |-> n])
    OBVIOUS
<1>a. /\ AccOK(p, h[0])
      /\ \A j \in 1 .. Len(ops) : AccOK(p, h[j - 1]) /\ DoneOp(p, h[j - 1], ops[j], h[j])
    BY DEF DoneAll
<1>0. Len(ops) \in Nat /\ \A j \in 1 .. Len(ops) : ops[j] \in OpRec
    OBVIOUS
<1>1. PICK f : IsSum(f, n, FALSE, ops) /\ Sum(ops, n, FALSE) = f[Len(ops)]
    BY SumTurns
<1>2. PICK g : IsSum(g, n, TRUE, ops) /\ Sum(ops, n, TRUE) = g[Len(ops)]
    BY SumTurns
<1> DEFINE Ok(i) == /\ f[i] \in Int /\ g[i] \in Int
                    /\ h[i].m.val[n] = h[0].m.val[n] + f[i]
                    /\ Aoe(h[i].u, e) = Aoe(h[0].u, e) - g[i]
           N == {i \in Nat : i <= Len(ops) => Ok(i)}
<1>3. h[0].m.val[n] \in Int /\ Aoe(h[0].u, e) \in Int
    <2>1. h[0].m.val[n] \in 0 .. SemVmx
        BY <1>a DEF AccOK, SetRec
    <2>2. Aoe(h[0].u, e) \in Int
        BY <1>a, AoeOK DEF AccOK
    <2> QED
        BY <2>1, <2>2
<1>4. 0 \in N
    <2>1. f[0] = 0 /\ g[0] = 0
        BY <1>1, <1>2 DEF IsSum
    <2> QED
        BY <1>3, <2>1
<1>5. ASSUME NEW k \in N, k < Len(ops) PROVE k + 1 \in N
    <2>1. PICK j \in 1 .. Len(ops) : j = k + 1 /\ j - 1 = k /\ j \in Nat
        BY <1>0, <1>5
    <2>2. Ok(k)
        BY <1>0, <1>5
    <2>3. PICK o \in OpRec : o = ops[j]
        BY <1>0
    <2>o. o.num \in Nums /\ o.op \in Int /\ o.undo \in BOOLEAN
        BY DEF OpRec
    <2>4. AccOK(p, h[k]) /\ DoneOp(p, h[k], o, h[j])
        BY <1>a, <2>1, <2>3
    <2>5. /\ f[j] = IF o.num = n THEN f[k] + o.op ELSE f[k]
          /\ g[j] = IF o.num = n /\ o.undo THEN g[k] + o.op ELSE g[k]
        BY <1>1, <1>2, <2>1, <2>3 DEF IsSum
    <2>6. f[j] \in Int /\ g[j] \in Int
        BY <2>2, <2>5, <2>o
    <2>7. h[j].m.val[n] = h[0].m.val[n] + f[j]
        <3>1. h[j].m.val[n] = IF n = o.num THEN h[k].m.val[n] + o.op ELSE h[k].m.val[n]
            BY <2>4 DEF DoneOp
        <3> QED
            BY <1>3, <2>2, <2>5, <2>o, <3>1
    <2>8. Aoe(h[j].u, e) = IF o.num = n /\ o.undo THEN Aoe(h[k].u, e) - o.op ELSE Aoe(h[k].u, e)
        <3>1. Aoe(h[k].u, e) \in Int /\ UndoOK(h[k].u)
            BY <2>4, AoeOK DEF AccOK
        <3>2. CASE o.undo /\ o.op # 0
            <4>1. PICK x : x = Key(p, o)
                OBVIOUS
            <4>2. h[j].u = SetEntry(h[k].u, x, Aoe(h[k].u, x) - o.op)
                BY <2>4, <2>o, <3>1, <3>2, <4>1, SemaoeOK, FreeBool DEF DoneOp
            <4>3. x = e <=> o.num = n
                BY <1>e, <4>1 DEF Key
            <4>4. CASE x = e
                <5>1. Aoe(h[j].u, e) = Aoe(h[k].u, e) - o.op
                    BY <4>2, <4>4, SetEntryAoe
                <5> QED
                    BY <3>2, <4>3, <4>4, <5>1
            <4>5. CASE x # e
                <5>1. Aoe(h[j].u, e) = Aoe(h[k].u, e)
                    BY <4>2, <4>5, SetEntryAoe
                <5> QED
                    BY <4>3, <4>5, <5>1
            <4> QED
                BY <4>4, <4>5
        <3>3. CASE ~(o.undo /\ o.op # 0)
            <4>1. h[j].u = h[k].u
                BY <2>4, <3>3 DEF DoneOp
            <4> QED
                BY <2>o, <3>1, <3>3, <4>1
        <3> QED
            BY <3>2, <3>3
    <2>9. Aoe(h[j].u, e) = Aoe(h[0].u, e) - g[j]
        BY <1>3, <2>2, <2>5, <2>8, <2>o
    <2>10. Ok(j)
        BY <2>6, <2>7, <2>9
    <2> HIDE DEF Ok
    <2> QED
        BY <2>1, <2>10
<1>6. Ok(Len(ops))
    <2> HIDE DEF N
    <2>1. \A i \in N : i \in Nat /\ i < Len(ops) => i + 1 \in N
        BY <1>5
    <2>2. 0 .. Len(ops) \subseteq N
        BY <1>0, <1>4, <2>1, InductionTo
    <2>3. Len(ops) \in N
        BY <1>0, <2>2
    <2> QED
        BY <2>3, <1>0 DEF N
<1> QED
    BY <1>1, <1>2, <1>6, <1>e

\* Operations that add nothing leave no more
LEMMA NoMore ==
    ASSUME NEW p \in Procs, NEW ops \in Seq(OpRec), NEW h, NEW d \in 0 .. Len(ops),
           DoneAll(p, ops, h, d), NEW n \in Nums,
           \A j \in 1 .. d : ~(ops[j].num = n /\ ops[j].op > 0)
    PROVE  h[d].m.val[n] <= h[0].m.val[n]
<1>0. d \in Nat /\ \A j \in 1 .. d : ops[j] \in OpRec
    OBVIOUS
<1> DEFINE Ok(i) == h[i].m.val[n] \in Int /\ h[i].m.val[n] <= h[0].m.val[n]
           N == {i \in Nat : i <= d => Ok(i)}
<1>1. 0 \in N
    <2>1. h[0].m.val[n] \in 0 .. SemVmx
        BY DEF DoneAll, AccOK, SetRec
    <2> QED
        BY <2>1
<1>2. ASSUME NEW k \in N, k < d PROVE k + 1 \in N
    <2>1. PICK j \in 1 .. d : j = k + 1 /\ j - 1 = k
        BY <1>0, <1>2
    <2>2. Ok(k) /\ k + 1 \in Nat
        BY <1>0, <1>2
    <2>3. h[j].m.val[n] = IF n = ops[j].num THEN h[k].m.val[n] + ops[j].op ELSE h[k].m.val[n]
        <3>1. DoneOp(p, h[k], ops[j], h[j])
            BY <2>1 DEF DoneAll
        <3> QED
            BY <3>1 DEF DoneOp
    <2>4. ops[j].op \in Int /\ (n = ops[j].num => ops[j].op <= 0)
        BY <1>0 DEF OpRec
    <2>5. h[0].m.val[n] \in Int
        <3>1. h[0].m.val[n] \in 0 .. SemVmx
            BY DEF DoneAll, AccOK, SetRec
        <3> QED
            BY <3>1
    <2>6. Ok(j)
        BY <2>2, <2>3, <2>4, <2>5
    <2> HIDE DEF Ok
    <2> QED
        BY <2>1, <2>2, <2>6
<1>3. d \in N
    <2> HIDE DEF N
    <2>1. \A i \in N : i \in Nat /\ i < d => i + 1 \in N
        BY <1>2
    <2>2. 0 .. d \subseteq N
        BY <1>0, <1>1, <2>1, InductionTo
    <2> QED
        BY <1>0, <2>2
<1> QED
    BY <1>0, <1>3

\* What the loop comes to: all of the operations or none, and the one it stopped at
LEMMA LoopIs ==
    ASSUME NEW p \in Procs, sema[S(p)] \in SetRec, UndoOK(undo[p]), NEW ops \in Seq(OpRec),
           NEW acc, acc = Loop(p, ops)
    PROVE  /\ AccOK(p, acc) /\ Watched(S(p), sema[S(p)], acc.m, acc.wakes)
           /\ acc.end = "no" =>
                 \A n \in Nums :
                    /\ Sum(ops, n, FALSE) \in Int /\ Sum(ops, n, TRUE) \in Int
                    /\ acc.m.val[n] = sema[S(p)].val[n] + Sum(ops, n, FALSE)
                    /\ Aoe(acc.u, Key(p, [num |-> n])) =
                          Aoe(undo[p], Key(p, [num |-> n])) - Sum(ops, n, TRUE)
           /\ acc.end # "no" => SameVals(acc.m, sema[S(p)]) /\ SameEnt(acc.u, undo[p])
           /\ acc.end = "semncnt" =>
                 \E i \in DOMAIN ops :
                    /\ ops[i].num = acc.on /\ ops[i].op < 0
                    /\ sema[S(p)].val[acc.on] + Sum(SubSeq(ops, 1, i - 1), acc.on, FALSE)
                          < -ops[i].op
           /\ acc.end = "semzcnt" =>
                 \E i \in DOMAIN ops :
                    /\ ops[i].num = acc.on /\ ops[i].op = 0
                    /\ \/ sema[S(p)].val[acc.on] # 0
                       \/ \E k \in 1 .. i - 1 : ops[k].num = acc.on /\ ops[k].op > 0
<1>0. Len(ops) \in Nat /\ DOMAIN ops = 1 .. Len(ops) /\ \A i \in 1 .. Len(ops) : ops[i] \in OpRec
    OBVIOUS
<1>1. PICK h : IsSemop(h, p, Start(p), ops) /\ Ran(p, Start(p), ops) = h[Len(ops)]
    BY RanTurns
<1>2. PICK a : a = h[Len(ops)]
    OBVIOUS
<1>3. TurnOK(h, p, ops, Len(ops))
    BY <1>0, <1>1, TurnsOK
<1>4. acc = IF a.end = "no" THEN a ELSE Semundo(p, a, ops)
    <2>1. Loop(p, ops) = IF Ran(p, Start(p), ops).end = "no" THEN Ran(p, Start(p), ops)
                         ELSE Semundo(p, Ran(p, Start(p), ops), ops)
        BY DEF Loop, Ran, Start
    <2> QED
        BY <1>1, <1>2, <2>1
<1>5. h[0].m = sema[S(p)] /\ h[0].u = undo[p]
    BY <1>1 DEF IsSemop, Start
<1>6. PICK d : d = a.done
    OBVIOUS
<1>7. /\ AccOK(p, a) /\ Watched(S(p), sema[S(p)], a.m, a.wakes)
      /\ d <= Len(ops) /\ d \in Nat /\ d \in 0 .. Len(ops) /\ (a.end = "no" => d = Len(ops))
      /\ a.end # "no" => d < Len(ops) /\ StopOp(p, h[d], ops[d + 1], a)
      /\ \A j \in 1 .. d : AccOK(p, h[j - 1]) /\ DoneOp(p, h[j - 1], ops[j], h[j])
      /\ AccOK(p, h[d])
    <2>1. d \in Nat
        BY <1>2, <1>3, <1>6 DEF TurnOK, AccOK
    <2> QED
        BY <1>0, <1>2, <1>3, <1>6, <2>1 DEF TurnOK
<1>8. AccOK(p, h[0])
    <2>1. CASE d = 0
        BY <1>7, <2>1
    <2>2. CASE d # 0
        <3>1. 1 \in 1 .. d /\ 1 - 1 = 0
            BY <1>7, <2>2
        <3> QED
            BY <1>7, <3>1
    <2> QED
        BY <2>1, <2>2
<1>d. DoneAll(p, ops, h, d)
    BY <1>7, <1>8 DEF DoneAll
<1>9. CASE a.end = "no"
    <2>1. acc = a
        BY <1>4, <1>9
    <2>2. \A n \in Nums :
              /\ Sum(ops, n, FALSE) \in Int /\ Sum(ops, n, TRUE) \in Int
              /\ acc.m.val[n] = sema[S(p)].val[n] + Sum(ops, n, FALSE)
              /\ Aoe(acc.u, Key(p, [num |-> n])) =
                    Aoe(undo[p], Key(p, [num |-> n])) - Sum(ops, n, TRUE)
        <3>1. DoneAll(p, ops, h, Len(ops)) /\ acc = h[Len(ops)]
            BY <1>2, <1>7, <1>9, <1>d, <2>1
        <3>2. ASSUME NEW n \in Nums
              PROVE  /\ Sum(ops, n, FALSE) \in Int /\ Sum(ops, n, TRUE) \in Int
                     /\ acc.m.val[n] = sema[S(p)].val[n] + Sum(ops, n, FALSE)
                     /\ Aoe(acc.u, Key(p, [num |-> n])) =
                           Aoe(undo[p], Key(p, [num |-> n])) - Sum(ops, n, TRUE)
            <4>1. /\ Sum(ops, n, FALSE) \in Int /\ Sum(ops, n, TRUE) \in Int
                  /\ h[Len(ops)].m.val[n] = h[0].m.val[n] + Sum(ops, n, FALSE)
                  /\ Aoe(h[Len(ops)].u, Key(p, [num |-> n])) =
                        Aoe(h[0].u, Key(p, [num |-> n])) - Sum(ops, n, TRUE)
                BY <3>1, SumsOK
            <4> QED
                BY <1>5, <3>1, <4>1
        <3> QED
            BY <3>2
    <2> QED
        BY <1>7, <1>9, <2>1, <2>2
<1>10. CASE a.end # "no"
    <2>1. acc = Semundo(p, a, ops)
        BY <1>4, <1>10
    <2>2. d < Len(ops) /\ StopOp(p, h[d], ops[d + 1], a) /\ d + 1 \in 1 .. Len(ops)
        <3>1. d < Len(ops) /\ StopOp(p, h[d], ops[d + 1], a)
            BY <1>7, <1>10
        <3>2. d \in Nat
            BY <1>7
        <3> QED
            BY <1>0, <3>1, <3>2
    <2>3. a.m = h[d].m /\ a.u.ent = h[d].u.ent /\ (h[d].u.held => a.u.held)
        BY <2>2 DEF StopOp
    <2>4. /\ AccOK(p, acc) /\ SameVals(acc.m, h[0].m) /\ SameEnt(acc.u, h[0].u)
          /\ SameCounts(acc.m, a.m)
          /\ acc.wakes = a.wakes /\ acc.end = a.end /\ acc.on = a.on
        BY <1>6, <1>7, <1>d, <2>1, <2>3, SemundoOK
    <2>5. Watched(S(p), sema[S(p)], acc.m, acc.wakes)
        BY <1>5, <1>7, <2>4 DEF Watched, SameVals, SameCounts, SetRec
    <2>6. ASSUME acc.end = "semncnt"
          PROVE  \E i \in DOMAIN ops :
                    /\ ops[i].num = acc.on /\ ops[i].op < 0
                    /\ sema[S(p)].val[acc.on] + Sum(SubSeq(ops, 1, i - 1), acc.on, FALSE)
                          < -ops[i].op
        <3>p. PICK i : i = d + 1
            OBVIOUS
        <3>q. i \in 1 .. Len(ops) /\ i - 1 = d
            <4>1. d \in Nat
                BY <1>7
            <4> QED
                BY <2>2, <3>p, <4>1
        <3>1. i \in DOMAIN ops /\ i = d + 1 /\ i - 1 = d
            BY <1>0, <3>p, <3>q, Zenon
        <3>2. acc.on = ops[i].num /\ ops[i].op < 0 /\ h[d].m.val[ops[i].num] < -ops[i].op
            BY <2>2, <2>4, <2>6, <3>1 DEF StopOp
        <3>3. PICK n \in Nums : n = ops[i].num
            BY <1>0, <3>q DEF OpRec
        <3>4. PICK some : some = SubSeq(ops, 1, d)
            OBVIOUS
        <3>5. some \in Seq(OpRec) /\ Len(some) = d /\ \A j \in 1 .. d : some[j] = ops[j]
            BY <1>7, <3>4
        <3>6. h[d].m.val[n] = h[0].m.val[n] + Sum(some, n, FALSE)
            <4>1. DoneAll(p, some, h, Len(some))
                BY <1>d, <3>5 DEF DoneAll
            <4> QED
                BY <3>5, <4>1, SumsOK
        <3> QED
            BY <1>5, <3>1, <3>2, <3>3, <3>4, <3>6
    <2>7. ASSUME acc.end = "semzcnt"
          PROVE  \E i \in DOMAIN ops :
                    /\ ops[i].num = acc.on /\ ops[i].op = 0
                    /\ \/ sema[S(p)].val[acc.on] # 0
                       \/ \E k \in 1 .. i - 1 : ops[k].num = acc.on /\ ops[k].op > 0
        <3>p. PICK i : i = d + 1
            OBVIOUS
        <3>q. i \in 1 .. Len(ops) /\ i - 1 = d
            <4>1. d \in Nat
                BY <1>7
            <4> QED
                BY <2>2, <3>p, <4>1
        <3>1. i \in DOMAIN ops /\ i = d + 1 /\ i - 1 = d
            BY <1>0, <3>p, <3>q, Zenon
        <3>2. acc.on = ops[i].num /\ ops[i].op = 0 /\ h[d].m.val[ops[i].num] # 0
            BY <2>2, <2>4, <2>7, <3>1 DEF StopOp
        <3>3. PICK n \in Nums : n = ops[i].num
            BY <1>0, <3>q DEF OpRec
        <3>4. ASSUME \A k \in 1 .. d : ~(ops[k].num = n /\ ops[k].op > 0)
              PROVE  sema[S(p)].val[n] # 0
            <4>1. h[d].m.val[n] <= h[0].m.val[n]
                BY <1>7, <1>d, <3>4, NoMore
            <4>2. h[d].m.val[n] \in Nat /\ h[d].m.val[n] # 0
                BY <1>7, <3>2, <3>3 DEF AccOK, SetRec
            <4> QED
                BY <1>5, <4>1, <4>2
        <3> QED
            BY <3>1, <3>2, <3>3, <3>4
    <2> QED
        BY <1>5, <1>10, <2>4, <2>5, <2>6, <2>7
<1> QED
    BY <1>9, <1>10

-------------------------------------------------------------------------------
(* The invariant of the semaphores                                        *)

SemAts == {"idle", "copy", "recopy", "semncnt", "semzcnt"}
SemAsleep == {"semncnt", "semzcnt"}

IsSemCall(c, now) ==
    /\ c.set \in Sets /\ "on" \in DOMAIN c
    /\ c.op = "semop" => c.ops \in OpLists
    /\ c.op = "setall" => c.values \in Vectors
    /\ now \in {"recopy", "semncnt", "semzcnt"} => c.op = "semop"
    /\ now \in SemAsleep => c.on \in Nums

\* What SemopWaits says of p
SemWaits(p) ==
    LET m == sema[S(p)]
        n == semcall[p].on
        ops == semcall[p].ops
    IN  /\ semat[p] = "semncnt" /\ ~Awake(p) =>
              /\ m.ncnt[n] > 0
              /\ \E i \in DOMAIN ops :
                    /\ ops[i].num = n /\ ops[i].op < 0
                    /\ m.val[n] + Sum(SubSeq(ops, 1, i - 1), n, FALSE) < -ops[i].op
        /\ semat[p] = "semzcnt" /\ ~Awake(p) =>
              /\ m.zcnt[n] > 0
              /\ \E i \in DOMAIN ops :
                    /\ ops[i].num = n /\ ops[i].op = 0
                    /\ \/ m.val[n] # 0
                       \/ \E k \in 1 .. i - 1 : ops[k].num = n /\ ops[k].op > 0

\* A process in a call: its arguments, its channel when it sleeps, and what it waits for
ProcOK(p) ==
    /\ semat[p] \in SemAts
    /\ semat[p] # "idle" => IsSemCall(semcall[p], semat[p])
    /\ semat[p] \in SemAsleep /\ ~Awake(p) => wchan[p] = <<semat[p], S(p), semcall[p].on>>
    /\ SemWaits(p)

Holders == {p \in Procs : undo[p].held}
UndoTypes ==
    /\ DOMAIN undo = Procs /\ \A p \in Procs : UndoOK(undo[p])
    /\ IsFiniteSet(Holders) /\ Cardinality(Holders) <= SemMnu

\* What makes SemTypeOK and SemopWaits inductive
SemInv ==
    /\ sema \in [Sets -> SetRec] /\ UndoTypes
    /\ semat \in [Procs -> SemAts] /\ DOMAIN semcall = Procs /\ DOMAIN wchan = Procs
    /\ \A p \in Procs : ProcOK(p)

\* A sum of operations is an integer
LEMMA SumInt ==
    ASSUME NEW ops \in Seq(OpRec), NEW n, NEW b \in BOOLEAN PROVE Sum(ops, n, b) \in Int
<1>0. Len(ops) \in Nat /\ \A i \in 1 .. Len(ops) : ops[i].op \in Int
    <2>1. Len(ops) \in Nat /\ \A i \in 1 .. Len(ops) : ops[i] \in OpRec
        OBVIOUS
    <2> QED
        BY <2>1 DEF OpRec
<1>1. PICK f : IsSum(f, n, b, ops) /\ Sum(ops, n, b) = f[Len(ops)]
    BY SumTurns
<1> DEFINE N == {i \in Nat : i <= Len(ops) => f[i] \in Int}
<1>2. 0 \in N
    BY <1>1 DEF IsSum
<1>3. ASSUME NEW k \in N, k < Len(ops) PROVE k + 1 \in N
    <2>1. PICK j \in 1 .. Len(ops) : j = k + 1
        BY <1>0, <1>3
    <2>2. f[k] \in Int /\ j - 1 = k /\ k + 1 \in Nat
        BY <1>0, <1>3, <2>1
    <2>3. f[j] = f[k] + ops[j].op \/ f[j] = f[k]
        BY <1>1, <2>2 DEF IsSum
    <2> QED
        BY <1>0, <2>1, <2>2, <2>3
<1>4. Len(ops) \in N
    <2> HIDE DEF N
    <2>1. \A i \in N : i \in Nat /\ i < Len(ops) => i + 1 \in N
        BY <1>3
    <2>2. 0 .. Len(ops) \subseteq N
        BY <1>0, <1>2, <2>1, InductionTo
    <2> QED
        BY <1>0, <2>2
<1>5. Len(ops) <= Len(ops)
    BY <1>0
<1> QED
    BY <1>1, <1>4, <1>5

\* Nothing happens to q but that C is woken up
Same(q, C) ==
    semat'[q] = semat[q] /\ semcall'[q] = semcall[q] /\ wchan'[q] = Woken(C)[q]

\* A process that does nothing goes on waiting, or is woken up
LEMMA ProcKept ==
    ASSUME NEW C, sema \in [Sets -> SetRec], sema' \in [Sets -> SetRec],
           \A s \in Sets : Watched(s, sema[s], sema'[s], C),
           NEW q \in Procs, ProcOK(q), Same(q, C)
    PROVE  ProcOK(q)'
<1>1. PICK s, n, ops : s = S(q) /\ n = semcall[q].on /\ ops = semcall[q].ops
    OBVIOUS
<1>2. S(q)' = s /\ semcall'[q].on = n /\ semcall'[q].ops = ops /\ semat'[q] = semat[q]
    BY <1>1 DEF Same, S
<1>3. wchan'[q] = IF wchan[q] \in C THEN NoChan ELSE wchan[q]
    BY DEF Same, Woken
<1>4. ASSUME ~Awake(q)' PROVE wchan'[q] = wchan[q] /\ wchan[q] \notin C /\ ~Awake(q)
    BY <1>3, <1>4 DEF Awake
<1>5. ASSUME semat[q] \in SemAsleep, ~Awake(q)'
      PROVE  /\ s \in Sets /\ n \in Nums /\ ops \in Seq(OpRec)
             /\ <<semat[q], s, n>> \notin C /\ ~Awake(q)
             /\ sema[s] \in SetRec /\ sema'[s] \in SetRec /\ Watched(s, sema[s], sema'[s], C)
    <2>1. IsSemCall(semcall[q], semat[q]) /\ wchan[q] = <<semat[q], s, n>>
        BY <1>1, <1>4, <1>5 DEF ProcOK, SemAsleep
    <2>2. s \in Sets /\ n \in Nums /\ semcall[q].ops \in OpLists
        BY <1>1, <1>5, <2>1 DEF IsSemCall, SemAsleep, S
    <2>3. ops \in Seq(OpRec)
        BY <1>1, <2>2, SemAssumption DEF OpRec
    <2> QED
        BY <1>4, <1>5, <2>1, <2>2, <2>3
<1>6. ASSUME semat[q] = "semncnt", ~Awake(q)'
      PROVE  /\ sema'[s].ncnt[n] > 0
             /\ \E i \in DOMAIN ops :
                   /\ ops[i].num = n /\ ops[i].op < 0
                   /\ sema'[s].val[n] + Sum(SubSeq(ops, 1, i - 1), n, FALSE) < -ops[i].op
    <2>1. semat[q] \in SemAsleep
        BY <1>6 DEF SemAsleep
    <2>2. Ncnt(s, n) \notin C
        BY <1>5, <1>6, <2>1 DEF Ncnt
    <2>3. /\ sema[s].ncnt[n] > 0
          /\ \E i \in DOMAIN ops :
                /\ ops[i].num = n /\ ops[i].op < 0
                /\ sema[s].val[n] + Sum(SubSeq(ops, 1, i - 1), n, FALSE) < -ops[i].op
        BY <1>1, <1>5, <1>6, <2>1 DEF ProcOK, SemWaits
    <2>4. sema'[s].ncnt[n] > 0 /\ sema'[s].val[n] <= sema[s].val[n]
        BY <1>5, <1>6, <2>1, <2>2, <2>3 DEF Watched
    <2>5. PICK i \in DOMAIN ops :
                /\ ops[i].num = n /\ ops[i].op < 0
                /\ sema[s].val[n] + Sum(SubSeq(ops, 1, i - 1), n, FALSE) < -ops[i].op
        BY <2>3
    <2>6. ops \in Seq(OpRec) /\ sema[s].val[n] \in Int /\ sema'[s].val[n] \in Int
        <3>1. n \in Nums /\ sema[s] \in SetRec /\ sema'[s] \in SetRec /\ ops \in Seq(OpRec)
            BY <1>5, <1>6, <2>1
        <3>2. sema[s].val[n] \in 0 .. SemVmx /\ sema'[s].val[n] \in 0 .. SemVmx
            BY <3>1 DEF SetRec
        <3> QED
            BY <3>1, <3>2
    <2>7. ops[i].op \in Int
        <3>1. ops[i] \in OpRec
            BY <2>6
        <3> QED
            BY <3>1 DEF OpRec
    <2>8. PICK k : k = Sum(SubSeq(ops, 1, i - 1), n, FALSE)
        OBVIOUS
    <2>9. k \in Int
        <3>1. SubSeq(ops, 1, i - 1) \in Seq(OpRec)
            BY <2>6
        <3> QED
            BY <2>8, <3>1, SumInt
    <2>10. sema'[s].val[n] + k < -ops[i].op
        <3>1. PICK x, y, z : x = sema[s].val[n] /\ y = sema'[s].val[n] /\ z = ops[i].op
            OBVIOUS
        <3>2. x \in Int /\ y \in Int /\ z \in Int /\ y <= x /\ x + k < -z
            BY <2>4, <2>5, <2>6, <2>7, <2>8, <3>1
        <3> QED
            BY <2>9, <3>1, <3>2
    <2> QED
        BY <2>4, <2>5, <2>8, <2>10
<1>7. ASSUME semat[q] = "semzcnt", ~Awake(q)'
      PROVE  /\ sema'[s].zcnt[n] > 0
             /\ \E i \in DOMAIN ops :
                   /\ ops[i].num = n /\ ops[i].op = 0
                   /\ \/ sema'[s].val[n] # 0
                      \/ \E k \in 1 .. i - 1 : ops[k].num = n /\ ops[k].op > 0
    <2>1. semat[q] \in SemAsleep
        BY <1>7 DEF SemAsleep
    <2>2. Zcnt(s, n) \notin C
        BY <1>5, <1>7, <2>1 DEF Zcnt
    <2>3. /\ sema[s].zcnt[n] > 0
          /\ \E i \in DOMAIN ops :
                /\ ops[i].num = n /\ ops[i].op = 0
                /\ \/ sema[s].val[n] # 0
                   \/ \E k \in 1 .. i - 1 : ops[k].num = n /\ ops[k].op > 0
        BY <1>1, <1>5, <1>7, <2>1 DEF ProcOK, SemWaits
    <2>4. sema'[s].zcnt[n] > 0 /\ (sema[s].val[n] # 0 => sema'[s].val[n] # 0)
        BY <1>5, <1>7, <2>1, <2>2, <2>3 DEF Watched
    <2> QED
        BY <2>3, <2>4
<1>8. SemWaits(q)'
    BY <1>1, <1>2, <1>6, <1>7 DEF SemWaits
<1>9. semat'[q] \in SemAsleep /\ ~Awake(q)' => wchan'[q] = <<semat'[q], S(q)', semcall'[q].on>>
    BY <1>1, <1>2, <1>4 DEF ProcOK
<1>10. semat'[q] \in SemAts /\ (semat'[q] # "idle" => IsSemCall(semcall'[q], semat'[q]))
    BY DEF ProcOK, Same, IsSemCall
<1> QED
    BY <1>8, <1>9, <1>10 DEF ProcOK

\* A step of the processes P: all others go on waiting, or are woken up
Moved(P, C) ==
    /\ sema' \in [Sets -> SetRec] /\ UndoTypes'
    /\ \A s \in Sets : Watched(s, sema[s], sema'[s], C)
    /\ semat' \in [Procs -> SemAts] /\ DOMAIN semcall' = Procs /\ DOMAIN wchan' = Procs
    /\ \A q \in Procs \ P : Same(q, C)
    /\ \A q \in P : ProcOK(q)'

LEMMA InvKept == ASSUME SemInv, NEW P, NEW C, Moved(P, C) PROVE SemInv'
<1>1. ASSUME NEW q \in Procs PROVE ProcOK(q)'
    <2>1. CASE q \in P
        BY <2>1 DEF Moved
    <2>2. CASE q \notin P
        <3>1. /\ ProcOK(q) /\ Same(q, C) /\ sema \in [Sets -> SetRec]
              /\ sema' \in [Sets -> SetRec] /\ \A s \in Sets : Watched(s, sema[s], sema'[s], C)
            BY <2>2 DEF SemInv, Moved
        <3> QED
            BY <3>1, ProcKept
    <2> QED
        BY <2>1, <2>2
<1> QED
    BY <1>1 DEF SemInv, Moved

-------------------------------------------------------------------------------
(* The helpers                                                             *)

LEMMA WatchedSame ==
    ASSUME NEW s, NEW m \in SetRec, NEW new \in SetRec, NEW C,
           new.val = m.val, new.ncnt = m.ncnt, new.zcnt = m.zcnt
    PROVE  Watched(s, m, new, C)
    BY DEF Watched, SetRec

\* A process that is in no call
LEMMA IdleOK ==
    ASSUME NEW p, semat'[p] \in {"idle", "copy", "recopy"},
           semat'[p] # "idle" => IsSemCall(semcall'[p], semat'[p])
    PROVE  ProcOK(p)'
    BY DEF ProcOK, SemWaits, SemAts, SemAsleep

\* One structure changes, and is not taken when there is none left
LEMMA UndoSet ==
    ASSUME UndoTypes, NEW p \in Procs, NEW u, UndoOK(u), u.held => undo[p].held \/ FreeUndo,
           undo' = [undo EXCEPT ![p] = u]
    PROVE  UndoTypes'
<1>1. DOMAIN undo' = Procs /\ \A q \in Procs : undo'[q] = IF q = p THEN u ELSE undo[q]
    BY DEF UndoTypes
<1>2. \A q \in Procs : UndoOK(undo'[q])
    BY <1>1 DEF UndoTypes
<1>3. PICK H : H = Holders
    OBVIOUS
<1>4. PICK N : N = Holders'
    OBVIOUS
<1>5. /\ \A q : q \in H <=> q \in Procs /\ undo[q].held
      /\ \A q : q \in N <=> q \in Procs /\ undo'[q].held
    BY <1>3, <1>4 DEF Holders
<1>6. IsFiniteSet(H) /\ Cardinality(H) \in Nat /\ Cardinality(H) <= SemMnu
    BY <1>3, FS_CardinalityType DEF UndoTypes
<1>7. IsFiniteSet(N) /\ Cardinality(N) <= SemMnu
    <2>1. CASE N \subseteq H
        <3>1. IsFiniteSet(N) /\ Cardinality(N) <= Cardinality(H)
            BY <1>6, <2>1, FS_Subset
        <3>2. Cardinality(N) \in Nat
            BY <3>1, FS_CardinalityType
        <3> QED
            BY <1>6, <3>1, <3>2, SemAssumption
    <2>2. CASE ~(N \subseteq H)
        <3>1. N = H \cup {p} /\ p \notin H /\ u.held
            BY <1>1, <1>5, <2>2
        <3>2. FreeUndo
            BY <1>5, <3>1
        <3>3. Cardinality(H) < SemMnu
            BY <1>3, <3>2 DEF FreeUndo, Holders
        <3>4. IsFiniteSet(N) /\ Cardinality(N) = Cardinality(H) + 1
            BY <1>6, <3>1, FS_AddElement
        <3> QED
            BY <1>6, <3>3, <3>4, SemAssumption
    <2> QED
        BY <2>1, <2>2
<1> QED
    BY <1>1, <1>2, <1>4, <1>7 DEF UndoTypes

\* semunrm takes entries away
LEMMA UndoRemoved ==
    ASSUME UndoTypes, NEW s, NEW seq, NEW ns, Semunrm(s, seq, ns)
    PROVE  UndoTypes'
<1>1. DOMAIN undo' = Procs
    BY DEF Semunrm
<1>2. ASSUME NEW p \in Procs PROVE UndoOK(undo'[p]) /\ undo'[p].held = undo[p].held
    <2>1. PICK u : u = undo[p]
        OBVIOUS
    <2>2. PICK keep : keep = {e \in DOMAIN u.ent : ~(e.set = s /\ e.seq = seq /\ e.num \in ns)}
        OBVIOUS
    <2>3. PICK ent : ent = [e \in keep |-> u.ent[e]]
        OBVIOUS
    <2>4. undo'[p] = [u EXCEPT !.ent = ent]
        BY <2>1, <2>2, <2>3 DEF Semunrm
    <2>5. UndoOK(u)
        BY <2>1 DEF UndoTypes
    <2>6. undo'[p] = [held |-> u.held, ent |-> ent]
        BY <2>4, <2>5 DEF UndoOK
    <2>7. /\ keep \subseteq DOMAIN u.ent /\ DOMAIN ent = keep
          /\ \A e \in keep : ent[e] = u.ent[e]
        BY <2>2, <2>3
    <2>8. IsFiniteSet(keep) /\ Cardinality(keep) <= Cardinality(DOMAIN u.ent)
        BY <2>5, <2>7, FS_Subset DEF UndoOK, EntOK
    <2>9. Cardinality(keep) \in Nat /\ Cardinality(DOMAIN u.ent) \in Nat
        BY <2>5, <2>8, FS_CardinalityType DEF UndoOK, EntOK
    <2>10. Cardinality(keep) <= IF u.held THEN SemUme ELSE 0
        BY <2>5, <2>8, <2>9, SemAssumption DEF UndoOK
    <2>11. PICK new : new = undo'[p]
        OBVIOUS
    <2>12. new.held = u.held /\ new.ent = ent /\ new = [held |-> new.held, ent |-> new.ent]
        BY <2>6, <2>11
    <2>13. EntOK(new)
        BY <2>5, <2>7, <2>8, <2>12 DEF UndoOK, EntOK
    <2>14. UndoOK(new)
        BY <2>5, <2>7, <2>10, <2>12, <2>13 DEF UndoOK
    <2> QED
        BY <2>1, <2>11, <2>12, <2>14
<1>3. Holders' = Holders
    BY <1>2 DEF Holders
<1> QED
    BY <1>1, <1>2, <1>3 DEF UndoTypes

LEMMA UndoSame == ASSUME UndoTypes, undo' = undo PROVE UndoTypes'
<1>1. Holders' = Holders
    BY DEF Holders
<1> QED
    BY <1>1 DEF UndoTypes

\* Those the channels of which are not woken up sleep on, and the others are awake
LEMMA WokenDomain == \A C : DOMAIN Woken(C) = Procs
    BY DEF Woken

-------------------------------------------------------------------------------
(* The initial states                                                      *)

\* A process that has no undo structure
LEMMA NoUndoOK == UndoOK(NoUndo) /\ NoUndo.held = FALSE
<1>1. DOMAIN NoUndo.ent = {} /\ NoUndo.held = FALSE
    BY DEF NoUndo
<1>2. IsFiniteSet({}) /\ Cardinality({}) = 0
    BY FS_EmptySet
<1>3. NoUndo = [held |-> NoUndo.held, ent |-> NoUndo.ent]
    BY DEF NoUndo
<1>4. EntOK(NoUndo)
    BY <1>1, <1>2 DEF EntOK
<1>5. PICK u : u = NoUndo
    OBVIOUS
<1>6. /\ DOMAIN u.ent = {} /\ u.held = FALSE /\ u = [held |-> u.held, ent |-> u.ent]
      /\ EntOK(u)
    BY <1>1, <1>3, <1>4, <1>5
<1>7. UndoOK(u)
    <2>1. Cardinality(DOMAIN u.ent) = 0
        BY <1>2, <1>6
    <2>2. Cardinality(DOMAIN u.ent) <= IF u.held THEN SemUme ELSE 0
        BY <1>6, <2>1
    <2>3. u.held \in BOOLEAN /\ u = [held |-> u.held, ent |-> u.ent] /\ EntOK(u)
        BY <1>6
    <2> QED
        BY Zenon, <2>2, <2>3 DEF UndoOK
<1> QED
    BY <1>1, <1>5, <1>7

LEMMA SemInitOK == SemInit => SemInv
<1> SUFFICES ASSUME SemInit PROVE SemInv
    OBVIOUS
<1>1. Zeros \in [Nums -> 0 .. SemVmx] /\ Zeros \in [Nums -> Nat]
    BY SemAssumption DEF Zeros
<1>2. sema \in [Sets -> SetRec]
    BY <1>1, SemAssumption DEF SemInit, SetRec
<1>3. UndoOK(NoUndo) /\ NoUndo.held = FALSE
    BY NoUndoOK
<1>4. UndoTypes
    <2>1. Holders = {}
        BY <1>3 DEF SemInit, Holders
    <2>2. IsFiniteSet({}) /\ Cardinality({}) = 0
        BY FS_EmptySet
    <2> QED
        BY <1>3, <2>1, <2>2, SemAssumption DEF SemInit, UndoTypes
<1>5. semat \in [Procs -> SemAts] /\ DOMAIN semcall = Procs /\ DOMAIN wchan = Procs
    BY DEF SemInit, SemAts
<1>6. \A p \in Procs : ProcOK(p)
    BY DEF SemInit, ProcOK, SemWaits, SemAts, SemAsleep
<1> QED
    BY <1>2, <1>4, <1>5, <1>6 DEF SemInv

-------------------------------------------------------------------------------
(* semop                                                                   *)

\* The set after the loop: the process that sleeps is counted
Counted(acc) ==
    CASE acc.end = "semncnt" -> [acc.m EXCEPT !.ncnt[acc.on] = @ + 1]
      [] acc.end = "semzcnt" -> [acc.m EXCEPT !.zcnt[acc.on] = @ + 1]
      [] OTHER -> acc.m

LEMMA CountedOK ==
    ASSUME NEW p, NEW acc, AccOK(p, acc)
    PROVE  /\ Counted(acc) \in SetRec /\ Counted(acc).val = acc.m.val
           /\ \A n \in Nums : /\ Counted(acc).ncnt[n] >= acc.m.ncnt[n]
                              /\ Counted(acc).zcnt[n] >= acc.m.zcnt[n]
           /\ acc.end = "semncnt" => Counted(acc).ncnt[acc.on] > 0
           /\ acc.end = "semzcnt" => Counted(acc).zcnt[acc.on] > 0
<1>1. PICK m, on : m = acc.m /\ on = acc.on
    OBVIOUS
<1>2. /\ m \in SetRec
      /\ m = [alloc |-> m.alloc, seq |-> m.seq, val |-> m.val, ncnt |-> m.ncnt, zcnt |-> m.zcnt]
      /\ acc.end \in {"semncnt", "semzcnt"} => on \in Nums
    BY <1>1 DEF AccOK, SetRec
<1>3. m.ncnt \in [Nums -> Nat] /\ m.zcnt \in [Nums -> Nat]
    BY <1>2 DEF SetRec
<1>4. CASE acc.end = "semncnt"
    <2>1. PICK c : c = [m.ncnt EXCEPT ![on] = @ + 1]
        OBVIOUS
    <2>2. c \in [Nums -> Nat] /\ \A n \in Nums : c[n] = IF n = on THEN m.ncnt[n] + 1 ELSE m.ncnt[n]
        BY <1>2, <1>3, <1>4, <2>1
    <2>3. Counted(acc) = [m EXCEPT !.ncnt[on] = @ + 1]
        BY <1>1, <1>4 DEF Counted
    <2>4. Counted(acc) = [alloc |-> m.alloc, seq |-> m.seq, val |-> m.val, ncnt |-> c,
                          zcnt |-> m.zcnt]
        BY <1>2, <2>1, <2>3
    <2>5. Counted(acc) \in SetRec
        BY <1>2, <2>2, <2>4 DEF SetRec
    <2>6. on \in Nums /\ c[on] > 0
        BY <1>2, <1>3, <1>4, <2>2
    <2> QED
        BY <1>1, <1>3, <1>4, <2>2, <2>4, <2>5, <2>6
<1>5. CASE acc.end = "semzcnt"
    <2>1. PICK c : c = [m.zcnt EXCEPT ![on] = @ + 1]
        OBVIOUS
    <2>2. c \in [Nums -> Nat] /\ \A n \in Nums : c[n] = IF n = on THEN m.zcnt[n] + 1 ELSE m.zcnt[n]
        BY <1>2, <1>3, <1>5, <2>1
    <2>3. Counted(acc) = [m EXCEPT !.zcnt[on] = @ + 1]
        BY <1>1, <1>5 DEF Counted
    <2>4. Counted(acc) = [alloc |-> m.alloc, seq |-> m.seq, val |-> m.val, ncnt |-> m.ncnt,
                          zcnt |-> c]
        BY <1>2, <2>1, <2>3
    <2>5. Counted(acc) \in SetRec
        BY <1>2, <2>2, <2>4 DEF SetRec
    <2>6. on \in Nums /\ c[on] > 0
        BY <1>2, <1>3, <1>5, <2>2
    <2> QED
        BY <1>1, <1>3, <1>5, <2>2, <2>4, <2>5, <2>6
<1>6. CASE acc.end \notin {"semncnt", "semzcnt"}
    <2>1. Counted(acc) = m
        BY <1>1, <1>6 DEF Counted
    <2> QED
        BY <1>1, <1>2, <1>3, <1>6, <2>1
<1> QED
    BY <1>4, <1>5, <1>6

\* What semop changes
SemopDone(p, acc) ==
    /\ sema' = [sema EXCEPT ![S(p)] = Counted(acc)]
    /\ undo' = [undo EXCEPT ![p] = acc.u]
    /\ IF acc.end \in SemAsleep
       THEN /\ semat' = [semat EXCEPT ![p] = acc.end]
            /\ semcall' = [semcall EXCEPT ![p].on = acc.on]
            /\ Sleep(p, <<acc.end, S(p), acc.on>>, acc.wakes)
       ELSE SemReturn(p) /\ Wakeup(acc.wakes)

LEMMA SemopIs ==
    ASSUME SemInv, NEW p \in Procs, Semop(p)
    PROVE  /\ S(p) \in Sets /\ semcall[p].ops \in Seq(OpRec) /\ semcall[p].op = "semop"
           /\ semcall[p].ops \in OpLists /\ "on" \in DOMAIN semcall[p]
           /\ sema[S(p)] \in SetRec /\ UndoOK(undo[p])
           /\ semat[p] \in {"copy", "recopy"}
           /\ SemopDone(p, Loop(p, semcall[p].ops))
<1>1. semat[p] \in {"copy", "recopy"} /\ semcall[p].op = "semop"
    BY DEF Semop
<1>2. IsSemCall(semcall[p], semat[p]) /\ sema \in [Sets -> SetRec] /\ UndoOK(undo[p])
    BY <1>1 DEF SemInv, ProcOK, UndoTypes
<1>3. /\ S(p) \in Sets /\ semcall[p].ops \in OpLists
      /\ "on" \in DOMAIN semcall[p]
    BY <1>1, <1>2 DEF IsSemCall, S
<1>4. semcall[p].ops \in Seq(OpRec)
    BY <1>3, SemAssumption DEF OpRec
<1>5. SemopDone(p, Loop(p, semcall[p].ops))
    BY DEF Semop, SemopDone, Counted, SemAsleep
<1> QED
    BY <1>1, <1>2, <1>3, <1>4, <1>5

LEMMA SemopKept == ASSUME SemInv, NEW p \in Procs, Semop(p) PROVE SemInv'
<1>1. PICK s, ops : s = S(p) /\ ops = semcall[p].ops
    OBVIOUS
<1>2. PICK acc : acc = Loop(p, ops)
    OBVIOUS
<1>3. /\ s \in Sets /\ ops \in Seq(OpRec) /\ sema[s] \in SetRec /\ UndoOK(undo[p])
      /\ SemopDone(p, acc) /\ semcall[p].op = "semop" /\ ops \in OpLists
      /\ "on" \in DOMAIN semcall[p]
    BY <1>1, <1>2, SemopIs
<1>4. AccOK(p, acc) /\ Watched(s, sema[s], acc.m, acc.wakes)
    BY <1>1, <1>2, <1>3, LoopIs
<1>5. PICK m : m = Counted(acc)
    OBVIOUS
<1>6. /\ m \in SetRec /\ m.val = acc.m.val
      /\ \A n \in Nums : m.ncnt[n] >= acc.m.ncnt[n] /\ m.zcnt[n] >= acc.m.zcnt[n]
      /\ acc.end = "semncnt" => m.ncnt[acc.on] > 0
      /\ acc.end = "semzcnt" => m.zcnt[acc.on] > 0
    BY <1>4, <1>5, CountedOK
<1>7. Watched(s, sema[s], m, acc.wakes)
    <2>1. Watched(s, acc.m, m, acc.wakes) /\ acc.m \in SetRec
        BY <1>4, <1>6 DEF Watched, AccOK, SetRec
    <2> QED
        BY <1>3, <1>4, <1>6, <2>1, WatchedTwice
<1>8. sema' = [sema EXCEPT ![s] = m] /\ sema \in [Sets -> SetRec]
    BY <1>1, <1>3, <1>5 DEF SemopDone, SemInv
<1>9. /\ sema' \in [Sets -> SetRec] /\ sema'[s] = m
      /\ \A t \in Sets : t # s => sema'[t] = sema[t]
    BY <1>3, <1>6, <1>8
<1>10. \A t \in Sets : Watched(t, sema[t], sema'[t], acc.wakes)
    <2>1. ASSUME NEW t \in Sets, t # s PROVE Watched(t, sema[t], sema'[t], acc.wakes)
        BY <1>8, <1>9, <2>1, WatchedSame
    <2> QED
        BY <1>7, <1>9, <2>1
<1>11. UndoTypes'
    <2>1. /\ UndoTypes /\ UndoOK(acc.u) /\ (acc.u.held => undo[p].held \/ FreeUndo)
          /\ undo' = [undo EXCEPT ![p] = acc.u]
        BY <1>3, <1>4 DEF SemInv, AccOK, SemopDone
    <2> QED
        BY <2>1, UndoSet
<1>12. /\ semat \in [Procs -> SemAts] /\ DOMAIN semcall = Procs
       /\ DOMAIN Woken(acc.wakes) = Procs
    BY WokenDomain DEF SemInv
<1>13. CASE acc.end \in SemAsleep
    <2>1. /\ semat' = [semat EXCEPT ![p] = acc.end]
          /\ semcall' = [semcall EXCEPT ![p].on = acc.on]
          /\ wchan' = [Woken(acc.wakes) EXCEPT ![p] = <<acc.end, s, acc.on>>]
        BY <1>1, <1>3, <1>13 DEF SemopDone, Sleep
    <2>2. /\ semat' \in [Procs -> SemAts] /\ DOMAIN semcall' = Procs /\ DOMAIN wchan' = Procs
          /\ \A q \in Procs \ {p} : Same(q, acc.wakes)
        BY <1>12, <1>13, <2>1 DEF Same, SemAts, SemAsleep
    <2>3. acc.on \in Nums
        BY <1>4, <1>13 DEF AccOK, SemAsleep
    <2>4. /\ semat'[p] = acc.end /\ wchan'[p] = <<acc.end, s, acc.on>>
          /\ semcall'[p].on = acc.on /\ semcall'[p].ops = ops /\ semcall'[p].op = "semop"
          /\ semcall'[p].set = s /\ "on" \in DOMAIN semcall'[p]
        BY <1>1, <1>3, <1>12, <2>1 DEF S
    <2>5. IsSemCall(semcall'[p], semat'[p])
        BY <1>3, <2>3, <2>4 DEF IsSemCall
    <2>6. S(p)' = s
        BY <2>4 DEF S
    <2>7. sema[s].val[acc.on] = m.val[acc.on]
        <3>1. SameVals(acc.m, sema[s])
            BY <1>1, <1>2, <1>3, <1>13, LoopIs DEF SemAsleep
        <3> QED
            BY <1>6, <2>3, <3>1 DEF SameVals
    <2>8. ASSUME acc.end = "semncnt"
          PROVE  /\ m.ncnt[acc.on] > 0
                 /\ \E i \in DOMAIN ops :
                       /\ ops[i].num = acc.on /\ ops[i].op < 0
                       /\ m.val[acc.on] + Sum(SubSeq(ops, 1, i - 1), acc.on, FALSE) < -ops[i].op
        BY <1>1, <1>2, <1>3, <1>6, <2>7, <2>8, LoopIs
    <2>9. ASSUME acc.end = "semzcnt"
          PROVE  /\ m.zcnt[acc.on] > 0
                 /\ \E i \in DOMAIN ops :
                       /\ ops[i].num = acc.on /\ ops[i].op = 0
                       /\ \/ m.val[acc.on] # 0
                          \/ \E k \in 1 .. i - 1 : ops[k].num = acc.on /\ ops[k].op > 0
        <3>1. \E i \in DOMAIN ops :
                 /\ ops[i].num = acc.on /\ ops[i].op = 0
                 /\ \/ sema[s].val[acc.on] # 0
                    \/ \E k \in 1 .. i - 1 : ops[k].num = acc.on /\ ops[k].op > 0
            <4>1. sema[S(p)] \in SetRec /\ UndoOK(undo[p]) /\ ops \in Seq(OpRec)
                BY <1>1, <1>3
            <4>2. \E i \in DOMAIN ops :
                     /\ ops[i].num = acc.on /\ ops[i].op = 0
                     /\ \/ sema[S(p)].val[acc.on] # 0
                        \/ \E k \in 1 .. i - 1 : ops[k].num = acc.on /\ ops[k].op > 0
                BY ZenonT(60), <1>2, <2>9, <4>1, LoopIs
            <4> QED
                BY <1>1, <4>2
        <3> QED
            BY <1>6, <2>7, <2>9, <3>1
    <2>10. SemWaits(p)'
        BY <1>9, <2>4, <2>6, <2>8, <2>9 DEF SemWaits
    <2>11. ProcOK(p)'
        BY <1>13, <2>4, <2>5, <2>6, <2>10 DEF ProcOK, SemAts, SemAsleep
    <2>12. Moved({p}, acc.wakes)
        BY <1>9, <1>10, <1>11, <2>2, <2>11 DEF Moved
    <2> QED
        BY <2>12, InvKept
<1>14. CASE acc.end \notin SemAsleep
    <2>1. SemReturn(p) /\ wchan' = Woken(acc.wakes)
        BY <1>3, <1>14 DEF SemopDone, Wakeup
    <2>2. /\ semat' \in [Procs -> SemAts] /\ DOMAIN semcall' = Procs /\ DOMAIN wchan' = Procs
          /\ \A q \in Procs \ {p} : Same(q, acc.wakes)
        BY <1>12, <2>1 DEF Same, SemReturn, SemAts
    <2>3. semat'[p] = "idle"
        BY <1>12, <2>1 DEF SemReturn
    <2>4. ProcOK(p)'
        BY <2>3, IdleOK
    <2>5. Moved({p}, acc.wakes)
        BY <1>9, <1>10, <1>11, <2>2, <2>4 DEF Moved
    <2> QED
        BY <2>5, InvKept
<1> QED
    BY <1>13, <1>14

-------------------------------------------------------------------------------
(* The other turns and calls                                               *)

LEMMA AllWatched ==
    ASSUME sema \in [Sets -> SetRec], NEW C, NEW t \in Sets, NEW m \in SetRec,
           Watched(t, sema[t], m, C), sema' = [sema EXCEPT ![t] = m]
    PROVE  /\ sema' \in [Sets -> SetRec]
           /\ \A s \in Sets : Watched(s, sema[s], sema'[s], C)
<1>1. /\ sema' \in [Sets -> SetRec] /\ sema'[t] = m
      /\ \A s \in Sets : s # t => sema'[s] = sema[s]
    OBVIOUS
<1>2. ASSUME NEW s \in Sets, s # t PROVE Watched(s, sema[s], sema'[s], C)
    BY <1>1, <1>2, WatchedSame
<1> QED
    BY <1>1, <1>2

LEMMA SemaSame ==
    ASSUME sema \in [Sets -> SetRec], NEW C, sema' = sema
    PROVE  /\ sema' \in [Sets -> SetRec]
           /\ \A s \in Sets : Watched(s, sema[s], sema'[s], C)
    BY WatchedSame

\* A turn of p ends its call or goes on in it
TurnsTo(p, now, c) ==
    /\ now \in {"idle", "copy", "recopy"} /\ (now # "idle" => IsSemCall(c, now))
    /\ semat' \in [Procs -> SemAts] /\ DOMAIN semcall' = Procs /\ semat'[p] = now /\ semcall'[p] = c
    /\ \A q \in Procs \ {p} : semat'[q] = semat[q] /\ semcall'[q] = semcall[q]

\* It wakes up C
Wakes(p, C) ==
    /\ sema' \in [Sets -> SetRec] /\ UndoTypes'
    /\ \A s \in Sets : Watched(s, sema[s], sema'[s], C)
    /\ DOMAIN wchan' = Procs /\ \A q \in Procs \ {p} : wchan'[q] = Woken(C)[q]

LEMMA TurnKept ==
    ASSUME SemInv, NEW p \in Procs, NEW C, Wakes(p, C), NEW now, NEW c, TurnsTo(p, now, c)
    PROVE  SemInv'
<1>1. ProcOK(p)'
    BY IdleOK DEF TurnsTo
<1>2. Moved({p}, C)
    BY <1>1 DEF Moved, Same, TurnsTo, Wakes
<1> QED
    BY <1>2, InvKept

LEMMA ReturnTurns ==
    ASSUME SemInv, NEW p \in Procs, SemReturn(p) PROVE TurnsTo(p, "idle", NoSemCall)
    BY DEF SemInv, SemReturn, TurnsTo, SemAts

LEMMA WokenNone == SemInv => \A q \in Procs : Woken({})[q] = wchan[q]
    BY DEF Woken, SemInv

LEMMA SemFailsKept == ASSUME SemInv, NEW p \in Procs, SemFails(p) PROVE SemInv'
<1>1. sema' = sema /\ undo' = undo /\ SemReturn(p) /\ wchan' = Woken({})
    BY DEF SemFails, Wakeup
<1>2. /\ sema' \in [Sets -> SetRec] /\ \A s \in Sets : Watched(s, sema[s], sema'[s], {})
    BY <1>1, SemaSame DEF SemInv
<1>3. UndoTypes'
    BY <1>1, UndoSame DEF SemInv
<1>4. DOMAIN wchan' = Procs /\ \A q \in Procs \ {p} : wchan'[q] = Woken({})[q]
    BY <1>1, WokenDomain
<1>5. Wakes(p, {})
    BY <1>2, <1>3, <1>4 DEF Wakes
<1> QED
    BY <1>1, <1>5, ReturnTurns, TurnKept

LEMMA SemIpcSetKept == ASSUME SemInv, NEW p \in Procs, SemIpcSet(p) PROVE SemInv'
<1>1. /\ sema' = [sema EXCEPT ![S(p)].alloc = TRUE]
      /\ undo' = undo /\ SemReturn(p) /\ wchan' = Woken({}) /\ semat[p] = "copy"
    BY DEF SemIpcSet, Wakeup
<1>2. PICK t \in Sets : t = S(p)
    BY <1>1 DEF SemInv, ProcOK, IsSemCall, S
<1>3. PICK m : m = [sema[t] EXCEPT !.alloc = TRUE]
    OBVIOUS
<1>4. /\ sema \in [Sets -> SetRec] /\ sema[t] \in SetRec /\ m \in SetRec
      /\ m.val = sema[t].val /\ m.ncnt = sema[t].ncnt /\ m.zcnt = sema[t].zcnt
    BY <1>3 DEF SemInv, SetRec
<1>5. sema' = [sema EXCEPT ![t] = m]
    BY <1>1, <1>2, <1>3
<1>6. /\ sema' \in [Sets -> SetRec] /\ \A s \in Sets : Watched(s, sema[s], sema'[s], {})
    BY <1>4, <1>5, AllWatched, WatchedSame
<1>7. UndoTypes'
    BY <1>1, UndoSame DEF SemInv
<1>8. DOMAIN wchan' = Procs /\ \A q \in Procs \ {p} : wchan'[q] = Woken({})[q]
    BY <1>1, WokenDomain
<1>9. Wakes(p, {})
    BY <1>6, <1>7, <1>8 DEF Wakes
<1> QED
    BY <1>1, <1>9, ReturnTurns, TurnKept

LEMMA SemopAgainKept == ASSUME SemInv, NEW p \in Procs, SemopAgain(p) PROVE SemInv'
<1>1. sema' = sema /\ undo' = undo /\ wchan' = wchan /\ semat[p] \in SemAsleep
    BY DEF SemopAgain, SemAsleep
<1>2. /\ sema' \in [Sets -> SetRec] /\ \A s \in Sets : Watched(s, sema[s], sema'[s], {})
    BY <1>1, SemaSame DEF SemInv
<1>3. UndoTypes'
    BY <1>1, UndoSame DEF SemInv
<1>4. DOMAIN wchan' = Procs /\ \A q \in Procs \ {p} : wchan'[q] = Woken({})[q]
    BY <1>1, WokenNone DEF SemInv
<1>5. Wakes(p, {})
    BY <1>2, <1>3, <1>4 DEF Wakes
<1>6. CASE SemValid(p)
    <2>1. semat' = [semat EXCEPT ![p] = "recopy"] /\ semcall' = semcall
        BY <1>6 DEF SemopAgain
    <2>2. IsSemCall(semcall[p], "recopy")
        BY <1>1 DEF SemInv, ProcOK, IsSemCall, SemAsleep
    <2>3. TurnsTo(p, "recopy", semcall[p])
        BY <2>1, <2>2 DEF SemInv, TurnsTo, SemAts
    <2> QED
        BY <1>5, <2>3, TurnKept
<1>7. CASE ~SemValid(p)
    <2>1. SemReturn(p)
        BY <1>7 DEF SemopAgain
    <2> QED
        BY <1>5, <2>1, ReturnTurns, TurnKept
<1> QED
    BY <1>6, <1>7

LEMMA SemCallKept == ASSUME SemInv, NEW p \in Procs, NEW c \in SemCalls, SemCall(p, c) PROVE SemInv'
<1>1. /\ sema' = sema /\ undo' = undo /\ wchan' = wchan
      /\ semat' = [semat EXCEPT ![p] = "copy"] /\ semcall' = [semcall EXCEPT ![p] = c]
    BY DEF SemCall
<1>2. /\ sema' \in [Sets -> SetRec] /\ \A s \in Sets : Watched(s, sema[s], sema'[s], {})
    BY <1>1, SemaSame DEF SemInv
<1>3. UndoTypes'
    BY <1>1, UndoSame DEF SemInv
<1>4. DOMAIN wchan' = Procs /\ \A q \in Procs \ {p} : wchan'[q] = Woken({})[q]
    BY <1>1, WokenNone DEF SemInv
<1>5. IsSemCall(c, "copy")
    BY DEF SemCalls, IsSemCall, SemAsleep
<1>6. Wakes(p, {})
    BY <1>2, <1>3, <1>4 DEF Wakes
<1>7. TurnsTo(p, "copy", c)
    BY <1>1, <1>5 DEF SemInv, TurnsTo, SemAts
<1> QED
    BY <1>6, <1>7, TurnKept

\* A call that ends before it begins
LEMMA CallKept ==
    ASSUME SemInv, NEW C, sema' \in [Sets -> SetRec], UndoTypes',
           \A s \in Sets : Watched(s, sema[s], sema'[s], C),
           semat' = semat, semcall' = semcall, wchan' = Woken(C)
    PROVE  SemInv'
<1>1. Moved({}, C)
    BY WokenDomain DEF Moved, Same, SemInv
<1> QED
    BY <1>1, InvKept

LEMMA SemGetKept == ASSUME SemInv, NEW t \in Sets, SemGet(t) PROVE SemInv'
<1>1. /\ sema' = [sema EXCEPT ![t].alloc = TRUE]
      /\ undo' = undo /\ semat' = semat /\ semcall' = semcall /\ wchan' = wchan
    BY DEF SemGet
<1>3. PICK m : m = [sema[t] EXCEPT !.alloc = TRUE]
    OBVIOUS
<1>4. /\ sema \in [Sets -> SetRec] /\ sema[t] \in SetRec /\ m \in SetRec
      /\ m.val = sema[t].val /\ m.ncnt = sema[t].ncnt /\ m.zcnt = sema[t].zcnt
    BY <1>3 DEF SemInv, SetRec
<1>5. sema' = [sema EXCEPT ![t] = m]
    BY <1>1, <1>3
<1>6. /\ sema' \in [Sets -> SetRec] /\ \A s \in Sets : Watched(s, sema[s], sema'[s], {})
    BY <1>4, <1>5, AllWatched, WatchedSame
<1>7. UndoTypes'
    BY <1>1, UndoSame DEF SemInv
<1>8. Moved({}, {})
    BY <1>1, <1>6, <1>7, WokenNone DEF Moved, Same, SemInv
<1> QED
    BY <1>8, InvKept

LEMMA SemRmIdKept == ASSUME SemInv, NEW t \in Sets, SemRmId(t) PROVE SemInv'
<1>1. PICK C : C = {Ncnt(t, n) : n \in {n \in Nums : sema[t].ncnt[n] # 0}} \cup
                   {Zcnt(t, n) : n \in {n \in Nums : sema[t].zcnt[n] # 0}}
    OBVIOUS
<1>2. PICK m : m = [alloc |-> FALSE, val |-> Zeros, ncnt |-> Zeros, zcnt |-> Zeros,
                    seq |-> IF sema[t].seq = SemMaxSeq THEN 0 ELSE sema[t].seq + 1]
    OBVIOUS
<1>3. /\ Semunrm(t, sema[t].seq, Nums) /\ sema' = [sema EXCEPT ![t] = m]
      /\ wchan' = Woken(C) /\ semcall' = semcall /\ semat' = semat
    BY <1>1, <1>2 DEF SemRmId, Wakeup
<1>4. sema \in [Sets -> SetRec] /\ sema[t] \in SetRec
    BY DEF SemInv
<1>5. m \in SetRec
    <2>1. Zeros \in [Nums -> 0 .. SemVmx] /\ Zeros \in [Nums -> Nat]
        BY SemAssumption DEF Zeros
    <2>2. m.seq \in 0 .. SemMaxSeq
        <3>1. sema[t].seq \in 0 .. SemMaxSeq
            BY <1>4 DEF SetRec
        <3> QED
            BY <1>2, <3>1, SemAssumption
    <2> QED
        BY <1>2, <2>1, <2>2 DEF SetRec
<1>6. Watched(t, sema[t], m, C)
    <2>1. ASSUME NEW n \in Nums, sema[t].ncnt[n] > 0 PROVE Ncnt(t, n) \in C
        BY <1>1, <1>4, <2>1 DEF SetRec
    <2>2. ASSUME NEW n \in Nums, sema[t].zcnt[n] > 0 PROVE Zcnt(t, n) \in C
        BY <1>1, <1>4, <2>2 DEF SetRec
    <2> QED
        BY <2>1, <2>2 DEF Watched
<1>7. /\ sema' \in [Sets -> SetRec] /\ \A s \in Sets : Watched(s, sema[s], sema'[s], C)
    BY <1>3, <1>4, <1>5, <1>6, AllWatched
<1>8. UndoTypes'
    BY <1>3, UndoRemoved DEF SemInv
<1> QED
    BY <1>3, <1>7, <1>8, CallKept

\* SETVAL and SETALL wake up those who wait for what the values have become
LEMMA SetValuesOK ==
    ASSUME sema \in [Sets -> SetRec], NEW t \in Sets, NEW f, DOMAIN f \subseteq Nums,
           \A n \in DOMAIN f : f[n] \in 0 .. SemVmx, SetValues(t, f)
    PROVE  \E C : /\ wchan' = Woken(C) /\ sema' \in [Sets -> SetRec]
                  /\ \A s \in Sets : Watched(s, sema[s], sema'[s], C)
<1>1. PICK ns : ns = DOMAIN f
    OBVIOUS
<1>2. PICK val : val = [n \in Nums |-> IF n \in ns THEN f[n] ELSE sema[t].val[n]]
    OBVIOUS
<1>3. PICK m : m = [sema[t] EXCEPT !.val = val]
    OBVIOUS
<1>4. /\ sema[t] \in SetRec /\ sema[t].val \in [Nums -> 0 .. SemVmx]
      /\ sema[t].ncnt \in [Nums -> Nat] /\ sema[t].zcnt \in [Nums -> Nat]
    BY DEF SetRec
<1>5. val \in [Nums -> 0 .. SemVmx]
    BY <1>1, <1>2, <1>4
<1>6. m = [alloc |-> sema[t].alloc, seq |-> sema[t].seq, val |-> val, ncnt |-> sema[t].ncnt,
           zcnt |-> sema[t].zcnt]
    BY <1>3, <1>4 DEF SetRec
<1>7. PICK ncnt : ncnt = [n \in Nums |-> IF n \in ns /\ m.val[n] # 0 THEN 0 ELSE m.ncnt[n]]
    OBVIOUS
<1>8. PICK zcnt : zcnt = [n \in Nums |-> IF n \in ns /\ m.val[n] = 0 THEN 0 ELSE m.zcnt[n]]
    OBVIOUS
<1>9. ncnt \in [Nums -> Nat] /\ zcnt \in [Nums -> Nat]
    BY <1>4, <1>6, <1>7, <1>8
<1>10. PICK new : new = [m EXCEPT !.ncnt = ncnt, !.zcnt = zcnt]
    OBVIOUS
<1>11. new = [alloc |-> sema[t].alloc, seq |-> sema[t].seq, val |-> val, ncnt |-> ncnt,
              zcnt |-> zcnt]
    BY <1>6, <1>10
<1>12. new \in SetRec
    BY <1>4, <1>5, <1>9, <1>11 DEF SetRec
<1>13. PICK C : C = UNION {WakesNcnt(m, t, n, m.val[n] # 0) \cup WakesZcnt(m, t, n) : n \in ns}
    OBVIOUS
<1>14. sema' = [sema EXCEPT ![t] = new] /\ wchan' = Woken(C)
    BY <1>1, <1>2, <1>3, <1>7, <1>8, <1>10, <1>13 DEF SetValues, Wakeup
<1>15. ASSUME NEW n \in ns, m.val[n] # 0, m.ncnt[n] # 0 PROVE Ncnt(t, n) \in C
    <2>1. Ncnt(t, n) \in WakesNcnt(m, t, n, m.val[n] # 0)
        BY <1>15 DEF WakesNcnt
    <2> QED
        BY <1>13, <2>1
<1>16. ASSUME NEW n \in ns, m.val[n] = 0, m.zcnt[n] # 0 PROVE Zcnt(t, n) \in C
    <2>1. Zcnt(t, n) \in WakesZcnt(m, t, n)
        BY <1>16 DEF WakesZcnt
    <2> QED
        BY <1>13, <2>1
<1>17. Watched(t, sema[t], new, C)
    <2>1. ASSUME NEW n \in Nums, sema[t].ncnt[n] > 0
          PROVE  Ncnt(t, n) \in C \/ (new.ncnt[n] > 0 /\ new.val[n] <= sema[t].val[n])
        <3>1. CASE n \in ns /\ m.val[n] # 0
            BY <1>4, <1>6, <1>15, <2>1, <3>1
        <3>2. CASE ~(n \in ns /\ m.val[n] # 0)
            <4>1. new.ncnt[n] = sema[t].ncnt[n]
                BY <1>6, <1>7, <1>11, <3>2
            <4>2. new.val[n] <= sema[t].val[n]
                BY <1>2, <1>4, <1>6, <1>11, <3>2
            <4> QED
                BY <2>1, <4>1, <4>2
        <3> QED
            BY <3>1, <3>2
    <2>2. ASSUME NEW n \in Nums, sema[t].zcnt[n] > 0
          PROVE  \/ Zcnt(t, n) \in C
                 \/ new.zcnt[n] > 0 /\ (sema[t].val[n] # 0 => new.val[n] # 0)
        <3>1. CASE n \in ns /\ m.val[n] = 0
            BY <1>4, <1>6, <1>16, <2>2, <3>1
        <3>2. CASE ~(n \in ns /\ m.val[n] = 0)
            <4>1. new.zcnt[n] = sema[t].zcnt[n]
                BY <1>6, <1>8, <1>11, <3>2
            <4>2. sema[t].val[n] # 0 => new.val[n] # 0
                BY <1>2, <1>6, <1>11, <3>2
            <4> QED
                BY <2>2, <4>1, <4>2
        <3> QED
            BY <3>1, <3>2
    <2> QED
        BY <2>1, <2>2 DEF Watched
<1>18. sema' \in [Sets -> SetRec] /\ \A s \in Sets : Watched(s, sema[s], sema'[s], C)
    BY <1>12, <1>14, <1>17, AllWatched
<1> QED
    BY <1>14, <1>18

LEMMA SetValKept ==
    ASSUME SemInv, NEW t \in Sets, NEW n \in Nums, NEW v \in Values, SetVal(t, n, v)
    PROVE  SemInv'
<1>1. PICK f : f = [x \in {n} |-> v]
    OBVIOUS
<1>2. DOMAIN f \subseteq Nums /\ \A x \in DOMAIN f : f[x] \in 0 .. SemVmx
    BY <1>1, SemAssumption
<1>3. /\ SetValues(t, f) /\ Semunrm(t, sema[t].seq, {n})
      /\ semcall' = semcall /\ semat' = semat
    BY <1>1 DEF SetVal
<1>4. PICK C : /\ wchan' = Woken(C) /\ sema' \in [Sets -> SetRec]
               /\ \A s \in Sets : Watched(s, sema[s], sema'[s], C)
    BY <1>2, <1>3, SetValuesOK DEF SemInv
<1>5. UndoTypes'
    BY <1>3, UndoRemoved DEF SemInv
<1> QED
    BY <1>3, <1>4, <1>5, CallKept

LEMMA SetAllKept == ASSUME SemInv, NEW p \in Procs, SetAll(p) PROVE SemInv'
<1>1. PICK f, t : f = semcall[p].values /\ t = S(p)
    OBVIOUS
<1>2. /\ SetValues(t, f) /\ Semunrm(t, semcall[p].seq, Nums) /\ SemReturn(p)
      /\ semat[p] = "copy" /\ semcall[p].op = "setall"
    BY <1>1 DEF SetAll
<1>3. t \in Sets /\ f \in Vectors
    BY <1>1, <1>2 DEF SemInv, ProcOK, IsSemCall, S
<1>4. DOMAIN f \subseteq Nums /\ \A x \in DOMAIN f : f[x] \in 0 .. SemVmx
    BY <1>3, SemAssumption
<1>5. PICK C : /\ wchan' = Woken(C) /\ sema' \in [Sets -> SetRec]
               /\ \A s \in Sets : Watched(s, sema[s], sema'[s], C)
    BY <1>2, <1>3, <1>4, SetValuesOK DEF SemInv
<1>6. UndoTypes'
    BY <1>2, UndoRemoved DEF SemInv
<1>7. Wakes(p, C)
    BY <1>5, <1>6, WokenDomain DEF Wakes
<1> QED
    BY <1>2, <1>7, ReturnTurns, TurnKept

LEMMA SemInterruptKept == ASSUME SemInv, NEW p \in Procs, SemInterrupt(p) PROVE SemInv'
<1>1. PICK t, n, now : t = S(p) /\ n = semcall[p].on /\ now = semat[p]
    OBVIOUS
<1>2. PICK left : left = (IF now = "semncnt" THEN sema[t].ncnt[n] ELSE sema[t].zcnt[n]) - 1
    OBVIOUS
<1>3. PICK rest : rest = IF left <= 0 THEN 0 ELSE left
    OBVIOUS
<1>4. PICK C : C = IF left <= 0 THEN {<<now, t, n>>} ELSE {}
    OBVIOUS
<1>5. /\ now \in SemAsleep
      /\ sema' = IF now = "semncnt" THEN [sema EXCEPT ![t].ncnt[n] = rest]
                                   ELSE [sema EXCEPT ![t].zcnt[n] = rest]
      /\ wchan' = [Woken(C) EXCEPT ![p] = NoChan] /\ SemReturn(p) /\ undo' = undo
    BY <1>1, <1>2, <1>3, <1>4 DEF SemInterrupt, Unsleep, SemAsleep
<1>6. t \in Sets /\ n \in Nums /\ sema \in [Sets -> SetRec] /\ sema[t] \in SetRec
    <2>1. IsSemCall(semcall[p], now) /\ sema \in [Sets -> SetRec]
        BY <1>1, <1>5 DEF SemInv, ProcOK, SemAsleep
    <2>2. t \in Sets /\ n \in Nums
        BY <1>1, <1>5, <2>1 DEF IsSemCall, S
    <2> QED
        BY <2>1, <2>2
<1>7. /\ sema[t].ncnt \in [Nums -> Nat] /\ sema[t].zcnt \in [Nums -> Nat]
      /\ sema[t] = [alloc |-> sema[t].alloc, seq |-> sema[t].seq, val |-> sema[t].val,
                    ncnt |-> sema[t].ncnt, zcnt |-> sema[t].zcnt]
    BY <1>6 DEF SetRec
<1>8. rest \in Nat
    BY <1>2, <1>3, <1>6, <1>7
<1>9. PICK m : /\ m \in SetRec /\ Watched(t, sema[t], m, C) /\ sema' = [sema EXCEPT ![t] = m]
    <2>1. CASE now = "semncnt"
        <3>1. PICK c : c = [sema[t].ncnt EXCEPT ![n] = rest]
            OBVIOUS
        <3>2. /\ c \in [Nums -> Nat]
              /\ \A k \in Nums : c[k] = IF k = n THEN rest ELSE sema[t].ncnt[k]
            BY <1>6, <1>7, <1>8, <3>1
        <3>3. PICK m : m = [sema[t] EXCEPT !.ncnt = c]
            OBVIOUS
        <3>4. m = [alloc |-> sema[t].alloc, seq |-> sema[t].seq, val |-> sema[t].val,
                   ncnt |-> c, zcnt |-> sema[t].zcnt]
            BY <1>7, <3>3
        <3>5. m \in SetRec
            BY <1>6, <3>2, <3>4 DEF SetRec
        <3>6. sema' = [sema EXCEPT ![t] = m]
            BY <1>5, <2>1, <3>1, <3>3
        <3>7. Watched(t, sema[t], m, C)
            <4>1. left = sema[t].ncnt[n] - 1
                BY <1>2, <2>1
            <4>2. ASSUME NEW k \in Nums, sema[t].ncnt[k] > 0
                  PROVE  Ncnt(t, k) \in C \/ (m.ncnt[k] > 0 /\ m.val[k] <= sema[t].val[k])
                <5>1. sema[t].val[k] \in 0 .. SemVmx
                    BY <1>6 DEF SetRec
                <5>2. m.val[k] <= sema[t].val[k]
                    BY <3>4, <5>1
                <5>3. CASE k = n /\ left <= 0
                    BY <1>4, <2>1, <5>3 DEF Ncnt
                <5>4. CASE ~(k = n /\ left <= 0)
                    <6>1. m.ncnt[k] > 0
                        BY <1>3, <1>7, <3>2, <3>4, <4>1, <4>2, <5>4
                    <6> QED
                        BY <5>2, <6>1
                <5> QED
                    BY <5>3, <5>4
            <4> QED
                BY <3>4, <4>2 DEF Watched
        <3> QED
            BY <3>5, <3>6, <3>7
    <2>2. CASE now # "semncnt"
        <3>0. now = "semzcnt"
            BY <1>5, <2>2 DEF SemAsleep
        <3>1. PICK c : c = [sema[t].zcnt EXCEPT ![n] = rest]
            OBVIOUS
        <3>2. /\ c \in [Nums -> Nat]
              /\ \A k \in Nums : c[k] = IF k = n THEN rest ELSE sema[t].zcnt[k]
            BY <1>6, <1>7, <1>8, <3>1
        <3>3. PICK m : m = [sema[t] EXCEPT !.zcnt = c]
            OBVIOUS
        <3>4. m = [alloc |-> sema[t].alloc, seq |-> sema[t].seq, val |-> sema[t].val,
                   ncnt |-> sema[t].ncnt, zcnt |-> c]
            BY <1>7, <3>3
        <3>5. m \in SetRec
            BY <1>6, <3>2, <3>4 DEF SetRec
        <3>6. sema' = [sema EXCEPT ![t] = m]
            BY <1>5, <2>2, <3>1, <3>3
        <3>7. Watched(t, sema[t], m, C)
            <4>1. left = sema[t].zcnt[n] - 1
                BY <1>2, <2>2
            <4>2. ASSUME NEW k \in Nums, sema[t].zcnt[k] > 0
                  PROVE  Zcnt(t, k) \in C \/ m.zcnt[k] > 0
                <5>3. CASE k = n /\ left <= 0
                    BY <1>4, <3>0, <5>3 DEF Zcnt
                <5>4. CASE ~(k = n /\ left <= 0)
                    BY <1>3, <1>7, <3>2, <3>4, <4>1, <4>2, <5>4
                <5> QED
                    BY <5>3, <5>4
            <4>3. ASSUME NEW k \in Nums PROVE sema[t].val[k] <= sema[t].val[k]
                <5>1. sema[t].val[k] \in 0 .. SemVmx
                    BY <1>6 DEF SetRec
                <5> QED
                    BY <5>1
            <4> QED
                BY <3>4, <4>2, <4>3 DEF Watched
        <3> QED
            BY <3>5, <3>6, <3>7
    <2> QED
        BY <2>1, <2>2
<1>10. sema' \in [Sets -> SetRec] /\ \A s \in Sets : Watched(s, sema[s], sema'[s], C)
    BY <1>6, <1>9, AllWatched
<1>11. UndoTypes'
    BY <1>5, UndoSame DEF SemInv
<1>12. DOMAIN wchan' = Procs /\ \A q \in Procs \ {p} : wchan'[q] = Woken(C)[q]
    BY <1>5, WokenDomain
<1>13. Wakes(p, C)
    BY <1>10, <1>11, <1>12 DEF Wakes
<1> QED
    BY <1>5, <1>13, ReturnTurns, TurnKept

-------------------------------------------------------------------------------
(* semexit                                                                 *)

\* The set s after the exit of p, and those that are woken up
ExitVal(s, p) == [sema[s] EXCEPT !.val = [n \in Nums |-> sema[s].val[n] + Adjusted(s, p)[n]]]
ExitMore(s, p) == {n \in Nums : Adjusted(s, p)[n] > 0}
ExitZero(s, p) == {n \in Nums : Adjusted(s, p)[n] # 0 /\ ExitVal(s, p).val[n] = 0}
ExitSet(s, p) ==
    [ExitVal(s, p) EXCEPT !.ncnt = [n \in Nums |-> IF n \in ExitMore(s, p) THEN 0 ELSE @[n]],
                          !.zcnt = [n \in Nums |-> IF n \in ExitZero(s, p) THEN 0 ELSE @[n]]]
ExitWakes(s, p) ==
    (UNION {WakesNcnt(sema[s], s, n, TRUE) : n \in ExitMore(s, p)}) \cup
    (UNION {WakesZcnt(ExitVal(s, p), s, n) : n \in ExitZero(s, p)})

\* An adjustment keeps the value in its range
LEMMA AdjustedOK ==
    ASSUME NEW s, NEW p, sema[s] \in SetRec, UndoOK(undo[p]), NEW n \in Nums
    PROVE  /\ Adjusted(s, p)[n] \in Int /\ sema[s].val[n] \in 0 .. SemVmx
           /\ sema[s].val[n] + Adjusted(s, p)[n] \in 0 .. SemVmx
<1>1. PICK e : e = [set |-> s, seq |-> sema[s].seq, num |-> n]
    OBVIOUS
<1>2. PICK aoe : aoe = IF sema[s].alloc /\ e \in DOMAIN undo[p].ent THEN undo[p].ent[e] ELSE 0
    OBVIOUS
<1>3. aoe \in Int
    BY <1>2 DEF UndoOK, EntOK
<1>4. sema[s].val[n] \in 0 .. SemVmx
    BY DEF SetRec
<1>5. Adjusted(s, p)[n] = IF sema[s].val[n] + aoe \in 0 .. SemVmx THEN aoe ELSE 0
    BY <1>1, <1>2 DEF Adjusted
<1> QED
    BY <1>3, <1>4, <1>5

LEMMA ExitOK ==
    ASSUME NEW s, NEW p, sema[s] \in SetRec, UndoOK(undo[p]), NEW C, ExitWakes(s, p) \subseteq C
    PROVE  ExitSet(s, p) \in SetRec /\ Watched(s, sema[s], ExitSet(s, p), C)
<1>1. PICK m, w, adj : m = sema[s] /\ w = ExitVal(s, p) /\ adj = Adjusted(s, p)
    OBVIOUS
<1>2. PICK more, zero : more = ExitMore(s, p) /\ zero = ExitZero(s, p)
    OBVIOUS
<1>3. /\ m.val \in [Nums -> 0 .. SemVmx] /\ m.ncnt \in [Nums -> Nat] /\ m.zcnt \in [Nums -> Nat]
      /\ m.alloc \in BOOLEAN /\ m.seq \in 0 .. SemMaxSeq
      /\ m = [alloc |-> m.alloc, seq |-> m.seq, val |-> m.val, ncnt |-> m.ncnt, zcnt |-> m.zcnt]
    BY <1>1 DEF SetRec
<1>4. \A n \in Nums : adj[n] \in Int /\ m.val[n] + adj[n] \in 0 .. SemVmx
    BY <1>1, AdjustedOK
<1>5. PICK val : val = [n \in Nums |-> m.val[n] + adj[n]]
    OBVIOUS
<1>6. val \in [Nums -> 0 .. SemVmx] /\ \A n \in Nums : val[n] = m.val[n] + adj[n]
    BY <1>4, <1>5
<1>7. w = [alloc |-> m.alloc, seq |-> m.seq, val |-> val, ncnt |-> m.ncnt, zcnt |-> m.zcnt]
    <2>1. w = [m EXCEPT !.val = val]
        BY <1>1, <1>5 DEF ExitVal
    <2> QED
        BY <1>3, <2>1
<1>8. PICK ncnt : ncnt = [n \in Nums |-> IF n \in more THEN 0 ELSE m.ncnt[n]]
    OBVIOUS
<1>9. PICK zcnt : zcnt = [n \in Nums |-> IF n \in zero THEN 0 ELSE m.zcnt[n]]
    OBVIOUS
<1>10. ncnt \in [Nums -> Nat] /\ zcnt \in [Nums -> Nat]
    BY <1>3, <1>8, <1>9
<1>11. PICK new : new = ExitSet(s, p)
    OBVIOUS
<1>12. new = [alloc |-> m.alloc, seq |-> m.seq, val |-> val, ncnt |-> ncnt, zcnt |-> zcnt]
    <2>1. new = [w EXCEPT !.ncnt = [n \in Nums |-> IF n \in more THEN 0 ELSE w.ncnt[n]],
                          !.zcnt = [n \in Nums |-> IF n \in zero THEN 0 ELSE w.zcnt[n]]]
        BY <1>1, <1>2, <1>11 DEF ExitSet
    <2>2. new = [w EXCEPT !.ncnt = ncnt, !.zcnt = zcnt]
        BY <1>7, <1>8, <1>9, <2>1
    <2> QED
        BY <1>7, <2>2
<1>13. new \in SetRec
    BY <1>3, <1>6, <1>10, <1>12 DEF SetRec
<1>14. ASSUME NEW n \in Nums, m.ncnt[n] > 0
       PROVE  Ncnt(s, n) \in C \/ (new.ncnt[n] > 0 /\ new.val[n] <= m.val[n])
    <2>1. CASE n \in more
        <3>1. Ncnt(s, n) \in WakesNcnt(m, s, n, TRUE)
            BY <1>3, <1>14 DEF WakesNcnt
        <3>2. Ncnt(s, n) \in ExitWakes(s, p)
            BY <1>1, <1>2, <2>1, <3>1 DEF ExitWakes
        <3> QED
            BY <3>2
    <2>2. CASE n \notin more
        <3>1. ~(adj[n] > 0)
            BY <1>1, <1>2, <2>2 DEF ExitMore
        <3>2. new.ncnt[n] = m.ncnt[n] /\ new.val[n] = m.val[n] + adj[n]
            BY <1>6, <1>8, <1>12, <2>2
        <3>3. m.val[n] \in Int /\ adj[n] \in Int
            BY <1>3, <1>4
        <3> QED
            BY <1>14, <3>1, <3>2, <3>3
    <2> QED
        BY <2>1, <2>2
<1>15. ASSUME NEW n \in Nums, m.zcnt[n] > 0
       PROVE  Zcnt(s, n) \in C \/ (new.zcnt[n] > 0 /\ (m.val[n] # 0 => new.val[n] # 0))
    <2>1. CASE n \in zero
        <3>1. w.val[n] = 0 /\ w.zcnt[n] # 0
            BY <1>1, <1>2, <1>3, <1>7, <1>15, <2>1 DEF ExitZero
        <3>2. Zcnt(s, n) \in WakesZcnt(w, s, n)
            BY <3>1 DEF WakesZcnt
        <3>3. Zcnt(s, n) \in ExitWakes(s, p)
            BY <1>1, <1>2, <2>1, <3>2 DEF ExitWakes
        <3> QED
            BY <3>3
    <2>2. CASE n \notin zero
        <3>1. adj[n] = 0 \/ val[n] # 0
            BY <1>1, <1>2, <1>7, <2>2 DEF ExitZero
        <3>2. new.zcnt[n] = m.zcnt[n] /\ new.val[n] = m.val[n] + adj[n] /\ new.val[n] = val[n]
            BY <1>6, <1>9, <1>12, <2>2
        <3>3. m.val[n] \in Int
            BY <1>3
        <3> QED
            BY <1>15, <3>1, <3>2, <3>3
    <2> QED
        BY <2>1, <2>2
<1> QED
    BY <1>1, <1>11, <1>13, <1>14, <1>15 DEF Watched

LEMMA SemExitKept == ASSUME SemInv, NEW p \in Procs, SemExit(p) PROVE SemInv'
<1>1. PICK C : C = UNION {ExitWakes(s, p) : s \in Sets}
    OBVIOUS
<1>2. /\ sema' = [s \in Sets |-> ExitSet(s, p)] /\ wchan' = Woken(C)
      /\ undo' = [undo EXCEPT ![p] = NoUndo] /\ semcall' = semcall /\ semat' = semat
    BY <1>1 DEF SemExit, Wakeup, ExitSet, ExitVal, ExitMore, ExitZero, ExitWakes
<1>3. \A s \in Sets : ExitSet(s, p) \in SetRec /\ Watched(s, sema[s], ExitSet(s, p), C)
    <2>1. UndoOK(undo[p]) /\ \A s \in Sets : sema[s] \in SetRec /\ ExitWakes(s, p) \subseteq C
        BY <1>1 DEF SemInv, UndoTypes
    <2> QED
        BY <2>1, ExitOK
<1>4. sema' \in [Sets -> SetRec] /\ \A s \in Sets : Watched(s, sema[s], sema'[s], C)
    BY <1>2, <1>3
<1>5. UndoTypes'
    BY <1>2, NoUndoOK, UndoSet DEF SemInv
<1> QED
    BY <1>2, <1>4, <1>5, CallKept

-------------------------------------------------------------------------------
(* The invariants                                                          *)

LEMMA SemNextKept == ASSUME SemInv, SemNext PROVE SemInv'
<1>1. ASSUME NEW p \in Procs, SemTurn(p) PROVE SemInv'
    BY <1>1, SemopKept, SemFailsKept, SemopAgainKept, SemInterruptKept, SetAllKept,
       SemIpcSetKept, SemExitKept DEF SemTurn
<1> QED
    BY <1>1, SemCallKept, SemGetKept, SemRmIdKept, SetValKept DEF SemNext

LEMMA SemStays == ASSUME SemInv, UNCHANGED <<semVars, wchan>> PROVE SemInv'
<1>1. /\ sema' = sema /\ undo' = undo /\ semcall' = semcall /\ semat' = semat /\ wchan' = wchan
    BY DEF semVars
<1>2. sema' \in [Sets -> SetRec] /\ \A s \in Sets : Watched(s, sema[s], sema'[s], {})
    BY <1>1, SemaSame DEF SemInv
<1>3. UndoTypes'
    BY <1>1, UndoSame DEF SemInv
<1>4. Moved({}, {})
    BY <1>1, <1>2, <1>3, WokenNone DEF Moved, Same, SemInv
<1> QED
    BY <1>4, InvKept

LEMMA SemInvHolds == SemSpec => []SemInv
<1>1. SemInv /\ [SemNext]_<<semVars, wchan>> => SemInv'
    BY SemNextKept, SemStays
<1> QED
    BY <1>1, SemInitOK, PTL DEF SemSpec

\* Values stay between 0 and semvmx and adjustments within semaem, whatever semop, semexit,
\* SETVAL and SETALL do: no entry is zero or without a structure, no process has more entries
\* than semume and no more than semmnu have a structure (semaoe, semop, semexit).
THEOREM SemTypeOKHolds == SemSpec => []SemTypeOK
<1>1. SemInv => SemTypeOK
    <2> SUFFICES ASSUME SemInv PROVE SemTypeOK
        OBVIOUS
    <2>1. sema \in [Sets -> SetRec] /\ semat \in [Procs -> SemAts]
        BY DEF SemInv
    <2>2. \A p \in Procs : UndoOK(undo[p])
        BY DEF SemInv, UndoTypes
    <2>3. Cardinality({p \in Procs : undo[p].held}) <= SemMnu
        BY DEF SemInv, UndoTypes, Holders
    <2> QED
        BY <2>1, <2>2, <2>3 DEF SemTypeOK, SetRec, SemAts, UndoOK, EntOK
<1> QED
    BY <1>1, SemInvHolds, PTL

\* No wakeup is lost: a process sleeps in semop only while its semaphore is counted as waited
\* for and the operation it stopped at cannot be done, although signals, SETVAL, SETALL,
\* IPC_RMID and the exits of others set counts that are not the numbers of the sleepers.
THEOREM SemopWaitsHolds == SemSpec => []SemopWaits
<1>1. SemInv => SemopWaits
    BY DEF SemInv, ProcOK, SemWaits, SemopWaits
<1> QED
    BY <1>1, SemInvHolds, PTL

-------------------------------------------------------------------------------
(* All of the operations or none                                           *)

\* What SemopAllOrNothing says of p
AllOrNone(p) ==
    semat[p] \in {"copy", "recopy"} /\ semcall[p].op = "semop" /\ semat'[p] # semat[p] =>
       \E k \in {0, 1} : \A n \in Nums :
          /\ sema'[S(p)].val[n] - sema[S(p)].val[n] = k * Sum(semcall[p].ops, n, FALSE)
          /\ \E e \in {Key(p, [num |-> n])} :
                Aoe(undo'[p], e) - Aoe(undo[p], e) = -k * Sum(semcall[p].ops, n, TRUE)

\* Nothing of p changes
LEMMA NoneChanged ==
    ASSUME SemInv, NEW p \in Procs, semat[p] \in {"copy", "recopy"}, semcall[p].op = "semop",
           SameVals(sema'[S(p)], sema[S(p)]), SameEnt(undo'[p], undo[p])
    PROVE  AllOrNone(p)
<1>1. PICK s, ops : s = S(p) /\ ops = semcall[p].ops
    OBVIOUS
<1>2. sema[s] \in SetRec /\ ops \in Seq(OpRec) /\ UndoOK(undo[p])
    <2>1. IsSemCall(semcall[p], semat[p]) /\ UndoOK(undo[p]) /\ sema \in [Sets -> SetRec]
        BY DEF SemInv, ProcOK, UndoTypes
    <2> QED
        BY <1>1, <2>1, SemAssumption DEF IsSemCall, S, OpRec
<1>3. ASSUME NEW n \in Nums
      PROVE  /\ sema'[s].val[n] - sema[s].val[n] = 0 * Sum(ops, n, FALSE)
             /\ \E e \in {Key(p, [num |-> n])} :
                   Aoe(undo'[p], e) - Aoe(undo[p], e) = -0 * Sum(ops, n, TRUE)
    <2>1. PICK e : e = Key(p, [num |-> n])
        OBVIOUS
    <2>2. PICK x, y : x = Sum(ops, n, FALSE) /\ y = Sum(ops, n, TRUE)
        OBVIOUS
    <2>3. x \in Int /\ y \in Int
        BY <1>2, <2>2, SumInt
    <2>4. sema[s].val[n] \in 0 .. SemVmx /\ sema'[s].val[n] = sema[s].val[n]
        BY <1>1, <1>2 DEF SetRec, SameVals
    <2>5. Aoe(undo[p], e) \in Int /\ Aoe(undo'[p], e) = Aoe(undo[p], e)
        <3>1. Aoe(undo[p], e) \in Int
            BY <1>2, AoeOK
        <3> QED
            BY <3>1 DEF Aoe, SameEnt
    <2>6. 0 * x = 0 /\ -0 * y = 0
        BY <2>3
    <2>7. sema'[s].val[n] - sema[s].val[n] = 0
        BY <2>4
    <2>8. Aoe(undo'[p], e) - Aoe(undo[p], e) = 0
        BY <2>5
    <2> QED
        BY <2>1, <2>2, <2>6, <2>7, <2>8
<1> QED
    BY <1>1, <1>3 DEF AllOrNone

LEMMA SemopAll == ASSUME SemInv, NEW p \in Procs, Semop(p) PROVE AllOrNone(p)
<1>1. PICK s, ops : s = S(p) /\ ops = semcall[p].ops
    OBVIOUS
<1>2. PICK acc : acc = Loop(p, ops)
    OBVIOUS
<1>3. /\ s \in Sets /\ ops \in Seq(OpRec) /\ sema[s] \in SetRec /\ UndoOK(undo[p])
      /\ SemopDone(p, acc) /\ semcall[p].op = "semop" /\ semat[p] \in {"copy", "recopy"}
    BY <1>1, <1>2, SemopIs
<1>4. AccOK(p, acc)
    BY <1>1, <1>2, <1>3, LoopIs
<1>5. sema'[s] = Counted(acc) /\ Counted(acc).val = acc.m.val
    BY <1>1, <1>3, <1>4, CountedOK DEF SemopDone, SemInv
<1>6. undo'[p] = acc.u
    BY <1>3 DEF SemopDone, SemInv, UndoTypes
<1>7. CASE acc.end = "no"
    <2>1. ASSUME NEW n \in Nums
          PROVE  /\ sema'[s].val[n] - sema[s].val[n] = 1 * Sum(ops, n, FALSE)
                 /\ \E e \in {Key(p, [num |-> n])} :
                       Aoe(undo'[p], e) - Aoe(undo[p], e) = -1 * Sum(ops, n, TRUE)
        <3>1. PICK e : e = Key(p, [num |-> n])
            OBVIOUS
        <3>2. PICK x, y : x = Sum(ops, n, FALSE) /\ y = Sum(ops, n, TRUE)
            OBVIOUS
        <3>3. /\ x \in Int /\ y \in Int /\ acc.m.val[n] = sema[s].val[n] + x
              /\ Aoe(acc.u, e) = Aoe(undo[p], e) - y
            <4>1. sema[S(p)] \in SetRec /\ UndoOK(undo[p]) /\ ops \in Seq(OpRec)
                BY <1>1, <1>3
            <4>2. /\ Sum(ops, n, FALSE) \in Int /\ Sum(ops, n, TRUE) \in Int
                  /\ acc.m.val[n] = sema[S(p)].val[n] + Sum(ops, n, FALSE)
                  /\ Aoe(acc.u, Key(p, [num |-> n])) =
                        Aoe(undo[p], Key(p, [num |-> n])) - Sum(ops, n, TRUE)
                BY Zenon, <1>2, <1>7, <4>1, LoopIs
            <4> QED
                BY <1>1, <3>1, <3>2, <4>2
        <3>4. sema[s].val[n] \in 0 .. SemVmx
            BY <1>3 DEF SetRec
        <3>5. sema'[s].val[n] - sema[s].val[n] = 1 * x
            BY <1>5, <3>3, <3>4
        <3>6. Aoe(undo[p], e) \in Int
            BY <1>3, AoeOK
        <3>7. Aoe(undo'[p], e) - Aoe(undo[p], e) = -1 * y
            BY <1>6, <3>3, <3>6
        <3> QED
            BY <3>1, <3>2, <3>5, <3>7
    <2> QED
        BY <1>1, <2>1 DEF AllOrNone
<1>8. CASE acc.end # "no"
    <2>1. SameVals(acc.m, sema[s]) /\ SameEnt(acc.u, undo[p])
        BY <1>1, <1>2, <1>3, <1>8, LoopIs
    <2>2. SameVals(sema'[S(p)], sema[S(p)]) /\ SameEnt(undo'[p], undo[p])
        BY <1>1, <1>5, <1>6, <2>1 DEF SameVals
    <2> QED
        BY <1>3, <2>2, NoneChanged
<1> QED
    BY <1>7, <1>8

LEMMA SemFailsNone ==
    ASSUME SemInv, NEW p \in Procs, SemFails(p), semcall[p].op = "semop"
    PROVE  AllOrNone(p)
<1>1. SameVals(sema'[S(p)], sema[S(p)]) /\ SameEnt(undo'[p], undo[p])
    BY DEF SemFails, SameVals, SameEnt
<1> QED
    BY <1>1, NoneChanged DEF SemFails

\* No other step ends the copy of a semop
LEMMA OthersStay ==
    ASSUME SemInv, NEW p \in Procs, SemNext, semat[p] \in {"copy", "recopy"},
           semcall[p].op = "semop", semat'[p] # semat[p]
    PROVE  Semop(p) \/ SemFails(p)
<1>0. semat \in [Procs -> SemAts]
    BY DEF SemInv
<1>1. ASSUME NEW q \in Procs, SemTurn(q) PROVE Semop(p) \/ SemFails(p)
    <2>1. CASE q = p
        <3>1. ~(SemopAgain(p) \/ SemInterrupt(p))
            BY DEF SemopAgain, SemInterrupt
        <3>2. ~(SetAll(p) \/ SemIpcSet(p) \/ SemExit(p))
            BY DEF SetAll, SemIpcSet, SemExit
        <3> QED
            BY <1>1, <2>1, <3>1, <3>2 DEF SemTurn
    <2>2. CASE q # p
        <3>1. ~SemExit(q)
            BY DEF SemExit
        <3>2. semat' = semat \/ \E now : semat' = [semat EXCEPT ![q] = now]
            BY <1>1, <3>1 DEF SemTurn, Semop, SemFails, SemopAgain, SemInterrupt, SetAll,
               SemIpcSet, SemReturn
        <3> QED
            BY <1>0, <2>2, <3>2
    <2> QED
        BY <2>1, <2>2
<1>2. ASSUME NEW q \in Procs, NEW c \in SemCalls, SemCall(q, c) PROVE FALSE
    BY <1>0, <1>2 DEF SemCall
<1>3. ASSUME NEW s \in Sets, SemGet(s) \/ SemRmId(s) PROVE FALSE
    BY <1>3 DEF SemGet, SemRmId
<1>4. ASSUME NEW s \in Sets, NEW n \in Nums, NEW v \in Values, SetVal(s, n, v) PROVE FALSE
    BY <1>4 DEF SetVal
<1> QED
    BY <1>1, <1>2, <1>3, <1>4 DEF SemNext

\* semop does all of its operations and makes all of their undo entries, or leaves the values
\* and the entries of the process as they were, whether it sleeps, returns an error or is not
\* done because an adjustment or a value would go out of its range (semop, semundo, semaoe).
THEOREM SemopAllOrNothingHolds == SemSpec => SemopAllOrNothing
<1>1. ASSUME SemInv, SemNext, NEW p \in Procs PROVE AllOrNone(p)
    <2>1. CASE ~(/\ semat[p] \in {"copy", "recopy"} /\ semcall[p].op = "semop"
                 /\ semat'[p] # semat[p])
        BY <2>1 DEF AllOrNone
    <2>2. CASE /\ semat[p] \in {"copy", "recopy"} /\ semcall[p].op = "semop"
               /\ semat'[p] # semat[p]
        BY <1>1, <2>2, OthersStay, SemopAll, SemFailsNone
    <2> QED
        BY <2>1, <2>2
<1>2. SemInv /\ [SemNext]_<<semVars, wchan>> => [\A p \in Procs : AllOrNone(p)]_semVars
    <2>1. SemInv /\ SemNext => \A p \in Procs : AllOrNone(p)
        BY <1>1
    <2> QED
        BY <2>1
<1>3. SemSpec => [][\A p \in Procs : AllOrNone(p)]_semVars
    BY <1>2, SemInvHolds, PTL DEF SemSpec
<1> QED
    BY <1>3 DEF SemopAllOrNothing, AllOrNone

-------------------------------------------------------------------------------
(* Messages: the pool of headers and segments                              *)

\* Messages D with their headers and texts M, n free headers and the free segments f
Pool(n, f, D, M) ==
    /\ IsFiniteSet(D) /\ n \in Nat /\ n + Cardinality(D) = Hdrs
    /\ \A x \in D : /\ M[x].size \in Nat /\ M[x].spot \in Int
                    /\ Text(M[x]) \cap f = {} /\ Text(M[x]) \subseteq 1 .. Segs
                    /\ \A y \in D \ {x} : Text(M[x]) \cap Text(M[y]) = {}
    /\ f \subseteq 1 .. Segs
    /\ \A s \in 1 .. Segs : s \in f \/ \E x \in D : s \in Text(M[x])

\* The messages go to other places
LEMMA PoolMoved ==
    ASSUME NEW n, NEW f, NEW D, NEW M, Pool(n, f, D, M),
           NEW E, NEW L, NEW g \in Bijection(E, D), \A x \in E : L[x] = M[g[x]]
    PROVE  Pool(n, f, E, L)
<1>1. /\ g \in [E -> D] /\ g \in Injection(E, D) /\ g \in Surjection(E, D)
      /\ \A x, y \in E : g[x] = g[y] => x = y
      /\ \A y \in D : \E x \in E : g[x] = y
    BY DEF Bijection, Injection, Surjection, IsInjective
<1>2. IsFiniteSet(E) /\ Cardinality(E) = Cardinality(D)
    BY <1>1, FS_Injection DEF Pool
<1>3. ASSUME NEW x \in E
      PROVE  /\ L[x].size \in Nat /\ L[x].spot \in Int
             /\ Text(L[x]) \cap f = {} /\ Text(L[x]) \subseteq 1 .. Segs
             /\ \A y \in E \ {x} : Text(L[x]) \cap Text(L[y]) = {}
    <2>1. g[x] \in D /\ L[x] = M[g[x]]
        BY <1>1
    <2>2. ASSUME NEW y \in E \ {x} PROVE Text(L[x]) \cap Text(L[y]) = {}
        <3>1. g[y] \in D \ {g[x]} /\ L[y] = M[g[y]]
            BY <1>1
        <3> QED
            BY <2>1, <3>1 DEF Pool
    <2> QED
        BY <2>1, <2>2 DEF Pool
<1>4. ASSUME NEW s \in 1 .. Segs, s \notin f PROVE \E x \in E : s \in Text(L[x])
    <2>1. PICK y \in D : s \in Text(M[y])
        BY <1>4 DEF Pool
    <2>2. PICK x \in E : g[x] = y
        BY <1>1
    <2> QED
        BY <2>1, <2>2
<1> QED
    BY <1>2, <1>3, <1>4 DEF Pool

\* Nothing happens to the messages
LEMMA PoolSame ==
    ASSUME NEW n, NEW f, NEW D, NEW M, Pool(n, f, D, M), NEW L, \A x \in D : L[x] = M[x]
    PROVE  Pool(n, f, D, L)
BY DEF Pool

\* A message is made of a free header and free segments
LEMMA PoolAdded ==
    ASSUME NEW n, NEW f, NEW D, NEW M, Pool(n, f, D, M), n > 0,
           NEW x, x \notin D, NEW L, \A y \in D : L[y] = M[y],
           L[x].size \in Nat, L[x].spot \in Int, Text(L[x]) \subseteq f
    PROVE  Pool(n - 1, f \ Text(L[x]), D \cup {x}, L)
<1>1. IsFiniteSet(D \cup {x}) /\ Cardinality(D \cup {x}) = Cardinality(D) + 1
      /\ Cardinality(D) \in Nat
    BY FS_AddElement, FS_CardinalityType DEF Pool
<1>2. n - 1 \in Nat /\ (n - 1) + Cardinality(D \cup {x}) = Hdrs
    BY <1>1 DEF Pool
<1> DEFINE h == f \ Text(L[x])
<1>3. ASSUME NEW y \in D
      PROVE  /\ L[y].size \in Nat /\ L[y].spot \in Int
             /\ Text(L[y]) \cap f = {} /\ Text(L[y]) \subseteq 1 .. Segs
             /\ Text(L[y]) \cap Text(L[x]) = {}
             /\ \A z \in D \ {y} : Text(L[y]) \cap Text(L[z]) = {}
    <2>1. L[y] = M[y] /\ Text(M[y]) \cap f = {}
        BY DEF Pool
    <2> QED
        BY <2>1 DEF Pool
<1>4. Text(L[x]) \subseteq 1 .. Segs /\ f \subseteq 1 .. Segs
    BY DEF Pool
<1>5. ASSUME NEW s \in 1 .. Segs, s \notin h PROVE \E y \in D \cup {x} : s \in Text(L[y])
    <2>1. CASE s \in f
        BY <1>5, <2>1
    <2>2. CASE s \notin f
        BY <2>2 DEF Pool
    <2> QED
        BY <2>1, <2>2
<1>6. ASSUME NEW y \in D \cup {x}
      PROVE  /\ L[y].size \in Nat /\ L[y].spot \in Int
             /\ Text(L[y]) \cap h = {} /\ Text(L[y]) \subseteq 1 .. Segs
             /\ \A z \in (D \cup {x}) \ {y} : Text(L[y]) \cap Text(L[z]) = {}
    <2>1. CASE y \in D
        BY <1>3, <2>1
    <2>2. CASE y = x
        BY <1>3, <1>4, <2>2
    <2> QED
        BY <2>1, <2>2
<1>7. h \subseteq 1 .. Segs
    BY <1>4
<1> HIDE DEF h
<1>8. Pool(n - 1, h, D \cup {x}, L)
    BY <1>1, <1>2, <1>5, <1>6, <1>7 DEF Pool
<1> QED
    BY <1>8 DEF h

\* Between two runs of free segments there is a message that ends where the second one
\* begins: there are no more runs than headers, and one less if a message is not counted
\* that touches no run.
LEMMA RunsBetween ==
    ASSUME NEW n, NEW f, NEW D, NEW M, Pool(n, f, D, M), NEW x \in D, M[x].size > 0,
           M[x].spot - 1 \notin f, M[x].spot + M[x].size \notin f
    PROVE  Cardinality(Runs(f)) < Hdrs
<1> DEFINE a == M[x].spot
           b == M[x].spot + M[x].size
           h == f \cup Text(M[x])
           R == Runs(f) \cup {a}
           E == D \ {x}
           EndsAt == {M[y].spot + M[y].size : y \in E}
<1>0. Segs \in Nat /\ Hdrs \in Nat
    BY MsgAssumption
<1>1. /\ a \in Int /\ b \in Int /\ a < b /\ Text(M[x]) = a .. b - 1
      /\ f \subseteq 1 .. Segs /\ a \notin f /\ a \in h /\ h \subseteq 1 .. Segs
      /\ M[x].size \in Nat
    <2>1. M[x].size \in Nat /\ M[x].spot \in Int /\ f \subseteq 1 .. Segs
          /\ Text(M[x]) \cap f = {} /\ Text(M[x]) \subseteq 1 .. Segs
        BY DEF Pool
    <2>2. Text(M[x]) = a .. b - 1
        BY <2>1 DEF Text, Extent
    <2>3. a \in Int /\ b \in Int /\ a < b
        BY <2>1
    <2>4. a \in Text(M[x])
        BY <2>2, <2>3
    <2> HIDE DEF a, b
    <2> QED
        BY <2>1, <2>2, <2>3, <2>4
<1>2. ASSUME NEW r \in R PROVE r \in Int /\ r \in h /\ r - 1 \notin h
    <2>1. CASE r = a
        BY <1>1, <2>1
    <2>2. CASE r \in Runs(f)
        <3>1. r \in f /\ r - 1 \notin f /\ r \in Int /\ r # b
            BY <1>0, <1>1, <2>2 DEF Runs
        <3>2. r \notin Text(M[x])
            BY <3>1 DEF Pool
        <3>3. r - 1 \notin Text(M[x])
            BY <1>1, <3>1, <3>2
        <3> QED
            BY <3>1, <3>3
    <2> QED
        BY <2>1, <2>2
<1>3. IsFiniteSet(Runs(f)) /\ a \notin Runs(f) /\ R \subseteq 1 .. Segs
    <2>1. Runs(f) \subseteq 1 .. Segs /\ a \notin Runs(f)
        BY <1>1 DEF Runs
    <2>2. IsFiniteSet(1 .. Segs)
        BY <1>0, FS_Interval
    <2>3. IsFiniteSet(Runs(f))
        BY <2>1, <2>2, FS_Subset
    <2> QED
        BY <1>1, <2>1, <2>3
<1>4. PICK m \in R : \A r \in R : m <= r
    <2>1. R \subseteq Nat /\ R # {}
        BY <1>0, <1>3
    <2> HIDE DEF R
    <2> QED
        BY <2>1, LeastNat
<1>5. ASSUME NEW r \in R \ {m} PROVE r \in EndsAt
    <2>1. r \in Int /\ r \in h /\ r - 1 \notin h /\ m \in 1 .. Segs /\ m < r /\ r \in 1 .. Segs
        BY <1>2, <1>3, <1>4
    <2>2. r - 1 \in 1 .. Segs /\ r - 1 \notin f
        BY <1>0, <2>1
    <2>3. PICK y \in D : r - 1 \in Text(M[y])
        BY <2>2 DEF Pool
    <2>4. y \in E
        BY <2>1, <2>3
    <2>5. r \notin Text(M[y])
        <3>1. CASE r \in f
            BY <3>1 DEF Pool
        <3>2. CASE r \in Text(M[x])
            BY <2>4, <3>2 DEF Pool
        <3> QED
            BY <2>1, <3>1, <3>2
    <2>6. M[y].size \in Nat /\ M[y].spot \in Int
        BY DEF Pool
    <2>7. r = M[y].spot + M[y].size
        BY <2>1, <2>3, <2>5, <2>6 DEF Text, Extent
    <2> QED
        BY <2>4, <2>7
<1>6. IsFiniteSet(E) /\ Cardinality(E) = Cardinality(D) - 1 /\ Cardinality(E) \in Nat
    BY FS_RemoveElement, FS_CardinalityType DEF Pool
<1>7. IsFiniteSet(EndsAt) /\ Cardinality(EndsAt) <= Cardinality(E)
    <2> DEFINE e == [y \in E |-> M[y].spot + M[y].size]
    <2>1. e \in Surjection(E, EndsAt)
        BY DEF Surjection
    <2> HIDE DEF e, E, EndsAt
    <2> QED
        BY <1>6, <2>1, FS_Surjection
<1>8. Cardinality(R \ {m}) <= Cardinality(EndsAt)
    <2>1. R \ {m} \in SUBSET EndsAt
        BY <1>5
    <2> HIDE DEF R, EndsAt
    <2> QED
        BY <1>7, <2>1, FS_Subset
<1>9. Cardinality(R \ {m}) = Cardinality(Runs(f))
    <2>1. IsFiniteSet(R) /\ Cardinality(R) = Cardinality(Runs(f)) + 1
        BY <1>3, FS_AddElement
    <2>2. Cardinality(Runs(f)) \in Nat
        BY <1>3, FS_CardinalityType
    <2>3. Cardinality(R \ {m}) = Cardinality(R) - 1
        <3> HIDE DEF R
        <3> QED
            BY <1>4, <2>1, FS_RemoveElement
    <2> QED
        BY <2>1, <2>2, <2>3
<1>10. /\ Cardinality(D) \in Nat /\ n \in Nat /\ n + Cardinality(D) = Hdrs
       /\ Cardinality(EndsAt) \in Nat /\ Cardinality(Runs(f)) \in Nat
    BY <1>3, <1>7, FS_CardinalityType DEF Pool
<1> HIDE DEF E, EndsAt, R
<1> QED
    BY <1>0, <1>6, <1>7, <1>8, <1>9, <1>10

\* A message is freed: as many entries as there are headers are enough for the map
LEMMA PoolFreed ==
    ASSUME MapSize >= Hdrs, NEW n, NEW f, NEW D, NEW M, Pool(n, f, D, M), NEW x \in D
    PROVE  Pool(n + 1, FreeText(f, M[x]), D \ {x}, M)
<1>0. Hdrs \in Nat /\ MapSize \in Nat
    BY MsgAssumption
<1>1. M[x].size \in Nat /\ M[x].spot \in Int
    BY DEF Pool
<1>2. FreeText(f, M[x]) = f \cup Text(M[x])
    <2>1. CASE M[x].size = 0
        <3>1. Text(M[x]) = {}
            BY <1>1, <2>1 DEF Text, Extent
        <3> QED
            BY <2>1, <3>1 DEF FreeText, Mfree
    <2>2. CASE M[x].size # 0
        <3>1. Cardinality(Runs(f)) \in Nat
            <4>1. Runs(f) \in SUBSET (1 .. Segs) /\ Segs \in Nat
                BY MsgAssumption DEF Pool, Runs
            <4>2. IsFiniteSet(1 .. Segs)
                BY <4>1, FS_Interval
            <4> QED
                BY <4>1, <4>2, FS_Subset, FS_CardinalityType
        <3>2. ~Overflow(f, MapSize, M[x].size, M[x].spot)
            <4> SUFFICES ASSUME Overflow(f, MapSize, M[x].size, M[x].spot) PROVE FALSE
                OBVIOUS
            <4>1. M[x].size > 0
                BY <1>1, <2>2
            <4>2. Cardinality(Runs(f)) < Hdrs
                BY <4>1, RunsBetween DEF Overflow
            <4>3. Cardinality(Runs(f)) >= MapSize
                BY DEF Overflow
            <4> QED
                BY <1>0, <3>1, <4>2, <4>3
        <3>3. ~(M[x].size <= 0)
            BY <1>1, <2>2
        <3> QED
            BY <3>2, <3>3 DEF FreeText, Mfree, Text
    <2> QED
        BY <2>1, <2>2
<1>3. IsFiniteSet(D \ {x}) /\ Cardinality(D \ {x}) = Cardinality(D) - 1 /\ Cardinality(D) \in Nat
    BY FS_RemoveElement, FS_CardinalityType DEF Pool
<1>4. n + 1 \in Nat /\ (n + 1) + Cardinality(D \ {x}) = Hdrs
    BY <1>0, <1>3 DEF Pool
<1> DEFINE h == f \cup Text(M[x])
<1>5. h \subseteq 1 .. Segs
    BY DEF Pool
<1>6. ASSUME NEW y \in D \ {x}
      PROVE  /\ M[y].size \in Nat /\ M[y].spot \in Int
             /\ Text(M[y]) \cap h = {} /\ Text(M[y]) \subseteq 1 .. Segs
             /\ \A z \in (D \ {x}) \ {y} : Text(M[y]) \cap Text(M[z]) = {}
    <2>1. Text(M[y]) \cap f = {} /\ Text(M[y]) \cap Text(M[x]) = {}
        BY DEF Pool
    <2> QED
        BY <2>1 DEF Pool
<1>7. ASSUME NEW s \in 1 .. Segs, s \notin h PROVE \E y \in D \ {x} : s \in Text(M[y])
    BY <1>7 DEF Pool
<1> HIDE DEF h
<1>8. Pool(n + 1, h, D \ {x}, M)
    BY <1>3, <1>4, <1>5, <1>6, <1>7 DEF Pool
<1> QED
    BY <1>2, <1>8 DEF h

\* The sum of the sizes of the messages on a queue
IsSizing(g, c) ==
    g = [U \in SUBSET DOMAIN c |-> IF U = {} THEN 0 ELSE g[U \ {Max(U)}] + c[Max(U)].size]

LEMMA SizesIs == ASSUME NEW c PROVE Sizes(c) = (CHOOSE g : IsSizing(g, c))[DOMAIN c]
BY Zenon DEF Sizes, FoldLeft, MapThenFoldSet, IsSizing

\* h is that sum message by message
IsSizes(h, c) ==
    h[0] = 0 /\ \A i \in 1 .. Len(c) : h[i] = h[i - 1] + c[i].size

LEMMA SizesTurns ==
    ASSUME NEW T, NEW c \in Seq(T)
    PROVE  \E h : IsSizes(h, c) /\ Sizes(c) = h[Len(c)]
<1>0. Len(c) \in Nat /\ DOMAIN c = 1 .. Len(c)
    OBVIOUS
<1>1. \A g : IsLoop(g, "size", 0, 0, c) <=> IsSizing(g, c)
    BY Zenon DEF IsLoop, IsSizing, LoopTurn, Left
<1>2. PICK g : g = (CHOOSE k : IsSizing(k, c))
    OBVIOUS
<1>3. IsLoop(g, "size", 0, 0, c)
    BY <1>0, <1>1, <1>2, LoopExists
<1>4. PICK h : IsTurns(h, "size", 0, 0, c) /\ g[DOMAIN c] = h[Len(c)]
    BY <1>3, Turns
<1>5. IsSizes(h, c)
    BY <1>4 DEF IsTurns, IsSizes, LoopTurn
<1> QED
    BY <1>2, <1>4, <1>5, SizesIs

\* msgfree of the messages of a queue
FreedTexts(m, c) == FoldLeft(FreeText, m, c)
IsFreeing(g, m, c) ==
    g = [U \in SUBSET DOMAIN c |->
            IF U = {} THEN m ELSE FreeText(g[U \ {Max(U)}], c[Max(U)])]

LEMMA FreedIs ==
    ASSUME NEW m, NEW c PROVE FreedTexts(m, c) = (CHOOSE g : IsFreeing(g, m, c))[DOMAIN c]
BY Zenon DEF FreedTexts, FoldLeft, MapThenFoldSet, IsFreeing

\* h is the pool message by message
IsFreed(h, m, c) ==
    h[0] = m /\ \A i \in 1 .. Len(c) : h[i] = FreeText(h[i - 1], c[i])

LEMMA FreedTurns ==
    ASSUME NEW m, NEW T, NEW c \in Seq(T)
    PROVE  \E h : IsFreed(h, m, c) /\ FreedTexts(m, c) = h[Len(c)]
<1>0. Len(c) \in Nat /\ DOMAIN c = 1 .. Len(c)
    OBVIOUS
<1>1. \A g : IsLoop(g, "free", 0, m, c) <=> IsFreeing(g, m, c)
    BY Zenon DEF IsLoop, IsFreeing, LoopTurn, Left
<1>2. PICK g : g = (CHOOSE k : IsFreeing(k, m, c))
    OBVIOUS
<1>3. IsLoop(g, "free", 0, m, c)
    BY <1>0, <1>1, <1>2, LoopExists
<1>4. PICK h : IsTurns(h, "free", 0, m, c) /\ g[DOMAIN c] = h[Len(c)]
    BY <1>3, Turns
<1>5. IsFreed(h, m, c)
    BY <1>4 DEF IsTurns, IsFreed, LoopTurn
<1> QED
    BY <1>2, <1>4, <1>5, FreedIs

\* The sum is a natural number at each message
LEMMA SizesNat ==
    ASSUME NEW c, IsChain(c), NEW h, IsSizes(h, c)
    PROVE  /\ Len(c) \in Nat /\ DOMAIN c = 1 .. Len(c)
           /\ \A i \in 0 .. Len(c) : h[i] \in Nat
<1>0. Len(c) \in Nat /\ DOMAIN c = 1 .. Len(c) /\ \A i \in 1 .. Len(c) : c[i].size \in Nat
    BY DEF IsChain
<1> DEFINE N == {i \in Nat : i <= Len(c) => h[i] \in Nat}
<1>1. 0 \in N
    BY DEF IsSizes
<1>2. ASSUME NEW i \in N PROVE i + 1 \in N
    <2>1. SUFFICES ASSUME i + 1 <= Len(c) PROVE h[i + 1] \in Nat
        OBVIOUS
    <2>2. i + 1 \in 1 .. Len(c) /\ (i + 1) - 1 = i /\ h[i] \in Nat
        BY <1>0, <2>1
    <2>3. h[i + 1] = h[i] + c[i + 1].size
        BY <2>2 DEF IsSizes
    <2> QED
        BY <1>0, <2>2, <2>3
<1>3. 0 .. Len(c) \subseteq N
    <2> HIDE DEF N
    <2> QED
        BY <1>0, <1>1, <1>2, InductionTo
<1> QED
    BY <1>0, <1>3

\* Lists that begin with the same sizes have the same sums there
LEMMA SizesAgree ==
    ASSUME NEW c, NEW d, NEW n \in Nat, n <= Len(c), n <= Len(d), Len(c) \in Nat, Len(d) \in Nat,
           \A i \in 1 .. n : c[i].size = d[i].size,
           NEW h, IsSizes(h, c), NEW k, IsSizes(k, d)
    PROVE  \A i \in 0 .. n : h[i] = k[i]
<1> DEFINE N == {i \in Nat : i <= n => h[i] = k[i]}
<1>1. 0 \in N
    BY DEF IsSizes
<1>2. ASSUME NEW i \in N PROVE i + 1 \in N
    <2>1. SUFFICES ASSUME i + 1 <= n PROVE h[i + 1] = k[i + 1]
        OBVIOUS
    <2>2. /\ i + 1 \in 1 .. Len(c) /\ i + 1 \in 1 .. Len(d) /\ i + 1 \in 1 .. n
          /\ (i + 1) - 1 = i /\ h[i] = k[i]
        BY <2>1
    <2>3. h[i + 1] = h[i] + c[i + 1].size /\ k[i + 1] = k[i] + d[i + 1].size
        BY <2>2 DEF IsSizes
    <2> QED
        BY <2>2, <2>3
<1>3. 0 .. n \subseteq N
    <2> HIDE DEF N
    <2> QED
        BY <1>1, <1>2, InductionTo
<1> QED
    BY <1>3

LEMMA SizesEmpty == Sizes(<<>>) = 0
<1>1. PICK h : IsSizes(h, <<>>) /\ Sizes(<<>>) = h[Len(<<>>)]
    <2>1. <<>> \in Seq({})
        OBVIOUS
    <2> QED
        BY <2>1, SizesTurns
<1> QED
    BY <1>1 DEF IsSizes

LEMMA SizesAppend ==
    ASSUME NEW c, IsChain(c), NEW x, x.size \in Nat
    PROVE  Sizes(Append(c, x)) = Sizes(c) + x.size
<1> DEFINE d == Append(c, x)
<1>1. IsChain(d)
    BY AppendIsChain
<1>2. PICK T : c \in Seq(T) /\ d \in Seq(T)
    <2>1. c \in Seq({c[i] : i \in DOMAIN c} \cup {x})
        BY DEF IsChain
    <2> QED
        BY <2>1
<1>3. /\ Len(c) \in Nat /\ Len(d) = Len(c) + 1 /\ d[Len(d)] = x
      /\ \A i \in 1 .. Len(c) : d[i] = c[i]
    BY <1>2
<1> HIDE DEF d
<1>4. PICK h : IsSizes(h, c) /\ Sizes(c) = h[Len(c)]
    BY <1>2, SizesTurns
<1>5. PICK k : IsSizes(k, d) /\ Sizes(d) = k[Len(d)]
    BY <1>2, SizesTurns
<1>6. k[Len(c)] = h[Len(c)]
    <2>1. \A i \in 0 .. Len(c) : h[i] = k[i]
        BY <1>3, <1>4, <1>5, SizesAgree
    <2> QED
        BY <1>3, <2>1
<1>7. k[Len(d)] = k[Len(c)] + x.size
    <2>1. Len(d) \in 1 .. Len(d) /\ Len(d) - 1 = Len(c)
        BY <1>3
    <2> QED
        BY <1>3, <1>5, <2>1 DEF IsSizes
<1> QED
    BY <1>4, <1>5, <1>6, <1>7 DEF d

\* What is on a list after RemoveAt
LEMMA RemoveIs ==
    ASSUME NEW c, IsChain(c), NEW i \in DOMAIN c
    PROVE  LET d == RemoveAt(c, i)
           IN  /\ i \in 1 .. Len(c) /\ Len(c) \in Nat /\ DOMAIN c = 1 .. Len(c)
               /\ Len(d) = Len(c) - 1 /\ DOMAIN d = 1 .. Len(d)
               /\ \A j \in 1 .. Len(d) : d[j] = IF j < i THEN c[j] ELSE c[j + 1]
<1> DEFINE T == {c[j] : j \in DOMAIN c}
           a == SubSeq(c, 1, i - 1)
           b == SubSeq(c, i + 1, Len(c))
<1>1. c \in Seq(T) /\ Len(c) \in Nat /\ DOMAIN c = 1 .. Len(c) /\ i \in 1 .. Len(c)
    BY DEF IsChain
<1>2. \A j \in 1 .. Len(c) : c[j] \in T
    BY <1>1
<1>3. /\ a \in Seq(T) /\ b \in Seq(T) /\ Len(a) = i - 1 /\ Len(b) = Len(c) - i
      /\ \A j \in 1 .. Len(a) : a[j] = c[j]
      /\ \A j \in 1 .. Len(b) : b[j] = c[i + j]
    <2> HIDE DEF T
    <2>1. a \in Seq(T) /\ Len(a) = i - 1 /\ \A j \in 1 .. Len(a) : a[j] = c[j]
        BY <1>1, <1>2, SubSeqProperties
    <2>2. b \in Seq(T) /\ Len(b) = Len(c) - i /\ \A j \in 1 .. Len(b) : b[j] = c[i + j]
        BY <1>1, <1>2, SubSeqProperties
    <2> QED
        BY <2>1, <2>2
<1>4. /\ a \o b \in Seq(T) /\ Len(a \o b) = Len(c) - 1
      /\ \A j \in 1 .. Len(a \o b) : (a \o b)[j] = IF j < i THEN c[j] ELSE c[j + 1]
    <2> HIDE DEF T, a, b
    <2>1. /\ a \o b \in Seq(T) /\ Len(a \o b) = Len(a) + Len(b)
          /\ \A j \in 1 .. Len(a) + Len(b) :
                (a \o b)[j] = IF j <= Len(a) THEN a[j] ELSE b[j - Len(a)]
        BY <1>3, ConcatProperties
    <2>2. ASSUME NEW j \in 1 .. Len(a) + Len(b)
          PROVE  (a \o b)[j] = IF j < i THEN c[j] ELSE c[j + 1]
        <3>1. CASE j < i
            <4>1. j \in 1 .. Len(a) /\ j <= Len(a)
                BY <1>1, <1>3, <3>1
            <4> QED
                BY <1>3, <2>1, <3>1, <4>1
        <3>2. CASE ~(j < i)
            <4>0. /\ i \in Nat /\ Len(a) = i - 1 /\ Len(a) \in Nat /\ Len(b) \in Nat
                  /\ j \in Nat /\ j <= Len(a) + Len(b)
                BY <1>1, <1>3
            <4>1. j - Len(a) \in 1 .. Len(b) /\ ~(j <= Len(a)) /\ i + (j - Len(a)) = j + 1
                BY <3>2, <4>0
            <4> QED
                BY <1>3, <2>1, <3>2, <4>1
        <3> QED
            BY <3>1, <3>2
    <2> QED
        BY <1>1, <1>3, <2>1, <2>2
<1>5. RemoveAt(c, i) = a \o b
    BY DEF RemoveAt
<1>6. DOMAIN (a \o b) = 1 .. Len(a \o b)
    <2> HIDE DEF T, a, b
    <2> QED
        BY <1>4, LenProperties
<1> HIDE DEF T, a, b
<1> QED
    BY <1>1, <1>4, <1>5, <1>6

LEMMA SizesRemove ==
    ASSUME NEW c, IsChain(c), NEW i \in DOMAIN c
    PROVE  Sizes(RemoveAt(c, i)) = Sizes(c) - c[i].size
<1> DEFINE d == RemoveAt(c, i)
<1>1. /\ i \in 1 .. Len(c) /\ Len(c) \in Nat /\ DOMAIN c = 1 .. Len(c) /\ Len(d) = Len(c) - 1
      /\ \A j \in 1 .. Len(d) : d[j] = IF j < i THEN c[j] ELSE c[j + 1]
    BY RemoveIs
<1>2. IsChain(d)
    BY RemoveLeaves
<1> HIDE DEF d
<1>3. PICK h : IsSizes(h, c) /\ Sizes(c) = h[Len(c)]
    BY SizesTurns DEF IsChain
<1>4. PICK k : IsSizes(k, d) /\ Sizes(d) = k[Len(d)]
    BY <1>2, SizesTurns DEF IsChain
<1>5. (\A j \in 0 .. Len(c) : h[j] \in Nat) /\ (\A j \in 0 .. Len(d) : k[j] \in Nat)
    BY <1>2, <1>3, <1>4, SizesNat
<1>s. c[i].size \in Nat
    BY DEF IsChain
<1>6. k[i - 1] = h[i - 1]
    <2>0. PICK n : n = i - 1
        OBVIOUS
    <2>1. n \in Nat /\ n <= Len(c) /\ n <= Len(d) /\ Len(c) \in Nat /\ Len(d) \in Nat
        BY <1>1, <2>0
    <2>2. \A j \in 1 .. n : c[j].size = d[j].size
        BY <1>1, <2>0
    <2>3. \A j \in 0 .. n : h[j] = k[j]
        BY <1>3, <1>4, <2>1, <2>2, SizesAgree
    <2> QED
        BY <2>0, <2>1, <2>3
<1>7. h[i] = h[i - 1] + c[i].size
    BY <1>1, <1>3 DEF IsSizes
<1> DEFINE N == {n \in Nat : i + n <= Len(c) => k[i + n - 1] = h[i + n] - c[i].size}
<1>8. 0 \in N
    <2>1. h[i - 1] \in Nat /\ i + 0 = i
        BY <1>1, <1>5
    <2> QED
        BY <1>6, <1>7, <1>s, <2>1
<1>9. ASSUME NEW n \in N PROVE n + 1 \in N
    <2>1. SUFFICES ASSUME i + (n + 1) <= Len(c)
                   PROVE  k[i + (n + 1) - 1] = h[i + (n + 1)] - c[i].size
        OBVIOUS
    <2>2. PICK j : j = i + n
        OBVIOUS
    <2>3. /\ j \in 1 .. Len(d) /\ j + 1 \in 1 .. Len(c) /\ (j + 1) - 1 = j /\ ~(j < i)
          /\ k[j - 1] = h[j] - c[i].size /\ i + (n + 1) = j + 1 /\ i + (n + 1) - 1 = j
        BY <1>1, <2>1, <2>2
    <2>4. k[j] = k[j - 1] + d[j].size /\ d[j] = c[j + 1]
        BY <1>1, <1>4, <2>3 DEF IsSizes
    <2>5. h[j + 1] = h[j] + c[j + 1].size
        BY <1>3, <2>3 DEF IsSizes
    <2>6. h[j] \in Nat /\ c[j + 1].size \in Nat
        <3>1. j \in 0 .. Len(c) /\ j + 1 \in DOMAIN c
            BY <1>1, <2>3
        <3> QED
            BY <1>5, <3>1 DEF IsChain
    <2>7. k[j] = (h[j] - c[i].size) + c[j + 1].size
        BY <2>3, <2>4
    <2>8. k[j] = h[j + 1] - c[i].size
        BY <1>s, <2>5, <2>6, <2>7
    <2> QED
        BY <2>3, <2>8
<1>10. Len(c) - i \in N
    <2>1. Len(c) - i \in Nat
        BY <1>1
    <2> HIDE DEF N
    <2>2. 0 .. (Len(c) - i) \subseteq N
        BY <1>8, <1>9, <2>1, InductionTo
    <2> QED
        BY <2>1, <2>2
<1>11. i + (Len(c) - i) = Len(c) /\ i + (Len(c) - i) - 1 = Len(d)
    BY <1>1
<1> QED
    BY <1>1, <1>3, <1>4, <1>10, <1>11 DEF d

\* The messages there are, by their places
Copies(p) == at[p] = "copy" /\ call[p].op = "snd"
Queued == {x \in Slots \X (Nat \ {0}) : x[2] \in DOMAIN que[x[1]].chain}
There == Queued \cup Copying
Message(x) == IF x[2] = 0 THEN held[x[1]] ELSE que[x[1]].chain[x[2]]
Messages == [x \in There |-> Message(x)]

\* What makes PoolConserved inductive
PoolInv == /\ Pool(msgfp, map, There, Messages)
           /\ \A q \in Slots : que[q].cbytes = Sizes(que[q].chain)

LEMMA ChainIs ==
    ASSUME Types, NEW q \in Slots
    PROVE  /\ IsChain(que[q].chain) /\ Len(que[q].chain) \in Nat
           /\ DOMAIN que[q].chain = 1 .. Len(que[q].chain)
<1>1. IsChain(que[q].chain)
    BY DEF Types, IsQueue
<1> QED
    BY <1>1 DEF IsChain

\* The place 0 is of a process that copies in, the others are those of the queues
LEMMA Places ==
    /\ \A p \in Procs : <<p, 0>> \in There <=> Copies(p)
    /\ \A q \in Slots, i \in Nat \ {0} : <<q, i>> \in There <=> i \in DOMAIN que[q].chain
    /\ \A x \in There : \/ \E p \in Procs : x = <<p, 0>> /\ Copies(p)
                        \/ \E q \in Slots, i \in Nat \ {0} :
                              x = <<q, i>> /\ i \in DOMAIN que[q].chain
BY DEF There, Queued, Copying, Copies

\* PoolConserved, of the texts of all messages
Conserves(texts) ==
    /\ msgfp + Cardinality(DOMAIN texts) = Hdrs
    /\ \A x \in DOMAIN texts :
          /\ texts[x] \cap map = {}
          /\ \A y \in (DOMAIN texts) \ {x} : texts[x] \cap texts[y] = {}
    /\ map \cup UNION {texts[x] : x \in DOMAIN texts} = 1 .. Segs
    /\ \A q \in Slots : que[q].cbytes = Sizes(que[q].chain)

\* PoolConserved speaks of the places up to the number of headers, and there are no others
LEMMA PoolInvConserves == ASSUME Types, PoolInv PROVE PoolConserved
<1>0. Hdrs \in Nat
    BY MsgAssumption
<1>1. ASSUME NEW q \in Slots PROVE Len(que[q].chain) <= Hdrs
    <2> DEFINE n == Len(que[q].chain)
               g == [i \in 1 .. n |-> <<q, i>>]
    <2>1. n \in Nat /\ DOMAIN que[q].chain = 1 .. n
        BY ChainIs
    <2>2. \A i \in 1 .. n : <<q, i>> \in There
        BY <2>1, Places
    <2>3. g \in Injection(1 .. n, There)
        BY <2>2 DEF Injection, IsInjective
    <2>4. Cardinality(1 .. n) = n
        BY <2>1, FS_Interval
    <2> HIDE DEF g
    <2>5. IsFiniteSet(There) /\ Cardinality(1 .. n) <= Cardinality(There)
        BY <2>3, FS_Injection DEF PoolInv, Pool
    <2>6. msgfp \in Nat /\ msgfp + Cardinality(There) = Hdrs /\ Cardinality(There) \in Nat
        BY <2>5, FS_CardinalityType DEF PoolInv, Pool
    <2> QED
        BY <1>0, <2>1, <2>4, <2>5, <2>6
<1>2. InQueues = Queued
    <2>1. ASSUME NEW q \in Slots, NEW i \in Nat \ {0}
          PROVE  i \in 1 .. Hdrs /\ i <= Len(que[q].chain) <=> i \in DOMAIN que[q].chain
        BY <1>0, <1>1, ChainIs
    <2> QED
        BY <1>0, <2>1 DEF InQueues, Queued
<1>3. InQueues \cup Copying = There
    BY <1>2 DEF There
<1> DEFINE texts == [x \in There |-> Text(Message(x))]
<1>4. DOMAIN texts = There /\ \A x \in There : texts[x] = Text(Messages[x])
    BY DEF Messages
<1>5. /\ msgfp + Cardinality(DOMAIN texts) = Hdrs
      /\ \A x \in DOMAIN texts : /\ texts[x] \cap map = {}
                                 /\ \A y \in (DOMAIN texts) \ {x} : texts[x] \cap texts[y] = {}
    BY <1>4 DEF PoolInv, Pool
<1>6. map \cup UNION {texts[x] : x \in DOMAIN texts} = 1 .. Segs
    <2>1. ASSUME NEW s \in 1 .. Segs PROVE s \in map \cup UNION {texts[x] : x \in DOMAIN texts}
        BY <1>4 DEF PoolInv, Pool
    <2>2. map \subseteq 1 .. Segs /\ \A x \in DOMAIN texts : texts[x] \subseteq 1 .. Segs
        BY <1>4 DEF PoolInv, Pool
    <2> HIDE DEF texts
    <2> QED
        BY <2>1, <2>2
<1>7. texts = [x \in InQueues \cup Copying |->
                  Text(IF x[2] = 0 THEN held[x[1]] ELSE que[x[1]].chain[x[2]])]
    BY <1>3 DEF Message
<1>8. \A q \in Slots : que[q].cbytes = Sizes(que[q].chain)
    BY DEF PoolInv
<1>9. Conserves(texts)
    <2> HIDE DEF texts
    <2> QED
        BY <1>5, <1>6, <1>8 DEF Conserves
<1> HIDE DEF texts
<1>10. Conserves([x \in InQueues \cup Copying |->
                     Text(IF x[2] = 0 THEN held[x[1]] ELSE que[x[1]].chain[x[2]])])
    BY <1>7, <1>9, Zenon
<1> QED
    BY <1>10, Zenon DEF PoolConserved, Conserves

\* A turn that makes and frees no message
LEMMA PoolStays ==
    ASSUME PoolInv, msgfp' = msgfp, map' = map,
           \A q \in Slots : que'[q].chain = que[q].chain /\ que'[q].cbytes = que[q].cbytes,
           \A p \in Procs : (Copies(p)' <=> Copies(p)) /\ (Copies(p) => held'[p] = held[p])
    PROVE  PoolInv'
<1>1. There' = There
    <2>1. Queued' = Queued
        BY DEF Queued
    <2>2. Copying' = Copying
        BY DEF Copying, Copies
    <2> QED
        BY <2>1, <2>2 DEF There
<1>2. \A x \in There : Messages'[x] = Messages[x]
    <2>1. ASSUME NEW x \in There PROVE Message(x)' = Message(x)
        BY Places DEF Message
    <2> QED
        BY <1>1, <2>1 DEF Messages
<1>3. Pool(msgfp, map, There, Messages')
    BY <1>2, PoolSame DEF PoolInv
<1> QED
    BY <1>1, <1>3 DEF PoolInv

\* What a call of p leaves as it is
Apart(p) == \A r \in Procs \ {p} : (Copies(r)' <=> Copies(r)) /\ held'[r] = held[r]

LEMMA ReturnApart ==
    ASSUME Types, NEW p \in Procs, Return(p)
    PROVE  Apart(p) /\ ~Copies(p)'
BY DEF Return, Types, Apart, Copies

\* Outside queue q and the copy of p all messages are where they were
LEMMA PlacesApart ==
    ASSUME NEW p \in Procs, NEW q \in Slots, Apart(p), \A s \in Slots \ {q} : que'[s] = que[s]
    PROVE  /\ \A r \in Procs \ {p} : <<r, 0>> \in There' <=> <<r, 0>> \in There
           /\ \A s \in Slots \ {q}, i \in Nat \ {0} : <<s, i>> \in There' <=> <<s, i>> \in There
           /\ \A x \in There : x # <<p, 0>> /\ (x[1] # q \/ x[2] = 0) =>
                 x \in There' /\ Message(x)' = Message(x)
<1>1. \A r \in Procs \ {p} : <<r, 0>> \in There' <=> <<r, 0>> \in There
    BY DEF There, Queued, Copying, Apart, Copies
<1>2. \A s \in Slots \ {q}, i \in Nat \ {0} : <<s, i>> \in There' <=> <<s, i>> \in There
    BY DEF There, Queued, Copying
<1>3. ASSUME NEW x \in There, x # <<p, 0>>, x[1] # q \/ x[2] = 0
      PROVE  x \in There' /\ Message(x)' = Message(x)
    <2>1. CASE \E r \in Procs : x = <<r, 0>>
        BY <1>1, <1>3, <2>1 DEF Message, Apart
    <2>2. CASE \E s \in Slots, i \in Nat \ {0} : x = <<s, i>>
        BY <1>2, <1>3, <2>2 DEF Message
    <2> QED
        BY <2>1, <2>2, Places
<1> QED
    BY <1>1, <1>2, <1>3

\* malloc gives segments that are free
LEMMA MallocFits ==
    ASSUME NEW f, f \subseteq 1 .. Segs, NEW n, Fits(f, n) # {}
    PROVE  Malloc(f, n) \in Fits(f, n)
<1>0. Segs \in Nat
    BY MsgAssumption
<1>1. Fits(f, n) \subseteq Nat
    <2>1. Fits(f, n) \subseteq f /\ 1 .. Segs \subseteq Nat
        BY <1>0 DEF Fits
    <2> QED
        BY <2>1
<1>2. PICK a \in Fits(f, n) : \A b \in Fits(f, n) : a <= b
    BY <1>1, LeastNat
<1> QED
    BY <1>2 DEF Malloc

\* A message x is made
LEMMA MessageMade ==
    ASSUME PoolInv, msgfp > 0, msgfp' = msgfp - 1,
           NEW x, x \notin There, There' = There \cup {x},
           \A y \in There : Message(y)' = Message(y),
           NEW m, Message(x)' = m, m.size \in Nat, m.spot \in Int,
           Text(m) \subseteq map, map' = map \ Text(m)
    PROVE  Pool(msgfp', map', There', Messages')
<1>1. Messages'[x] = m /\ \A y \in There : Messages'[y] = Messages[y]
    BY DEF Messages
<1> QED
    BY <1>1, PoolAdded DEF PoolInv

LEMMA SndTakePool ==
    ASSUME MsgInv, PoolInv, NEW p \in Procs, SndTake(p)
    PROVE  PoolInv'
<1> DEFINE n == call[p].size
           a == Malloc(map, n)
           q == Q(p)
           m == [type |-> call[p].type, size |-> n, spot |-> a]
<1>1. /\ at[p] # "copy" /\ q \in Slots /\ n \in Nat /\ call[p].op = "snd" /\ at[p] # "idle"
    <2>1. Ready(p)
        BY DEF SndTake, Sends, CanLock
    <2>2. at[p] # "idle" /\ at[p] # "copy"
        BY <2>1, ReadyAwake DEF Ready, Sleeps
    <2> QED
        BY <2>2, Slot DEF SndTake, Sends, IsCall
<1>2. a \in map /\ Extent(n, a) \subseteq map /\ map \subseteq 1 .. Segs
    <2>1. map \subseteq 1 .. Segs
        BY DEF PoolInv, Pool
    <2>2. a \in Fits(map, n)
        BY <2>1, MallocFits DEF SndTake
    <2> QED
        BY <2>1, <2>2 DEF Fits
<1>3. /\ at'[p] = "copy" /\ call' = call /\ held'[p] = m /\ Copies(p)' /\ ~Copies(p)
      /\ Apart(p)
    BY <1>1 DEF SndTake, MsgInv, Types, Copies, Apart
<1>4. \A s \in Slots : que'[s].chain = que[s].chain /\ que'[s].cbytes = que[s].cbytes
    BY <1>1 DEF SndTake, MsgInv, Types, IsQueue, Fields
<1>5. Queued' = Queued
    BY <1>4 DEF Queued
<1>6. There' = There \cup {<<p, 0>>} /\ <<p, 0>> \notin There
    <2>1. Copying' = Copying \cup {<<p, 0>>}
        BY <1>3 DEF Copying, Copies, Apart
    <2> QED
        BY <1>3, <1>5, <2>1, Places DEF There
<1>7. ASSUME NEW y \in There PROVE Message(y)' = Message(y)
    BY <1>3, <1>4, Places DEF Message, Apart
<1>8. m.size = n /\ m.spot = a /\ Text(m) = Extent(n, a)
    BY DEF Text
<1>9. Message(<<p, 0>>)' = m
    BY <1>3 DEF Message
<1>10. msgfp > 0 /\ msgfp' = msgfp - 1 /\ map' = map \ Text(m)
    BY <1>8 DEF SndTake
<1>11. a \in Int
    <2>1. 1 .. Segs \subseteq Int
        BY MsgAssumption
    <2> QED
        BY <1>2, <2>1
<1> HIDE DEF m, a, n
<1>12. Pool(msgfp', map', There', Messages')
    BY <1>1, <1>2, <1>6, <1>7, <1>8, <1>9, <1>10, <1>11, MessageMade
<1> QED
    BY <1>4, <1>12 DEF PoolInv

\* The end of queue q is a place of its own
LEMMA QueueEnd ==
    ASSUME MsgInv, NEW p \in Procs, Apart(p), ~Copies(p)',
           NEW q \in Slots, \A s \in Slots \ {q} : que'[s] = que[s],
           NEW m, m.size \in Nat, que'[q].chain = Append(que[q].chain, m),
           que'[q].cbytes = que[q].cbytes + m.size,
           NEW x, x = <<q, Len(que[q].chain) + 1>>
    PROVE  /\ There' = (There \ {<<p, 0>>}) \cup {x} /\ x \notin There
           /\ Message(x)' = m
           /\ \A y \in There \ {<<p, 0>>} : Message(y)' = Message(y)
           /\ PoolInv => \A s \in Slots : que'[s].cbytes = Sizes(que'[s].chain)
<1> DEFINE c == que[q].chain
<1>1. IsChain(c) /\ Len(c) \in Nat /\ DOMAIN c = 1 .. Len(c)
    BY ChainIs DEF MsgInv
<1>2. /\ DOMAIN que'[q].chain = 1 .. Len(c) + 1
      /\ que'[q].chain[Len(c) + 1] = m /\ \A i \in 1 .. Len(c) : que'[q].chain[i] = c[i]
    <2>1. PICK T : c \in Seq(T) /\ m \in T
        <3>1. c \in Seq({c[i] : i \in DOMAIN c} \cup {m})
            BY <1>1 DEF IsChain
        <3> QED
            BY <3>1
    <2> HIDE DEF c
    <2>2. /\ DOMAIN Append(c, m) = 1 .. Len(c) + 1 /\ Append(c, m)[Len(c) + 1] = m
          /\ \A i \in 1 .. Len(c) : Append(c, m)[i] = c[i]
        BY <1>1, <2>1
    <2> QED
        BY <2>2 DEF c
<1>3. Queued' = Queued \cup {x}
    <2>1. ASSUME NEW i \in Nat \ {0}
          PROVE  i \in DOMAIN que'[q].chain <=> i \in DOMAIN c \/ i = Len(c) + 1
        BY <1>1, <1>2
    <2>2. x[1] = q /\ x[2] = Len(c) + 1 /\ x \in Slots \X (Nat \ {0})
        BY <1>1
    <2>3. ASSUME NEW y \in Slots \X (Nat \ {0})
          PROVE  y[2] \in DOMAIN que'[y[1]].chain <=> y[2] \in DOMAIN que[y[1]].chain \/ y = x
        <3>1. PICK s \in Slots, i \in Nat \ {0} : y = <<s, i>>
            OBVIOUS
        <3>2. CASE s = q
            BY <2>1, <3>1, <3>2
        <3>3. CASE s # q
            BY <3>1, <3>3
        <3> QED
            BY <3>2, <3>3
    <2> QED
        BY <2>2, <2>3 DEF Queued
<1>4. Copying' = Copying \ {<<p, 0>>}
    BY DEF Copying, Copies, Apart
<1>5. Len(c) + 1 # 0 /\ ~(Len(c) + 1 \in DOMAIN c) /\ Len(c) + 1 \in Nat \ {0}
    BY <1>1
<1>6. There' = (There \ {<<p, 0>>}) \cup {x} /\ x \notin There
    <2>1. <<p, 0>> \notin Queued
        BY DEF Queued
    <2>2. x \notin There
        BY <1>5, Places
    <2> QED
        BY <1>3, <1>4, <2>1, <2>2 DEF There
<1>7. Message(x)' = m
    BY <1>2, <1>5 DEF Message
<1>8. ASSUME NEW y \in There \ {<<p, 0>>} PROVE Message(y)' = Message(y)
    <2>1. CASE \E r \in Procs : y = <<r, 0>>
        BY <2>1 DEF Message, Apart
    <2>2. CASE \E s \in Slots, i \in Nat \ {0} : y = <<s, i>> /\ i \in DOMAIN que[s].chain
        <3>1. PICK s \in Slots, i \in Nat \ {0} : y = <<s, i>> /\ i \in DOMAIN que[s].chain
            BY <2>2
        <3>2. que'[s].chain[i] = que[s].chain[i]
            BY <1>1, <1>2, <3>1
        <3>3. y[1] = s /\ y[2] = i /\ i # 0
            BY <3>1
        <3> QED
            BY <3>2, <3>3 DEF Message
    <2> QED
        BY <2>1, <2>2, Places
<1>9. ASSUME PoolInv, NEW s \in Slots PROVE que'[s].cbytes = Sizes(que'[s].chain)
    <2>1. CASE s = q
        <3>1. Sizes(Append(c, m)) = Sizes(c) + m.size
            BY <1>1, SizesAppend
        <3> QED
            BY <1>9, <2>1, <3>1 DEF PoolInv
    <2>2. CASE s # q
        BY <1>9, <2>2 DEF PoolInv
    <2> QED
        BY <2>1, <2>2
<1> QED
    BY <1>6, <1>7, <1>8, <1>9

LEMMA SndEmptyPool ==
    ASSUME MsgInv, PoolInv, NEW p \in Procs, SndEmpty(p)
    PROVE  PoolInv'
<1>q. PICK q : q = Q(p)
    OBVIOUS
<1>m. PICK m : m = [NoMsg EXCEPT !.type = call[p].type]
    OBVIOUS
<1>x. PICK x : x = <<q, Len(que[q].chain) + 1>>
    OBVIOUS
<1>1. q \in Slots /\ ~Copies(p) /\ Return(p)
    <2>1. Ready(p)
        BY DEF SndEmpty, Sends, CanLock
    <2>2. at[p] # "idle" /\ at[p] # "copy"
        BY <2>1, ReadyAwake DEF Ready, Sleeps
    <2> QED
        BY <1>q, <2>2, Slot DEF SndEmpty, Copies
<1>2. m.size = 0 /\ m.spot = 0 /\ Text(m) = {}
    BY <1>m DEF NoMsg, Text, Extent
<1>3. Apart(p) /\ ~Copies(p)'
    BY <1>1, ReturnApart DEF MsgInv
<1>4. /\ \A s \in Slots \ {q} : que'[s] = que[s]
      /\ que'[q].chain = Append(que[q].chain, m) /\ que'[q].cbytes = que[q].cbytes + m.size
    BY <1>1, <1>q, <1>m DEF SndEmpty, Append1, MsgInv, Types, IsQueue, Fields
<1>5. msgfp > 0 /\ msgfp' = msgfp - 1 /\ map' = map
    BY DEF SndEmpty
<1>6. <<p, 0>> \notin There
    BY <1>1, Places
<1>7. /\ There' = (There \ {<<p, 0>>}) \cup {x} /\ x \notin There
      /\ Message(x)' = m
      /\ \A y \in There \ {<<p, 0>>} : Message(y)' = Message(y)
      /\ \A s \in Slots : que'[s].cbytes = Sizes(que'[s].chain)
    <2>1. m.size \in Nat
        BY <1>2
    <2> QED
        BY <1>1, <1>3, <1>4, <1>x, <2>1, QueueEnd
<1>8. There' = There \cup {x} /\ \A y \in There : Message(y)' = Message(y)
    BY <1>6, <1>7
<1>9. map' = map \ Text(m) /\ Text(m) \subseteq map
    BY <1>2, <1>5
<1>10. m.size \in Nat /\ m.spot \in Int
    BY <1>2
<1>11. Pool(msgfp', map', There', Messages')
    <2>1. x \notin There /\ Message(x)' = m
        BY <1>7
    <2>2. msgfp > 0 /\ msgfp' = msgfp - 1
        BY <1>5
    <2> QED
        BY <1>8, <1>9, <1>10, <2>1, <2>2, MessageMade
<1> QED
    BY <1>7, <1>11 DEF PoolInv

LEMMA SndDonePool ==
    ASSUME MsgInv, CopyInv, PoolInv, NEW p \in Procs, SndDone(p)
    PROVE  PoolInv'
<1>q. PICK q : q = Q(p)
    OBVIOUS
<1>m. PICK m : m = held[p]
    OBVIOUS
<1>x. PICK x : x = <<q, Len(que[q].chain) + 1>>
    OBVIOUS
<1>1. q \in Slots /\ Copies(p) /\ Return(p) /\ m.size \in Nat
    BY <1>q, <1>m, Slot DEF SndDone, Copies, MsgInv, Types
<1>2. Apart(p) /\ ~Copies(p)'
    BY <1>1, ReturnApart DEF MsgInv
<1>3. /\ \A s \in Slots \ {q} : que'[s] = que[s]
      /\ que'[q].chain = Append(que[q].chain, m) /\ que'[q].cbytes = que[q].cbytes + m.size
    <2>1. IsQueue(que[q]) /\ que' = [que EXCEPT ![q] = Unlocked(Append1(que[q], m))]
          /\ DOMAIN que = Slots
        BY <1>1, <1>q, <1>m DEF SndDone, MsgInv, Types
    <2>2. IsQueue(Append1(que[q], m))
        BY <1>1, <2>1, Append1Queue
    <2>3. /\ Append1(que[q], m).chain = Append(que[q].chain, m)
          /\ Append1(que[q], m).cbytes = que[q].cbytes + m.size
        BY <2>1 DEF Append1, IsQueue, Fields
    <2>4. que'[q] = Unlocked(Append1(que[q], m))
        BY <1>1, <2>1
    <2> QED
        BY <2>1, <2>2, <2>3, <2>4, UnlockedQueue
<1>4. <<p, 0>> \in There
    BY <1>1, Places
<1>5. Message(<<p, 0>>) = m
    BY <1>m DEF Message
<1>6. /\ There' = (There \ {<<p, 0>>}) \cup {x} /\ x \notin There
      /\ Message(x)' = m
      /\ \A y \in There \ {<<p, 0>>} : Message(y)' = Message(y)
      /\ \A s \in Slots : que'[s].cbytes = Sizes(que'[s].chain)
    BY <1>1, <1>2, <1>3, <1>x, QueueEnd
<1> DEFINE g == [y \in There' |-> IF y = x THEN <<p, 0>> ELSE y]
<1>7. g \in Bijection(There', There)
    <2>1. g \in [There' -> There]
        BY <1>4, <1>6
    <2>2. ASSUME NEW y \in There', NEW z \in There', g[y] = g[z] PROVE y = z
        BY <1>6, <2>2
    <2>3. ASSUME NEW z \in There PROVE \E y \in There' : g[y] = z
        <3>1. CASE z = <<p, 0>>
            BY <1>6, <3>1
        <3>2. CASE z # <<p, 0>>
            BY <1>6, <3>2
        <3> QED
            BY <3>1, <3>2
    <2> HIDE DEF g
    <2> QED
        BY <2>1, <2>2, <2>3 DEF Bijection, Injection, Surjection, IsInjective
<1>8. ASSUME NEW y \in There' PROVE Messages'[y] = Messages[g[y]]
    <2>1. Messages'[y] = Message(y)'
        BY DEF Messages
    <2>2. CASE y = x
        <3>1. g[y] = <<p, 0>> /\ Messages[<<p, 0>>] = m
            BY <1>4, <1>5, <2>2 DEF Messages
        <3> QED
            BY <1>6, <2>1, <2>2, <3>1
    <2>3. CASE y # x
        <3>1. y \in There \ {<<p, 0>>} /\ g[y] = y
            BY <1>6, <2>3
        <3>2. Messages[y] = Message(y)
            BY <3>1 DEF Messages
        <3> QED
            BY <1>6, <2>1, <3>1, <3>2
    <2> QED
        BY <2>2, <2>3
<1>9. Pool(msgfp, map, There', Messages')
    <2> HIDE DEF g
    <2> QED
        BY <1>7, <1>8, PoolMoved DEF PoolInv
<1>10. msgfp' = msgfp /\ map' = map
    BY DEF SndDone, poolVars
<1> QED
    BY <1>6, <1>9, <1>10 DEF PoolInv

\* A copy fails: what was taken for the message is free again
LEMMA SndFaultPool ==
    ASSUME MapSize >= Hdrs, MsgInv, PoolInv, NEW p \in Procs, SndFault(p)
    PROVE  PoolInv'
<1>1. Q(p) \in Slots /\ Copies(p) /\ Return(p)
    BY Slot DEF SndFault, Copies
<1>2. Apart(p) /\ ~Copies(p)'
    BY <1>1, ReturnApart DEF MsgInv
<1>3. \A s \in Slots : que'[s].chain = que[s].chain /\ que'[s].cbytes = que[s].cbytes
    BY <1>1 DEF SndFault, Unlocked, MsgInv, Types, IsQueue, Fields
<1>4. There' = There \ {<<p, 0>>} /\ <<p, 0>> \in There
    <2>1. Queued' = Queued
        BY <1>3 DEF Queued
    <2>2. Copying' = Copying \ {<<p, 0>>}
        BY <1>2 DEF Copying, Copies, Apart
    <2>3. <<p, 0>> \notin Queued
        BY DEF Queued
    <2> QED
        BY <1>1, <2>1, <2>2, <2>3, Places DEF There
<1>5. \A y \in There' : Messages'[y] = Messages[y]
    <2>1. ASSUME NEW y \in There' PROVE Message(y)' = Message(y)
        BY <1>2, <1>3, <1>4, Places DEF Message, Apart
    <2> QED
        BY <1>4, <2>1 DEF Messages
<1>6. Messages[<<p, 0>>] = held[p]
    BY <1>4 DEF Messages, Message
<1>7. msgfp' = msgfp + 1 /\ map' = FreeText(map, held[p])
    BY DEF SndFault, Free
<1>8. Pool(msgfp', map', There', Messages)
    <2>1. Pool(msgfp + 1, FreeText(map, Messages[<<p, 0>>]), There \ {<<p, 0>>}, Messages)
        BY <1>4, PoolFreed DEF PoolInv
    <2> QED
        BY <1>4, <1>6, <1>7, <2>1
<1>9. Pool(msgfp', map', There', Messages')
    BY <1>5, <1>8, PoolSame
<1> QED
    BY <1>3, <1>9 DEF PoolInv

\* A message is taken off the queue and freed, and those behind it move up
LEMMA RcvDonePool ==
    ASSUME MapSize >= Hdrs, MsgInv, PoolInv, NEW p \in Procs, RcvDone(p)
    PROVE  PoolInv'
<1>q. PICK q : q = Q(p)
    OBVIOUS
<1>c. PICK c : c = que[q].chain
    OBVIOUS
<1>1. q \in Slots /\ ~Copies(p) /\ Return(p) /\ IsQueue(que[q])
    BY <1>q, Slot DEF RcvDone, Copies, MsgInv, Types
<1>2. Apart(p) /\ ~Copies(p)'
    BY <1>1, ReturnApart DEF MsgInv
<1>3. PICK i \in DOMAIN c : /\ c[i] = held[p]
                            /\ que' = [que EXCEPT ![q] = Unlocked(Removed(que[q], i))]
    BY <1>q, <1>c DEF RcvDone
<1>4. IsChain(c) /\ Len(c) \in Nat /\ DOMAIN c = 1 .. Len(c) /\ i \in Nat \ {0}
    <2>1. IsChain(c) /\ Len(c) \in Nat /\ DOMAIN c = 1 .. Len(c)
        BY <1>1, <1>c, ChainIs DEF MsgInv
    <2> QED
        BY <2>1
<1> DEFINE d == RemoveAt(c, i)
<1>5. /\ i \in 1 .. Len(c) /\ Len(d) = Len(c) - 1 /\ DOMAIN d = 1 .. Len(d)
      /\ \A j \in 1 .. Len(d) : d[j] = IF j < i THEN c[j] ELSE c[j + 1]
    BY <1>4, RemoveIs
<1>6. \A s \in Slots \ {q} : que'[s] = que[s]
    BY <1>3 DEF MsgInv, Types
<1>7. que'[q].chain = d /\ que'[q].cbytes = que[q].cbytes - c[i].size
    <2>1. que'[q] = Unlocked(Removed(que[q], i))
        BY <1>1, <1>3 DEF MsgInv, Types
    <2>2. /\ IsQueue(Removed(que[q], i)) /\ Removed(que[q], i).chain = d
          /\ Removed(que[q], i).cbytes = que[q].cbytes - c[i].size
        <3>1. IsQueue(Removed(que[q], i)) /\ Removed(que[q], i).chain = d
            BY <1>1, <1>c, RemovedQueue
        <3>2. Removed(que[q], i).cbytes = que[q].cbytes - c[i].size
            BY <1>1, <1>c DEF Removed, IsQueue, Fields
        <3> QED
            BY <3>1, <3>2
    <2> QED
        BY <2>1, <2>2, UnlockedQueue
<1>8. ASSUME NEW s \in Slots PROVE que'[s].cbytes = Sizes(que'[s].chain)
    <2>1. Sizes(d) = Sizes(c) - c[i].size
        BY <1>4, SizesRemove
    <2>2. que[s].cbytes = Sizes(que[s].chain)
        BY DEF PoolInv
    <2>3. CASE s = q
        BY <1>7, <1>c, <2>1, <2>2, <2>3
    <2>4. CASE s # q
        BY <1>6, <2>2, <2>4
    <2> QED
        BY <2>3, <2>4
<1> HIDE DEF d
<1>x. PICK x : x = <<q, i>>
    OBVIOUS
<1>9. x \in There /\ Messages[x] = held[p]
    <2>1. x \in There
        BY <1>1, <1>4, <1>c, <1>x, Places
    <2> QED
        BY <1>3, <1>4, <1>c, <1>x, <2>1 DEF Messages, Message
<1>10. msgfp' = msgfp + 1 /\ map' = FreeText(map, held[p])
    BY DEF RcvDone, Free
<1>11. Pool(msgfp', map', There \ {x}, Messages)
    <2>1. Pool(msgfp + 1, FreeText(map, Messages[x]), There \ {x}, Messages)
        BY <1>9, PoolFreed DEF PoolInv
    <2> QED
        BY <1>9, <1>10, <2>1
<1> DEFINE Up(y) == IF y[1] = q /\ y[2] >= i THEN <<q, y[2] + 1>> ELSE y
\* The places there are now, and what was behind them
<1>12. /\ \A r \in Procs : <<r, 0>> \in There' <=> <<r, 0>> \in There
       /\ \A s \in Slots \ {q}, j \in Nat \ {0} : <<s, j>> \in There' <=> <<s, j>> \in There
       /\ \A j \in Nat \ {0} : <<q, j>> \in There' <=> j \in 1 .. Len(d)
       /\ \A j \in Nat \ {0} : <<q, j>> \in There <=> j \in 1 .. Len(c)
    <2>1. \A r \in Procs : <<r, 0>> \in There' <=> <<r, 0>> \in There
        BY <1>1, <1>2 DEF There, Queued, Copying, Apart, Copies
    <2>2. \A s \in Slots, j \in Nat \ {0} :
              /\ <<s, j>> \in There' <=> j \in DOMAIN que'[s].chain
              /\ <<s, j>> \in There <=> j \in DOMAIN que[s].chain
        BY DEF There, Queued, Copying
    <2>3. DOMAIN que'[q].chain = 1 .. Len(d) /\ DOMAIN que[q].chain = 1 .. Len(c)
        BY <1>4, <1>5, <1>7, <1>c
    <2> QED
        BY <1>1, <1>6, <2>1, <2>2, <2>3
<1>13. ASSUME NEW y \in There'
       PROVE  \/ \E r \in Procs : y = <<r, 0>>
              \/ \E s \in Slots, j \in Nat \ {0} : y = <<s, j>>
    BY DEF There, Queued, Copying
<1>14. ASSUME NEW y \in There'
       PROVE  Up(y) \in There \ {x} /\ Message(y)' = Message(Up(y))
    <2>1. CASE \E r \in Procs : y = <<r, 0>>
        <3>1. PICK r \in Procs : y = <<r, 0>>
            BY <2>1
        <3>2. Up(y) = y /\ y # x
            BY <1>4, <1>x, <3>1
        <3>3. y \in There
            BY <1>12, <3>1
        <3>4. held'[r] = held[r]
            <4>1. r # p
                BY <1>1, <1>12, <3>1, <3>3, Places
            <4> QED
                BY <1>2, <4>1 DEF Apart
        <3> QED
            BY <3>1, <3>2, <3>3, <3>4 DEF Message
    <2>2. CASE \E s \in Slots, j \in Nat \ {0} : y = <<s, j>>
        <3>1. PICK s \in Slots, j \in Nat \ {0} : y = <<s, j>>
            BY <2>2
        <3>2. y[1] = s /\ y[2] = j /\ j # 0 /\ j + 1 # 0 /\ j + 1 \in Nat \ {0}
            BY <3>1
        <3>3. Message(y)' = que'[s].chain[j]
            BY <3>2 DEF Message
        <3>4. CASE s # q
            <4>1. Up(y) = y /\ y # x /\ y \in There
                BY <1>12, <1>x, <3>1, <3>2, <3>4
            <4> QED
                BY <1>6, <3>2, <3>3, <3>4, <4>1 DEF Message
        <3>5. CASE s = q
            <4>1. j \in 1 .. Len(d) /\ d[j] = IF j < i THEN c[j] ELSE c[j + 1]
                BY <1>5, <1>12, <3>1, <3>5
            <4>2. CASE j < i
                <5>1. ~(j >= i) /\ j # i /\ j \in 1 .. Len(c)
                    BY <1>4, <1>5, <4>1, <4>2
                <5>2. Up(y) = y /\ y # x /\ y \in There
                    BY <1>12, <1>x, <3>1, <3>2, <3>5, <5>1
                <5> QED
                    BY <1>7, <1>c, <3>2, <3>3, <3>5, <4>1, <4>2, <5>2 DEF Message
            <4>3. CASE ~(j < i)
                <5>1. j >= i /\ j + 1 # i /\ j + 1 \in 1 .. Len(c)
                    BY <1>4, <1>5, <4>1, <4>3
                <5>2. Up(y) = <<q, j + 1>>
                    BY <3>2, <3>5, <5>1
                <5>3. <<q, j + 1>> \in There /\ <<q, j + 1>> # x
                    BY <1>12, <1>x, <3>2, <5>1
                <5>4. Message(<<q, j + 1>>) = c[j + 1]
                    BY <1>c, <3>2 DEF Message
                <5> QED
                    BY <1>7, <3>3, <3>5, <4>1, <4>3, <5>2, <5>3, <5>4
            <4> QED
                BY <4>2, <4>3
        <3> QED
            BY <3>4, <3>5
    <2> QED
        BY <1>13, <2>1, <2>2
<1>15. ASSUME NEW y \in There', NEW z \in There', Up(y) = Up(z) PROVE y = z
    <2>1. ASSUME NEW u \in There' PROVE u = <<u[1], u[2]>> /\ u[2] \in Nat
        BY <1>13
    <2>2. y = <<y[1], y[2]>> /\ y[2] \in Nat /\ z = <<z[1], z[2]>> /\ z[2] \in Nat
        BY <2>1
    <2>3. Up(y)[1] = y[1] /\ Up(z)[1] = z[1]
        BY <2>2
    <2>4. /\ Up(y)[2] = IF y[1] = q /\ y[2] >= i THEN y[2] + 1 ELSE y[2]
          /\ Up(z)[2] = IF z[1] = q /\ z[2] >= i THEN z[2] + 1 ELSE z[2]
        BY <2>2
    <2> HIDE DEF Up
    <2>5. y[2] = z[2]
        BY <1>4, <1>15, <2>2, <2>3, <2>4
    <2> QED
        BY <1>15, <2>2, <2>3, <2>5
<1>16. ASSUME NEW z \in There \ {x} PROVE \E y \in There' : Up(y) = z
    <2>1. CASE \E r \in Procs : z = <<r, 0>>
        <3>1. PICK r \in Procs : z = <<r, 0>>
            BY <2>1
        <3>2. z \in There' /\ Up(z) = z
            BY <1>4, <1>12, <3>1
        <3> QED
            BY <3>2
    <2>2. CASE \E s \in Slots, j \in Nat \ {0} : z = <<s, j>>
        <3>1. PICK s \in Slots, j \in Nat \ {0} : z = <<s, j>>
            BY <2>2
        <3>2. z[1] = s /\ z[2] = j
            BY <3>1
        <3>3. CASE s # q
            <4>1. z \in There' /\ Up(z) = z
                BY <1>12, <3>1, <3>2, <3>3
            <4> QED
                BY <4>1
        <3>4. CASE s = q /\ j < i
            <4>1. j \in 1 .. Len(d) /\ ~(j >= i)
                BY <1>4, <1>5, <3>1, <3>4
            <4>2. z \in There' /\ Up(z) = z
                BY <1>12, <3>1, <3>2, <3>4, <4>1
            <4> QED
                BY <4>2
        <3>5. CASE s = q /\ ~(j < i)
            <4>1. j # i /\ j \in 1 .. Len(c)
                BY <1>12, <1>x, <3>1, <3>5
            <4>2. PICK k \in Nat \ {0} : k = j - 1
                BY <1>4, <3>5, <4>1
            <4>3. k \in 1 .. Len(d) /\ k >= i /\ k + 1 = j
                BY <1>4, <1>5, <3>5, <4>1, <4>2
            <4>4. <<q, k>> \in There' /\ Up(<<q, k>>) = z
                BY <1>12, <3>1, <3>5, <4>3
            <4> QED
                BY <4>4
        <3> QED
            BY <3>3, <3>4, <3>5
    <2> QED
        BY <2>1, <2>2, Places
<1> DEFINE g == [y \in There' |-> Up(y)]
<1>17. g \in Bijection(There', There \ {x})
    <2>1. \A y \in There' : g[y] = Up(y)
        OBVIOUS
    <2>2. g \in [There' -> There \ {x}]
        BY <1>14
    <2> HIDE DEF g, Up
    <2>3. \A y, z \in There' : g[y] = g[z] => y = z
        BY <1>15, <2>1
    <2>4. \A z \in There \ {x} : \E y \in There' : g[y] = z
        BY <1>16, <2>1
    <2> QED
        BY <2>2, <2>3, <2>4 DEF Bijection, Injection, Surjection, IsInjective
<1>18. ASSUME NEW y \in There' PROVE Messages'[y] = Messages[g[y]]
    <2>1. Messages'[y] = Message(y)' /\ g[y] = Up(y)
        BY DEF Messages
    <2>2. Up(y) \in There /\ Message(y)' = Message(Up(y))
        BY <1>14
    <2> HIDE DEF g, Up
    <2>3. Messages[Up(y)] = Message(Up(y))
        BY <2>2 DEF Messages
    <2> QED
        BY <2>1, <2>2, <2>3
<1>19. Pool(msgfp', map', There', Messages')
    <2> HIDE DEF g
    <2> QED
        BY <1>11, <1>17, <1>18, PoolMoved
<1> QED
    BY <1>8, <1>19 DEF PoolInv

\* IPC_RMID frees the messages of the queue one by one
LEMMA RmIdPool ==
    ASSUME MapSize >= Hdrs, MsgInv, PoolInv, NEW p \in Procs, RmId(p)
    PROVE  PoolInv'
<1>q. PICK q : q = Q(p)
    OBVIOUS
<1>c. PICK c : c = que[q].chain
    OBVIOUS
<1>1. q \in Slots /\ ~Copies(p) /\ Return(p)
    <2>1. Ready(p)
        BY DEF RmId, CanLock
    <2>2. at[p] # "idle" /\ at[p] # "copy"
        BY <2>1, ReadyAwake DEF Ready, Sleeps
    <2> QED
        BY <1>q, <2>2, Slot DEF RmId, Copies
<1>2. Apart(p) /\ ~Copies(p)'
    BY <1>1, ReturnApart DEF MsgInv
<1>3. IsChain(c) /\ Len(c) \in Nat /\ DOMAIN c = 1 .. Len(c)
    BY <1>1, <1>c, ChainIs DEF MsgInv
<1>4. /\ \A s \in Slots \ {q} : que'[s] = que[s]
      /\ que'[q].chain = <<>> /\ que'[q].cbytes = 0
    BY <1>1, <1>q DEF RmId, NewQueue, MsgInv, Types
<1>5. msgfp' = msgfp + Len(c) /\ map' = FreedTexts(map, c)
    BY <1>q, <1>c DEF RmId, Free, FreedTexts
<1>6. PICK h : IsFreed(h, map, c) /\ FreedTexts(map, c) = h[Len(c)]
    BY <1>3, FreedTurns DEF IsChain
<1>7. \A j \in 1 .. Len(c) : <<q, j>> \in There /\ Messages[<<q, j>>] = c[j]
    <2>1. ASSUME NEW j \in 1 .. Len(c) PROVE <<q, j>> \in There /\ Message(<<q, j>>) = c[j]
        BY <1>1, <1>3, <1>c, Places DEF Message
    <2> QED
        BY <2>1 DEF Messages
<1> DEFINE Freed(j) == {<<q, i>> : i \in 1 .. j}
           N == {j \in Nat : j <= Len(c) => Pool(msgfp + j, h[j], There \ Freed(j), Messages)}
<1>8. 0 \in N
    <2>1. Freed(0) = {} /\ There \ {} = There
        OBVIOUS
    <2>2. msgfp + 0 = msgfp
        BY DEF PoolInv, Pool
    <2>3. h[0] = map
        BY <1>6 DEF IsFreed
    <2>4. Pool(msgfp, map, There, Messages)
        BY DEF PoolInv
    <2> HIDE DEF Freed
    <2>5. Pool(msgfp + 0, h[0], There \ Freed(0), Messages)
        BY <2>1, <2>2, <2>3, <2>4
    <2> QED
        BY <2>5
<1>9. ASSUME NEW j \in N PROVE j + 1 \in N
    <2>1. SUFFICES ASSUME j + 1 <= Len(c)
                   PROVE  Pool(msgfp + (j + 1), h[j + 1], There \ Freed(j + 1), Messages)
        OBVIOUS
    <2>2. PICK k : k = j + 1
        OBVIOUS
    <2>3. j \in Nat /\ k \in 1 .. Len(c) /\ k - 1 = j /\ j <= Len(c)
        BY <1>3, <2>1, <2>2
    <2>4. Pool(msgfp + j, h[j], There \ Freed(j), Messages)
        BY <2>3
    <2>5. h[k] = FreeText(h[j], c[k])
        BY <1>6, <2>3 DEF IsFreed
    <2>6. /\ <<q, k>> \in There \ Freed(j)
          /\ There \ Freed(k) = (There \ Freed(j)) \ {<<q, k>>}
        <3>1. Freed(k) = Freed(j) \cup {<<q, k>>}
            <4>1. 1 .. k = (1 .. j) \cup {k}
                BY <1>3, <2>3
            <4> QED
                BY <4>1
        <3>2. <<q, k>> \notin Freed(j)
            BY <2>3
        <3> HIDE DEF Freed
        <3> QED
            BY <1>7, <2>3, <3>1, <3>2
    <2>7. Pool((msgfp + j) + 1, FreeText(h[j], Messages[<<q, k>>]),
               (There \ Freed(j)) \ {<<q, k>>}, Messages)
        <3> HIDE DEF Freed
        <3> QED
            BY <2>4, <2>6, PoolFreed
    <2>8. (msgfp + j) + 1 = msgfp + k
        <3>1. msgfp \in Nat
            BY DEF PoolInv, Pool
        <3> QED
            BY <2>2, <2>3, <3>1
    <2>9. Messages[<<q, k>>] = c[k]
        BY <1>7, <2>3
    <2> HIDE DEF Freed
    <2> QED
        BY <2>2, <2>5, <2>6, <2>7, <2>8, <2>9
<1>10. Pool(msgfp', map', There \ Freed(Len(c)), Messages)
    <2> HIDE DEF N
    <2>1. 0 .. Len(c) \subseteq N
        BY <1>3, <1>8, <1>9, InductionTo
    <2>2. Len(c) \in N /\ Len(c) <= Len(c)
        BY <1>3, <2>1
    <2> QED
        BY <1>5, <1>6, <2>2 DEF N
<1>11. There' = There \ Freed(Len(c))
    <2>1. Copying' = Copying
        BY <1>1, <1>2 DEF Copying, Copies, Apart
    <2>2. \A x \in Freed(Len(c)) : x \notin Copying
        BY <1>3 DEF Copying
    <2>3. Queued' = Queued \ Freed(Len(c))
        <3>1. ASSUME NEW s \in Slots, NEW i \in Nat \ {0}
              PROVE  i \in DOMAIN que'[s].chain <=>
                         i \in DOMAIN que[s].chain /\ <<s, i>> \notin Freed(Len(c))
            <4>1. CASE s = q
                BY <1>3, <1>4, <1>c, <4>1
            <4>2. CASE s # q
                BY <1>4, <4>2
            <4> QED
                BY <4>1, <4>2
        <3> HIDE DEF Freed
        <3> QED
            BY <3>1 DEF Queued
    <2> HIDE DEF Freed
    <2> QED
        BY <2>1, <2>2, <2>3 DEF There
<1>12. \A y \in There' : Messages'[y] = Messages[y]
    <2>1. ASSUME NEW y \in There' PROVE y \in There /\ Message(y)' = Message(y)
        <3>1. y \in There /\ y \notin Freed(Len(c))
            BY <1>11
        <3>2. CASE \E r \in Procs : y = <<r, 0>> /\ Copies(r)
            BY <1>1, <1>2, <3>1, <3>2 DEF Message, Apart
        <3>3. CASE \E s \in Slots, i \in Nat \ {0} : y = <<s, i>> /\ i \in DOMAIN que[s].chain
            <4>1. PICK s \in Slots, i \in Nat \ {0} : y = <<s, i>> /\ i \in DOMAIN que[s].chain
                BY <3>3
            <4>2. s # q
                BY <1>3, <1>c, <3>1, <4>1
            <4> QED
                BY <1>4, <3>1, <4>1, <4>2 DEF Message
        <3> QED
            BY <3>1, <3>2, <3>3, Places
    <2> QED
        BY <2>1 DEF Messages
<1>13. Pool(msgfp', map', There', Messages')
    <2> HIDE DEF Freed
    <2> QED
        BY <1>10, <1>11, <1>12, PoolSame
<1>14. ASSUME NEW s \in Slots PROVE que'[s].cbytes = Sizes(que'[s].chain)
    <2>1. CASE s = q
        BY <1>4, <2>1, SizesEmpty
    <2>2. CASE s # q
        BY <1>4, <2>2 DEF PoolInv
    <2> QED
        BY <2>1, <2>2
<1> QED
    BY <1>13, <1>14 DEF PoolInv

\* A turn before the copy, or one that takes and frees nothing
LEMMA TurnPool ==
    ASSUME MsgInv, PoolInv, NEW p \in Procs, UNCHANGED poolVars, ~Copies(p), ~Copies(p)',
           Apart(p),
           \A s \in Slots : que'[s].chain = que[s].chain /\ que'[s].cbytes = que[s].cbytes
    PROVE  PoolInv'
BY PoolStays DEF poolVars, Apart

\* A process that comes back from a sleep or from its first steps is not copying
LEMMA NotCopying ==
    ASSUME MsgInv, NEW p \in Procs,
           Ready(p) \/ at[p] \in Sleeps \cup {"set", "idle"} \/ call[p].op # "snd"
    PROVE  ~Copies(p)
BY DEF Ready, Sleeps, Copies

\* A call ends, or its process goes to sleep
LEMMA SleepPool ==
    ASSUME MsgInv, PoolInv, NEW p \in Procs, UNCHANGED <<msgfp, map>>, ~Copies(p),
           Return(p) \/ \E where \in Sleeps : GoToSleep(p, where),
           call' = call \/ Return(p) \/ \E n : call' = [call EXCEPT ![p].limit = n],
           \A s \in Slots : que'[s].chain = que[s].chain /\ que'[s].cbytes = que[s].cbytes
    PROVE  PoolInv'
<1>1. Apart(p) /\ ~Copies(p)'
    <2>1. CASE Return(p)
        BY <2>1, ReturnApart DEF MsgInv
    <2>2. CASE \E where \in Sleeps : GoToSleep(p, where)
        <3>1. PICK where \in Sleeps : at' = [at EXCEPT ![p] = where] /\ held' = held
            BY <2>2 DEF GoToSleep
        <3>2. at'[p] # "copy" /\ \A r \in Procs \ {p} : at'[r] = at[r]
            BY <3>1 DEF MsgInv, Types, Sleeps
        <3>3. \A r \in Procs \ {p} : call'[r] = call[r]
            BY DEF Return, MsgInv, Types
        <3> QED
            BY <3>1, <3>2, <3>3 DEF Apart, Copies
    <2> QED
        BY <2>1, <2>2
<1> QED
    BY <1>1, PoolStays DEF Apart

LEMMA OtherTurnsPool ==
    ASSUME MsgInv, PoolInv, NEW p \in Procs,
           \/ Gone(p) \/ WaitForLock(p) \/ Interrupt(p) \/ SndFull(p) \/ SndNoHeader(p)
           \/ SndNoSpace(p) \/ RcvNone(p) \/ RcvTooBig(p) \/ RcvFault(p) \/ IpcSet(p)
    PROVE  PoolInv'
<1>1. Q(p) \in Slots /\ \A s \in Slots : IsQueue(que[s]) /\ DOMAIN que = Slots
    <2>1. at[p] # "idle"
        BY ReadyAwake DEF Gone, WaitForLock, Interrupt, SndFull, SndNoHeader, SndNoSpace,
            RcvNone, RcvTooBig, RcvFault, IpcSet, Sends, Receives, CanLock, Sleeps
    <2> QED
        BY <2>1, Slot DEF MsgInv, Types
<1>2. ~Copies(p)
    BY NotCopying DEF Gone, WaitForLock, Interrupt, SndFull, SndNoHeader, SndNoSpace,
        RcvNone, RcvTooBig, RcvFault, IpcSet, Sends, Receives, CanLock
<1>3. CASE Gone(p) \/ RcvTooBig(p)
    BY <1>1, <1>2, <1>3, SleepPool DEF Gone, RcvTooBig, poolVars
<1>4. CASE IpcSet(p)
    <2>1. \A s \in Slots : que'[s].chain = que[s].chain /\ que'[s].cbytes = que[s].cbytes
        BY <1>1, <1>4 DEF IpcSet, IsQueue, Fields
    <2> QED
        BY <1>2, <1>4, <2>1, SleepPool DEF IpcSet, poolVars
<1>5. CASE RcvFault(p)
    <2>1. \A s \in Slots : que'[s].chain = que[s].chain /\ que'[s].cbytes = que[s].cbytes
        BY <1>1, <1>5 DEF RcvFault, Unlocked, IsQueue, Fields
    <2> QED
        BY <1>2, <1>5, <2>1, SleepPool DEF RcvFault, poolVars
<1>6. CASE Interrupt(p)
    <2>1. \A s \in Slots : que'[s].chain = que[s].chain /\ que'[s].cbytes = que[s].cbytes
        BY <1>1, <1>6 DEF Interrupt, IsQueue, Fields
    <2> QED
        BY <1>2, <1>6, <2>1, SleepPool DEF Interrupt, poolVars
<1>7. CASE WaitForLock(p)
    <2>1. \A s \in Slots : que'[s].chain = que[s].chain /\ que'[s].cbytes = que[s].cbytes
        BY <1>1, <1>7 DEF WaitForLock, IsQueue, Fields
    <2>2. GoToSleep(p, "lock") /\ "lock" \in Sleeps
        BY <1>7 DEF WaitForLock, Sleeps
    <2> QED
        BY <1>2, <1>7, <2>1, <2>2, SleepPool DEF WaitForLock, poolVars
<1>8. CASE SndFull(p)
    <2>1. \A s \in Slots : que'[s].chain = que[s].chain /\ que'[s].cbytes = que[s].cbytes
        BY <1>1, <1>8 DEF SndFull, IsQueue, Fields
    <2>2. Return(p) \/ (/\ GoToSleep(p, "full") /\ "full" \in Sleeps
                        /\ \E n : call' = [call EXCEPT ![p].limit = n])
        BY <1>8 DEF SndFull, Sleeps
    <2> QED
        BY <1>2, <1>8, <2>1, <2>2, SleepPool DEF SndFull, poolVars
<1>9. CASE SndNoHeader(p) \/ SndNoSpace(p)
    <2>1. \A s \in Slots : que'[s].chain = que[s].chain /\ que'[s].cbytes = que[s].cbytes
        BY <1>9 DEF SndNoHeader, SndNoSpace
    <2>2. /\ Return(p) \/ \E where \in Sleeps : GoToSleep(p, where)
          /\ Return(p) \/ call' = call
        BY <1>9 DEF SndNoHeader, SndNoSpace, WaitOr, Sleeps
    <2>3. UNCHANGED <<msgfp, map>>
        BY <1>9 DEF SndNoHeader, SndNoSpace, poolVars
    <2> QED
        BY <1>2, <2>1, <2>2, <2>3, SleepPool
<1>10. CASE RcvNone(p)
    <2>1. \A s \in Slots : que'[s].chain = que[s].chain /\ que'[s].cbytes = que[s].cbytes
        BY <1>1, <1>10 DEF RcvNone, IsQueue, Fields
    <2>2. Return(p) \/ (GoToSleep(p, "empty") /\ "empty" \in Sleeps /\ call' = call)
        BY <1>10 DEF RcvNone, Sleeps
    <2> QED
        BY <1>2, <1>10, <2>1, <2>2, SleepPool DEF RcvNone, poolVars
<1> QED
    BY <1>3, <1>4, <1>5, <1>6, <1>7, <1>8, <1>9, <1>10

\* A message that is copied out stays where it is
LEMMA RcvTakePool ==
    ASSUME MsgInv, PoolInv, NEW p \in Procs, RcvTake(p)
    PROVE  PoolInv'
<1>1. ~Copies(p) /\ ~Copies(p)'
    BY NotCopying DEF RcvTake, Receives, CanLock, Copies
<1>2. \A s \in Slots : que'[s].chain = que[s].chain /\ que'[s].cbytes = que[s].cbytes
    <2>1. Q(p) \in Slots
        BY ReadyAwake, Slot DEF RcvTake, Receives, CanLock
    <2> QED
        BY <2>1 DEF RcvTake, MsgInv, Types, IsQueue, Fields
<1>3. Apart(p)
    BY DEF RcvTake, Apart, Copies, MsgInv, Types
<1> QED
    BY <1>1, <1>2, <1>3, TurnPool DEF RcvTake

LEMMA CallPool ==
    ASSUME MsgInv, PoolInv, NEW p \in Procs, NEW c \in Calls, NEW q \in Slots, Call(p, c, q)
    PROVE  PoolInv'
<1>1. ~Copies(p) /\ ~Copies(p)'
    BY DEF Call, Copies, MsgInv, Types
<1>2. Apart(p)
    BY DEF Call, Apart, Copies, MsgInv, Types
<1> QED
    BY <1>1, <1>2, TurnPool DEF Call

\* A new queue begins with the msg_cbytes of the last one of its entry, which is 0
LEMMA MsgGetPool ==
    ASSUME MsgInv, CopyInv, PoolInv, NEW q \in Slots, MsgGet(q)
    PROVE  PoolInv'
<1>1. que[q].chain = <<>>
    BY DEF MsgGet, CopyInv, QueueOK
<1>2. \A s \in Slots : que'[s].chain = que[s].chain /\ que'[s].cbytes = que[s].cbytes
    BY <1>1 DEF MsgGet, NewQueue, MsgInv, Types
<1> QED
    BY <1>2, PoolStays DEF MsgGet, poolVars, Copies

LEMMA PoolInvInit == MapSize > 0 /\ MsgInit => PoolInv
<1> SUFFICES ASSUME MapSize > 0, MsgInit PROVE PoolInv
    OBVIOUS
<1>0. Hdrs \in Nat /\ Segs \in Nat /\ MapSize \in Nat
    BY MsgAssumption
<1>1. There = {}
    BY DEF MsgInit, NewQueue, There, Queued, Copying
<1>2. map = 1 .. Segs
    <2>1. Runs({}) = {} /\ Cardinality(Runs({})) = 0
        BY FS_EmptySet DEF Runs
    <2>2. ~Overflow({}, MapSize, Segs, 1)
        BY <1>0, <2>1 DEF Overflow
    <2>3. Extent(Segs, 1) = 1 .. Segs
        BY <1>0 DEF Extent
    <2>4. CASE Segs = 0
        BY <2>2, <2>3, <2>4 DEF MsgInit, Mfree
    <2>5. CASE Segs # 0
        BY <1>0, <2>2, <2>3, <2>5 DEF MsgInit, Mfree
    <2> QED
        BY <2>4, <2>5
<1>3. msgfp = Hdrs /\ IsFiniteSet({}) /\ Cardinality({}) = 0
    BY FS_EmptySet DEF MsgInit
<1>4. Pool(msgfp, map, There, Messages)
    BY <1>0, <1>1, <1>2, <1>3 DEF Pool
<1>5. \A q \in Slots : que[q].cbytes = Sizes(que[q].chain)
    BY SizesEmpty DEF MsgInit, NewQueue
<1> QED
    BY <1>4, <1>5 DEF PoolInv

LEMMA PoolInvNext ==
    ASSUME MapSize >= Hdrs
    PROVE  MsgInv /\ CopyInv /\ PoolInv /\ [MsgNext]_<<msgVars, wchan>> => PoolInv'
<1> SUFFICES ASSUME MsgInv, CopyInv, PoolInv, [MsgNext]_<<msgVars, wchan>> PROVE PoolInv'
    OBVIOUS
<1>1. ASSUME NEW p \in Procs, Turn(p) PROVE PoolInv'
    <2>1. CASE SndEmpty(p)
        BY <2>1, SndEmptyPool
    <2>2. CASE SndTake(p)
        BY <2>2, SndTakePool
    <2>3. CASE SndDone(p)
        BY <2>3, SndDonePool
    <2>4. CASE SndFault(p)
        BY <2>4, SndFaultPool
    <2>5. CASE RcvTake(p)
        BY <2>5, RcvTakePool
    <2>6. CASE RcvDone(p)
        BY <2>6, RcvDonePool
    <2>7. CASE RmId(p)
        BY <2>7, RmIdPool
    <2> QED
        BY <1>1, <2>1, <2>2, <2>3, <2>4, <2>5, <2>6, <2>7, OtherTurnsPool DEF Turn
<1>2. ASSUME NEW p \in Procs, NEW c \in Calls, NEW q \in Slots, Call(p, c, q) PROVE PoolInv'
    BY <1>2, CallPool
<1>3. ASSUME NEW q \in Slots, MsgGet(q) PROVE PoolInv'
    BY <1>3, MsgGetPool
<1>4. CASE UNCHANGED <<msgVars, wchan>>
    BY <1>4, PoolStays DEF msgVars, poolVars, Copies
<1> QED
    BY <1>1, <1>2, <1>3, <1>4 DEF MsgNext

\* Every header and every segment is free or belongs to one message, and msg_cbytes counts
\* what is on the queue, if the map of the pool has an entry for each header: mfree then
\* never finds it full, in whatever order the messages are freed.  With one entry less it
\* may, and the segments are lost.
THEOREM PoolConservedHolds ==
    ASSUME MapSize >= Hdrs, MapSize > 0
    PROVE  MsgSpec => []PoolConserved
<1>1. MsgInit => PoolInv
    BY PoolInvInit
<1>2. MsgInv /\ CopyInv /\ PoolInv /\ [MsgNext]_<<msgVars, wchan>> => PoolInv'
    BY PoolInvNext
<1>3. MsgInv /\ PoolInv => PoolConserved
    BY PoolInvConserves DEF MsgInv
<1>4. MsgInit => CopyInv
    BY CopyInvInit
<1>5. MsgInv /\ CopyInv /\ [MsgNext]_<<msgVars, wchan>> => CopyInv'
    BY CopyInvNext
<1> QED
    BY <1>1, <1>2, <1>3, <1>4, <1>5, MsgInvInit, MsgInvNext, PTL DEF MsgSpec
=============================================================================
