--------------------------------- MODULE Msg ---------------------------------
(***************************************************************************)
(* System V message queues: PAGING/os/msg.c with ipcget of ipc.c.          *)
(*                                                                         *)
(* An action is a turn of a process, from one sleep to the next.  The      *)
(* copies between the kernel and the user may sleep (a page fault): those  *)
(* of msgsnd and msgrcv with the queue locked, that of IPC_SET without.    *)
(***************************************************************************)
EXTENDS SleepQueue, ResourceMap, Sequences, SequencesExt

CONSTANTS Slots,     \* the entries of msgque
          MaxSeq,    \* the last sequence number of an entry before it wraps
          Hdrs,      \* the number of message headers (msgtql)
          Segs,      \* the number of segments of the pool of texts (msgseg)
          MapSize,   \* the number of entries of msgmap
          Limits,    \* the values of msg_qbytes that IPC_SET may set
          MsgMnb,    \* and the one msgget sets
          Calls      \* the calls the processes make

ASSUME MsgAssumption ==
    /\ MaxSeq \in Nat \ {0} /\ Hdrs \in Nat /\ Segs \in Nat /\ MapSize \in Nat
    /\ Limits \subseteq Nat /\ MsgMnb \in Nat
    /\ \A c \in Calls : /\ c.op \in {"snd", "rcv", "rmid", "set"}
                        /\ c.nowait \in BOOLEAN
                        /\ c.type \in Int /\ c.size \in Nat

\* The calls.  Sizes are in segments: btoq rounds up to them.
Snd(t, n, nowait) == [op |-> "snd", type |-> t, size |-> n, nowait |-> nowait]
Rcv(t, n, nowait) == [op |-> "rcv", type |-> t, size |-> n, nowait |-> nowait]
Rmid              == [op |-> "rmid", type |-> 0, size |-> 0, nowait |-> FALSE]
Set(limit)        == [op |-> "set", type |-> 0, size |-> limit, nowait |-> FALSE]

VARIABLES
    que,       \* msgque
    msgfp,     \* the number of free headers
    map,       \* the free segments of the pool (msgmap)
    mapwant,   \* mapwant(msgmap) # 0
    call,      \* the call of a process and the id it gave
    at,        \* where the process is in it
    held       \* the message it copies (mp of msgsnd, smp of msgrcv)

poolVars == <<msgfp, map, mapwant>>
msgVars  == <<que, poolVars, call, at, held>>

NoMsg  == [type |-> 0, size |-> 0, spot |-> 0]
NoCall == [op |-> "none"]

\* Where a process may sleep, and on what
Sleeps == {"lock", "full", "header", "space", "empty"}
Chan(where, q) == CASE where = "lock"   -> <<"msg_first", q>>
                    [] where = "full"   -> <<"qp", q>>
                    [] where = "empty"  -> <<"msg_qnum", q>>
                    [] where = "header" -> <<"msgfp">>
                    [] where = "space"  -> <<"msgmap">>
Asleep(p, where) == at[p] = where /\ ~Awake(p)

Q(p) == call[p].slot

\* The mode bits of a new entry: IPC_ALLOC and no flag
NewQueue(seq, cbytes) ==
    [alloc |-> TRUE, seq |-> seq, locked |-> FALSE, qwant |-> FALSE, rwait |-> FALSE,
     wwait |-> FALSE, chain |-> <<>>, cbytes |-> cbytes, qbytes |-> MsgMnb]

MsgInit ==
    /\ que = [q \in Slots |-> [NewQueue(0, 0) EXCEPT !.alloc = FALSE]]
    /\ msgfp = Hdrs
    /\ map = Mfree({}, MapSize, Segs, 1)
    /\ mapwant = FALSE
    /\ call = [p \in Procs |-> NoCall]
    /\ at = [p \in Procs |-> "idle"]
    /\ held = [p \in Procs |-> NoMsg]
    /\ wchan = [p \in Procs |-> NoChan]

-------------------------------------------------------------------------------
(* Helpers                                                                 *)

\* msgconv
Valid(p) == que[Q(p)].alloc /\ que[Q(p)].seq = call[p].seq

\* p can go on in msgqlock
Ready(p) == Awake(p) /\ at[p] \in {"enter"} \cup Sleeps /\ call[p].op # "set"

\* Slip: the lock is taken without a look at it
CanLockAnyway(p) == Ready(p) /\ Valid(p)

\* msgqlock finds the queue unlocked.  Nobody wants the lock then, and a turn that
\* unlocks the queue again before it sleeps leaves it as it was.
CanLock(p) == Ready(p) /\ Valid(p) /\ ~que[Q(p)].locked

\* The end of a system call
Return(p) ==
    /\ call' = [call EXCEPT ![p] = NoCall]
    /\ at' = [at EXCEPT ![p] = "idle"]
    /\ held' = [held EXCEPT ![p] = NoMsg]

\* sleep, in a turn that wakes up nobody
GoToSleep(p, where) ==
    /\ at' = [at EXCEPT ![p] = where]
    /\ Sleep(p, Chan(where, Q(p)), {})
    /\ UNCHANGED held

\* msgqunlock
Unlocked(m) == [m EXCEPT !.locked = FALSE, !.qwant = FALSE]
WantsLock(q) == IF que[q].qwant THEN {Chan("lock", q)} ELSE {}

\* A wait for the sender's resources, or EAGAIN
WaitOr(p, where) ==
    IF call[p].nowait THEN Return(p) /\ Wakeup({}) ELSE GoToSleep(p, where) /\ UNCHANGED call

\* Slip: msgfree wakes up nobody
FreeWakesNone(n, m) == {}

\* msgfree of n messages that leaves the pool with the free segments m: the channels
\* that are woken.  (The ";" after its if wakes up msgfp for every header.)
Free(n, m) ==
    /\ msgfp' = msgfp + n
    /\ map' = m
    /\ mapwant' = (mapwant /\ m = map)
FreeWakes(n, m) == (IF n > 0 THEN {Chan("header", 0)} ELSE {}) \cup
                   (IF mapwant /\ m # map THEN {Chan("space", 0)} ELSE {})

\* The pool after the text of message x is freed
FreeText(m, x) == Mfree(m, MapSize, x.size, x.spot)

\* Does a receive of type t take a message of type m
Takes(t, m) == t = 0 \/ t = m \/ (t < 0 /\ m <= -t)
Candidates(chain, t) == {i \in DOMAIN chain : Takes(t, chain[i].type)}

\* i is the place of the message that a receive of type t chooses
Picks(chain, t, i) ==
    /\ i \in Candidates(chain, t)
    /\ \A j \in Candidates(chain, t) :
          \/ t < 0 /\ chain[i].type < chain[j].type
          \/ (t < 0 => chain[i].type = chain[j].type) /\ i <= j

-------------------------------------------------------------------------------
(* The calls                                                               *)

\* A process makes a call for a queue there is; for the others msgconv fails at once.
\* What a process does before its first msgqlock concerns nobody else, so that one process
\* at a time is there.
Call(p, c, q) ==
    /\ at[p] = "idle" /\ que[q].alloc
    /\ \A r \in Procs : at[r] # "enter"
    /\ call' = [call EXCEPT ![p] = [op |-> c.op, type |-> c.type, size |-> c.size,
                                    nowait |-> c.nowait, slot |-> q, seq |-> que[q].seq,
                                    limit |-> 0]]
    /\ at' = [at EXCEPT ![p] = IF c.op = "set" THEN "set" ELSE "enter"]
    /\ UNCHANGED <<que, poolVars, held, wchan>>

\* msgget makes a queue of the first entry that is free; msg_cbytes stays what it was
MsgGet(q) ==
    /\ ~que[q].alloc /\ \A r \in Slots : r < q => que[r].alloc
    /\ que' = [que EXCEPT ![q] = NewQueue(que[q].seq, que[q].cbytes)]
    /\ UNCHANGED <<poolVars, call, at, held, wchan>>

\* msgqlock: the queue was removed
Gone(p) ==
    /\ Ready(p) /\ ~Valid(p)
    /\ Return(p) /\ Wakeup({})
    /\ UNCHANGED <<que, poolVars>>

\* msgqlock: the queue is locked
WaitForLock(p) ==
    /\ Ready(p) /\ Valid(p) /\ que[Q(p)].locked
    /\ que' = [que EXCEPT ![Q(p)].qwant = TRUE]
    /\ GoToSleep(p, "lock")
    /\ UNCHANGED <<poolVars, call>>

\* A signal interrupts a sleep, or finds the process before it runs again
Interrupt(p) ==
    LET q == Q(p) IN
    /\ at[p] \in Sleeps
    /\ que' = CASE at[p] = "lock" -> [que EXCEPT ![q].qwant = FALSE]
                [] at[p] = "full" -> [que EXCEPT ![q].wwait = FALSE]
                [] OTHER          -> que
    /\ Unsleep(p, IF at[p] \in {"lock", "full"} THEN {Chan(at[p], q)} ELSE {})
    /\ Return(p)
    /\ UNCHANGED poolVars

-------------------------------------------------------------------------------
(* msgsnd                                                                  *)

Sends(p) == CanLock(p) /\ call[p].op = "snd"
Room(p) == call[p].size + que[Q(p)].cbytes <= que[Q(p)].qbytes

\* No room on the queue; the limit is kept for the properties
SndFull(p) ==
    /\ Sends(p) /\ ~Room(p)
    /\ IF call[p].nowait
       THEN Return(p) /\ Wakeup({}) /\ UNCHANGED que
       ELSE /\ que' = [que EXCEPT ![Q(p)].wwait = TRUE]
            /\ call' = [call EXCEPT ![p].limit = que[Q(p)].qbytes]
            /\ GoToSleep(p, "full")
    /\ UNCHANGED poolVars

SndNoHeader(p) ==
    /\ Sends(p) /\ Room(p) /\ msgfp = 0
    /\ WaitOr(p, "header")
    /\ UNCHANGED <<que, poolVars>>

SndNoSpace(p) ==
    /\ Sends(p) /\ Room(p) /\ msgfp > 0
    /\ call[p].size > 0 /\ Fits(map, call[p].size) = {}
    /\ WaitOr(p, "space")
    /\ mapwant' = (mapwant \/ ~call[p].nowait)
    /\ UNCHANGED <<que, msgfp, map>>

\* The message goes to the end of the queue m, and those that wait to receive are woken up
Append1(m, x) == [m EXCEPT !.chain = Append(m.chain, x), !.cbytes = m.cbytes + x.size,
                           !.rwait = FALSE]
AppendWakes(q) == IF que[q].rwait THEN {Chan("empty", q)} ELSE {}

\* A message without text needs no segment and no copy
SndEmpty(p) ==
    LET q == Q(p) IN
    /\ Sends(p) /\ Room(p) /\ msgfp > 0 /\ call[p].size = 0
    /\ msgfp' = msgfp - 1
    /\ que' = [que EXCEPT ![q] = Append1(que[q], [NoMsg EXCEPT !.type = call[p].type])]
    /\ Wakeup(AppendWakes(q))
    /\ Return(p)
    /\ UNCHANGED <<map, mapwant>>

\* Everything is available: the text is copied in with the queue locked
SndTake(p) ==
    LET n == call[p].size
        a == Malloc(map, n)
    IN  /\ Sends(p) /\ Room(p) /\ msgfp > 0
        /\ n > 0 /\ Fits(map, n) # {}
        /\ msgfp' = msgfp - 1
        /\ map' = map \ Extent(n, a)
        /\ held' = [held EXCEPT ![p] = [type |-> call[p].type, size |-> n, spot |-> a]]
        /\ que' = [que EXCEPT ![Q(p)].locked = TRUE]
        /\ at' = [at EXCEPT ![p] = "copy"]
        /\ UNCHANGED <<mapwant, call, wchan>>

SndDone(p) ==
    LET q == Q(p) IN
    /\ at[p] = "copy" /\ call[p].op = "snd"
    /\ que' = [que EXCEPT ![q] = Unlocked(Append1(que[q], held[p]))]
    /\ Wakeup(AppendWakes(q) \cup WantsLock(q))
    /\ Return(p)
    /\ UNCHANGED poolVars

\* Slip: msgsnd keeps what it has taken when its copy fails
SndFaultKeeps(p) ==
    /\ at[p] = "copy" /\ call[p].op = "snd"
    /\ que' = [que EXCEPT ![Q(p)] = Unlocked(que[Q(p)])]
    /\ Wakeup(WantsLock(Q(p)))
    /\ Return(p)
    /\ UNCHANGED poolVars

\* The copy fails
SndFault(p) ==
    LET q == Q(p)
        m == FreeText(map, held[p])
    IN  /\ at[p] = "copy" /\ call[p].op = "snd"
        /\ que' = [que EXCEPT ![q] = Unlocked(que[q])]
        /\ Free(1, m)
        /\ Wakeup(WantsLock(q) \cup FreeWakes(1, m))
        /\ Return(p)

-------------------------------------------------------------------------------
(* msgrcv                                                                  *)

Receives(p) == CanLock(p) /\ call[p].op = "rcv"

\* No message of the type: ENOMSG, or wait for one
RcvNone(p) ==
    /\ Receives(p) /\ Candidates(que[Q(p)].chain, call[p].type) = {}
    /\ IF call[p].nowait
       THEN Return(p) /\ Wakeup({}) /\ UNCHANGED que
       ELSE /\ que' = [que EXCEPT ![Q(p)].rwait = TRUE]
            /\ GoToSleep(p, "empty")
            /\ UNCHANGED call
    /\ UNCHANGED poolVars

\* The message is too long for the receiver: E2BIG
RcvTooBig(p) ==
    /\ Receives(p)
    /\ \E i \in DOMAIN que[Q(p)].chain :
          Picks(que[Q(p)].chain, call[p].type, i) /\ que[Q(p)].chain[i].size > call[p].size
    /\ Return(p) /\ Wakeup({})
    /\ UNCHANGED <<que, poolVars>>

\* The message is copied out with the queue locked, and stays on it meanwhile
RcvTake(p) ==
    LET chain == que[Q(p)].chain IN
    /\ Receives(p)
    /\ \E i \in DOMAIN chain :
          /\ Picks(chain, call[p].type, i) /\ chain[i].size <= call[p].size
          /\ held' = [held EXCEPT ![p] = chain[i]]
    /\ que' = [que EXCEPT ![Q(p)].locked = TRUE]
    /\ at' = [at EXCEPT ![p] = "copy"]
    /\ UNCHANGED <<poolVars, call, wchan>>

\* msgremove of the message at i of m
Removed(m, i) == [m EXCEPT !.chain = RemoveAt(m.chain, i),
                           !.cbytes = m.cbytes - m.chain[i].size, !.wwait = FALSE]
RemoveWakes(q) == IF que[q].wwait THEN {Chan("full", q)} ELSE {}

\* smp; messages that have no text may be equal, and smp is the first of them
RcvDone(p) ==
    LET q == Q(p)
        m == FreeText(map, held[p])
    IN  /\ at[p] = "copy" /\ call[p].op = "rcv"
        /\ \E i \in DOMAIN que[q].chain :
              /\ que[q].chain[i] = held[p] /\ \A j \in 1 .. i - 1 : que[q].chain[j] # held[p]
              /\ que' = [que EXCEPT ![q] = Unlocked(Removed(que[q], i))]
        /\ Free(1, m)
        /\ Wakeup(RemoveWakes(q) \cup FreeWakes(1, m) \cup WantsLock(q))
        /\ Return(p)

\* The copy fails and the message stays
RcvFault(p) ==
    LET q == Q(p) IN
    /\ at[p] = "copy" /\ call[p].op = "rcv"
    /\ que' = [que EXCEPT ![q] = Unlocked(que[q])]
    /\ Wakeup(WantsLock(q))
    /\ Return(p)
    /\ UNCHANGED poolVars

-------------------------------------------------------------------------------
(* msgctl                                                                  *)

\* IPC_RMID: the messages are freed one by one, and everybody who waits is woken up
RmId(p) ==
    LET q == Q(p)
        m == FoldLeft(FreeText, map, que[q].chain)
    IN  /\ CanLock(p) /\ call[p].op = "rmid"
        /\ que' = [que EXCEPT ![q] =
                     [NewQueue(IF que[q].seq = MaxSeq THEN 0 ELSE que[q].seq + 1, 0)
                        EXCEPT !.alloc = FALSE, !.qbytes = que[q].qbytes]]
        /\ Free(Len(que[q].chain), m)
        /\ Wakeup(RemoveWakes(q) \cup FreeWakes(Len(que[q].chain), m) \cup
                  IF que[q].rwait THEN {Chan("empty", q)} ELSE {})
        /\ Return(p)

\* IPC_SET after its copyin: the queue is not looked up again, nobody is woken up
IpcSet(p) ==
    /\ at[p] = "set"
    /\ que' = [que EXCEPT ![Q(p)].qbytes = call[p].size]
    /\ Return(p) /\ Wakeup({})
    /\ UNCHANGED poolVars

-------------------------------------------------------------------------------
Turn(p) ==
    \/ Gone(p) \/ WaitForLock(p) \/ Interrupt(p)
    \/ SndFull(p) \/ SndNoHeader(p) \/ SndNoSpace(p) \/ SndEmpty(p) \/ SndTake(p)
    \/ SndDone(p) \/ SndFault(p)
    \/ RcvNone(p) \/ RcvTooBig(p) \/ RcvTake(p) \/ RcvDone(p) \/ RcvFault(p)
    \/ RmId(p) \/ IpcSet(p)

MsgNext == \/ \E p \in Procs : Turn(p)
           \/ \E p \in Procs, c \in Calls, q \in Slots : Call(p, c, q)
           \/ \E q \in Slots : MsgGet(q)

MsgSpec == MsgInit /\ [][MsgNext]_<<msgVars, wchan>>

-------------------------------------------------------------------------------
(* Properties                                                              *)

\* A process sleeps in msgqlock only while the queue is locked and its owner knows
LockWaits == \A p \in Procs : Asleep(p, "lock") => que[Q(p)].locked /\ que[Q(p)].qwant

\* A receiver sleeps only on a queue that is there and has nothing for it
ReceiverWaits ==
    \A p \in Procs : Asleep(p, "empty") =>
        /\ Valid(p) /\ que[Q(p)].rwait
        /\ Candidates(que[Q(p)].chain, call[p].type) = {}

\* A sender sleeps only on a queue that is there and has no room by the limit it saw
SenderWaits ==
    \A p \in Procs : Asleep(p, "full") =>
        /\ Valid(p) /\ que[Q(p)].wwait
        /\ call[p].size + que[Q(p)].cbytes > call[p].limit

\* A sender sleeps for a header or for segments only while there are none
PoolWaits ==
    \A p \in Procs : /\ Asleep(p, "header") => msgfp = 0
                     /\ Asleep(p, "space") => mapwant /\ Fits(map, call[p].size) = {}

\* No wakeup is lost: nobody sleeps in msgsnd, msgrcv or msgctl for something that is
\* there, whatever other senders, receivers, removals and signals did meanwhile.
NoLostWakeup == LockWaits /\ ReceiverWaits /\ SenderWaits /\ PoolWaits

\* The messages there are, by their places: those of the queues, and at place 0 of a
\* process the one that it copies in
Copying == {x \in Procs \X {0} : at[x[1]] = "copy" /\ call[x[1]].op = "snd"}
InQueues == {x \in Slots \X (1 .. Hdrs) : x[2] <= Len(que[x[1]].chain)}
Text(x) == Extent(x.size, x.spot)
Sizes(chain) == FoldLeft(LAMBDA sum, x : sum + x.size, 0, chain)

\* Every header is free or has one message, every segment is free or belongs to one
\* message, and msg_cbytes is what the messages of the queue hold: nothing of the pool
\* is lost or handed out twice by failed copies, removals or the order of frees.
PoolConserved ==
    LET texts == [x \in InQueues \cup Copying |->
                    Text(IF x[2] = 0 THEN held[x[1]] ELSE que[x[1]].chain[x[2]])]
    IN  /\ msgfp + Cardinality(DOMAIN texts) = Hdrs
        /\ \A x \in DOMAIN texts :
              /\ texts[x] \cap map = {}
              /\ \A y \in (DOMAIN texts) \ {x} : texts[x] \cap texts[y] = {}
        /\ map \cup UNION {texts[x] : x \in DOMAIN texts} = 1 .. Segs
        /\ \A q \in Slots : que[q].cbytes = Sizes(que[q].chain)

\* The message queues implement TypedQueues: the choice that msgrcv makes before it sleeps
\* in copyout is still the right one when the message is taken off the queue, no message
\* is received twice, and no call works on a later queue of the same entry.
Promise == INSTANCE TypedQueues WITH
    box <- [q \in Slots |-> [open |-> que[q].alloc, seq |-> que[q].seq,
                              msgs |-> que[q].chain]],
    ask <- [p \in Procs |->
              IF call[p].op = "rcv"
              THEN [slot |-> Q(p), seq |-> call[p].seq, type |-> call[p].type,
                    room |-> call[p].size]
              ELSE [slot |-> "none"]]
ReceivesAtomically == Promise!Spec
=============================================================================
