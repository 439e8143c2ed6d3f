---------------------------- MODULE StreamsProofs ----------------------------
(***************************************************************************)
(* What Streams promises of the queues and the ioctls and Callout of its   *)
(* timers, proved for any processes, ioctls, high-water mark and numbers   *)
(* of messages and timeouts:                                               *)
(*                                                                         *)
(*   - no queue with messages stands still (NoStall), by QueueInv, which   *)
(*     says who enables a queue that has been found empty;                 *)
(*   - the display has the messages in the order in which they were sent   *)
(*     (InOrder), by OrderInv, which follows them from place to place;     *)
(*   - the reply is its owner's (AckIsOwners) and so are the timers        *)
(*     (TimersOwned), by IoctlInv;                                         *)
(*   - each timeout is due when its ticks have passed (TimesExact of       *)
(*     Callout), by CalloutInv.                                            *)
(*                                                                         *)
(* flushq filters a queue in a loop: that the loop keeps the order is      *)
(* induction over its turns, from the least turn at which it would not     *)
(* (LeastNat, InductionTo of FiniteSums).                                  *)
(***************************************************************************)
EXTENDS Streams, Callout, FiniteSums

-----------------------------------------------------------------------------
(* flushq                                                                  *)

Cmds == {"data", "TCSETAW", "TCSBRK"}
Messages == [id : Nat \ {0}, cmd : Cmds]

\* The messages of s before the i-th and the i-th that are put back
KeptUpTo(s, k, i) == IF i = 0 THEN <<>>
                     ELSE IF s[i].cmd = "data" THEN k[i - 1]
                     ELSE Append(k[i - 1], s[i])

\* The loop of flushq is well defined
LEMMA NotDataLoop ==
    ASSUME NEW s \in Seq(Messages)
    PROVE  \E k \in [0 .. Len(s) -> Seq(Messages)] :
              /\ NotData(s) = k[Len(s)]
              /\ \A i \in 0 .. Len(s) : k[i] = KeptUpTo(s, k, i)
<1> DEFINE n == Len(s)
           Ok(m, g) == \A i \in 0 .. m : g[i] = KeptUpTo(s, g, i)
           T == {m \in 0 .. n : \E g \in [0 .. m -> Seq(Messages)] : Ok(m, g)}
<1>n. n \in Nat
    OBVIOUS
<1>1. 0 \in T
    <2>1. [i \in 0 .. 0 |-> <<>>] \in [0 .. 0 -> Seq(Messages)]
        OBVIOUS
    <2>2. Ok(0, [i \in 0 .. 0 |-> <<>>])
        BY DEF KeptUpTo
    <2>3. \E g \in [0 .. 0 -> Seq(Messages)] : Ok(0, g)
        BY <2>1, <2>2
    <2>4. 0 \in 0 .. n
        BY <1>n
    <2> QED
        BY <2>3, <2>4
<1>2. ASSUME NEW m \in T, m < n PROVE m + 1 \in T
    <2>1. m \in 0 .. n /\ m \in Nat /\ m + 1 \in 0 .. n
        BY <1>n, <1>2
    <2>2. PICK g \in [0 .. m -> Seq(Messages)] : Ok(m, g)
        OBVIOUS
    <2> DEFINE h == [i \in 0 .. m + 1 |-> IF i = m + 1 THEN KeptUpTo(s, g, i) ELSE g[i]]
    <2>3. s[m + 1] \in Messages /\ g[m] \in Seq(Messages)
        BY <2>1
    <2>4. KeptUpTo(s, g, m + 1) \in Seq(Messages)
        BY <2>1, <2>3 DEF KeptUpTo
    <2>5. h \in [0 .. m + 1 -> Seq(Messages)]
        BY <2>4, <2>1
    <2>6. ASSUME NEW i \in 0 .. m + 1 PROVE h[i] = KeptUpTo(s, h, i)
        <3>1. i # 0 => h[i - 1] = g[i - 1]
            BY <2>1
        <3>2. KeptUpTo(s, h, i) = KeptUpTo(s, g, i)
            BY <3>1 DEF KeptUpTo
        <3>3. i # m + 1 => g[i] = KeptUpTo(s, g, i)
            BY <2>1, <2>2
        <3> QED
            BY <3>2, <3>3
    <2> QED
        BY <2>1, <2>5, <2>6
<1>3. n \in T
    <2> HIDE DEF T
    <2>1. \A m \in T : m \in Nat /\ m < n => m + 1 \in T
        BY <1>2
    <2>2. 0 .. n \subseteq T
        BY <1>n, <1>1, <2>1, InductionTo
    <2> QED
        BY <1>n, <2>2
<1>4. PICK g \in [0 .. n -> Seq(Messages)] : Ok(n, g)
    BY <1>3
<1> DEFINE k == CHOOSE k : k = [i \in 0 .. n |-> IF i = 0 THEN <<>>
                                               ELSE IF s[i].cmd = "data" THEN k[i - 1]
                                               ELSE Append(k[i - 1], s[i])]
<1>5. g = [i \in 0 .. n |-> IF i = 0 THEN <<>> ELSE IF s[i].cmd = "data" THEN g[i - 1]
                                               ELSE Append(g[i - 1], s[i])]
    BY <1>4 DEF KeptUpTo
<1>6. k = [i \in 0 .. n |-> IF i = 0 THEN <<>> ELSE IF s[i].cmd = "data" THEN k[i - 1]
                                               ELSE Append(k[i - 1], s[i])]
    BY <1>5
<1>7. NotData(s) = k[n]
    BY DEF NotData
<1> HIDE DEF k
<1>8. \A i \in 0 .. n : k[i] = KeptUpTo(s, k, i)
    BY <1>6 DEF KeptUpTo
<1> DEFINE U == {i \in 0 .. n : k[i] \in Seq(Messages)}
<1>9. 0 \in U
    <2>1. 0 \in 0 .. n /\ <<>> \in Seq(Messages)
        BY <1>n
    <2>2. k[0] = <<>>
        BY <1>8, <2>1 DEF KeptUpTo
    <2> QED
        BY <2>1, <2>2
<1>10. ASSUME NEW i \in U, i < n PROVE i + 1 \in U
    <2>1. i \in Nat /\ i + 1 \in 0 .. n /\ s[i + 1] \in Messages
        BY <1>n, <1>10
    <2>2. k[i + 1] = KeptUpTo(s, k, i + 1)
        BY <1>8, <2>1
    <2>3. (i + 1) - 1 = i /\ i + 1 # 0 /\ k[i] \in Seq(Messages)
        BY <2>1
    <2>4. Append(k[i], s[i + 1]) \in Seq(Messages)
        BY <2>1, <2>3
    <2> QED
        BY <2>1, <2>2, <2>3, <2>4 DEF KeptUpTo
<1>11. 0 .. n \subseteq U
    <2> HIDE DEF U
    <2> QED
        BY <1>n, <1>9, <1>10, InductionTo
<1>12. k \in [0 .. n -> Seq(Messages)]
    BY <1>6, <1>11
<1> QED
    BY <1>7, <1>8, <1>12

Increasing(s) == \A i, j \in DOMAIN s : i < j => s[i].id < s[j].id

\* r are the messages of s up to the i-th that are not data, in the same order
KeptOf(s, i, r) ==
    /\ \A x \in DOMAIN r : \E y \in 1 .. i : r[x] = s[y] /\ s[y].cmd # "data"
    /\ \A y \in 1 .. i : s[y].cmd # "data" => \E x \in DOMAIN r : r[x] = s[y]
    /\ Increasing(s) => Increasing(r)

\* One turn of the loop
LEMMA KeepsOneMore ==
    ASSUME NEW s \in Seq(Messages), NEW i \in Nat, i < Len(s), NEW r \in Seq(Messages), KeptOf(s, i, r)
    PROVE  KeptOf(s, i + 1, IF s[i + 1].cmd = "data" THEN r ELSE Append(r, s[i + 1]))
<1> DEFINE a == s[i + 1]
           t == IF a.cmd = "data" THEN r ELSE Append(r, a)
<1>a. a \in Messages /\ i + 1 \in DOMAIN s
    OBVIOUS
<1>1. CASE a.cmd = "data"
    <2>1. t = r
        BY <1>1
    <2>2. \A y \in 1 .. i + 1 : y \in 1 .. i \/ s[y].cmd = "data"
        BY <1>1
    <2>3. \A y \in 1 .. i : y \in 1 .. i + 1
        OBVIOUS
    <2> HIDE DEF t
    <2> QED
        BY <2>1, <2>2, <2>3 DEF KeptOf
<1>2. CASE a.cmd # "data"
    <2> DEFINE n == Len(r)
    <2>1. t = Append(r, a) /\ n \in Nat
        BY <1>2
    <2>2. DOMAIN t = 1 .. n + 1 /\ t[n + 1] = a /\ \A x \in 1 .. n : x \in DOMAIN r /\ t[x] = r[x]
        BY <2>1
    <2>3. DOMAIN r = 1 .. n
        OBVIOUS
    <2> HIDE DEF t, n
    <2>4. ASSUME NEW x \in DOMAIN t PROVE \E y \in 1 .. i + 1 : t[x] = s[y] /\ s[y].cmd # "data"
        <3>1. CASE x = n + 1
            BY <1>2, <2>2, <3>1
        <3>2. CASE x \in 1 .. n
            <4>1. PICK y \in 1 .. i : r[x] = s[y] /\ s[y].cmd # "data"
                BY <2>3, <3>2 DEF KeptOf
            <4> QED
                BY <2>2, <3>2, <4>1
        <3> QED
            BY <2>1, <2>2, <3>1, <3>2
    <2>5. ASSUME NEW y \in 1 .. i + 1, s[y].cmd # "data" PROVE \E x \in DOMAIN t : t[x] = s[y]
        <3>1. CASE y = i + 1
            BY <2>1, <2>2, <3>1
        <3>2. CASE y \in 1 .. i
            <4>1. PICK x \in DOMAIN r : r[x] = s[y]
                BY <2>5, <3>2 DEF KeptOf
            <4> QED
                BY <2>1, <2>2, <2>3, <4>1
        <3> QED
            BY <3>1, <3>2
    <2>6. ASSUME Increasing(s) PROVE Increasing(t)
        <3>1. SUFFICES ASSUME NEW x \in DOMAIN t, NEW y \in DOMAIN t, x < y PROVE t[x].id < t[y].id
            BY DEF Increasing
        <3>2. CASE y = n + 1
            <4>1. x \in 1 .. n
                BY <2>1, <2>2, <3>1, <3>2
            <4>2. PICK z \in 1 .. i : r[x] = s[z]
                BY <2>3, <4>1 DEF KeptOf
            <4>3. z \in DOMAIN s /\ z < i + 1
                OBVIOUS
            <4> QED
                BY <1>a, <2>2, <2>6, <3>2, <4>1, <4>2, <4>3 DEF Increasing
        <3>3. CASE x \in 1 .. n /\ y \in 1 .. n
            BY <2>2, <2>3, <2>6, <3>1, <3>3 DEF KeptOf, Increasing
        <3> QED
            BY <2>1, <2>2, <3>1, <3>2, <3>3
    <2>7. KeptOf(s, i + 1, t)
        BY <2>4, <2>5, <2>6 DEF KeptOf
    <2> QED
        BY <2>7 DEF t
<1> QED
    BY <1>1, <1>2

\* flushq puts back what is not data, in the same order
LEMMA NotDataKeeps ==
    ASSUME NEW s \in Seq(Messages)
    PROVE  NotData(s) \in Seq(Messages) /\ KeptOf(s, Len(s), NotData(s))
<1> DEFINE n == Len(s)
<1>1. PICK k \in [0 .. n -> Seq(Messages)] :
          NotData(s) = k[n] /\ \A i \in 0 .. n : k[i] = KeptUpTo(s, k, i)
    BY NotDataLoop
<1>n. n \in Nat
    OBVIOUS
<1> DEFINE T == {i \in 0 .. n : KeptOf(s, i, k[i])}
<1>2. 0 \in T
    <2>1. 0 \in 0 .. n
        BY <1>n
    <2>2. k[0] = <<>>
        BY <1>1, <2>1 DEF KeptUpTo
    <2>3. KeptOf(s, 0, <<>>)
        BY DEF KeptOf, Increasing
    <2> QED
        BY <2>1, <2>2, <2>3
<1>3. ASSUME NEW i \in T, i < n PROVE i + 1 \in T
    <2>1. i \in Nat /\ i \in 0 .. n /\ i + 1 \in 0 .. n /\ (i + 1) - 1 = i /\ i + 1 # 0
        BY <1>n, <1>3
    <2>2. k[i] \in Seq(Messages) /\ KeptOf(s, i, k[i])
        BY <2>1
    <2>3. k[i + 1] = IF s[i + 1].cmd = "data" THEN k[i] ELSE Append(k[i], s[i + 1])
        BY <1>1, <2>1 DEF KeptUpTo
    <2>4. KeptOf(s, i + 1, k[i + 1])
        BY <1>3, <2>1, <2>2, <2>3, KeepsOneMore
    <2> QED
        BY <2>1, <2>4
<1>4. 0 .. n \subseteq T
    <2> HIDE DEF T
    <2> QED
        BY <1>n, <1>2, <1>3, InductionTo
<1>5. n \in 0 .. n
    BY <1>n
<1> QED
    BY <1>1, <1>4, <1>5

-----------------------------------------------------------------------------
(* The queues                                                              *)

Queues == {"head", "line", "disp"}
QueueRecs == [msgs : Seq(Messages), full : BOOLEAN, wantr : BOOLEAN, wantw : BOOLEAN]

QueueTypes ==
    /\ wq \in [{"line", "disp"} -> QueueRecs]
    /\ runq \in Seq(Queues)
    /\ serving \in [q : Queues \cup {"none", "next"}, m : Messages \cup {NoBlock},
                    step : {"get", "canput", "putbq", "putnext", "handle"}]
    /\ tty \in [xm : Messages \cup {NoBlock}, stop : BOOLEAN, brk : BOOLEAN]
    /\ nmsg \in Nat

\* What a service procedure has at each step, and what the display may hold back
ServiceKept ==
    /\ serving.step \in {"canput", "putbq", "putnext"} => serving.q = "line"
    /\ serving.step = "handle" => serving.q = "disp" /\ ~tty.brk /\ tty.xm = NoBlock
    /\ serving.step = "get" <=> serving.m = NoBlock
    /\ tty.xm # NoBlock => tty.xm.cmd = "data" /\ ~tty.brk

\* A queue is enabled, or the one below it wants to wake it and has messages to do so
StallInv ==
    /\ \A q \in {"line", "disp"} : wq[q].full => wq[q].msgs # <<>>
    /\ wq["line"].msgs # <<>> \/ ~wq["line"].wantr =>
          Enabled("line") \/ (wq["disp"].wantw /\ wq["disp"].msgs # <<>>)
    /\ serving.step = "putbq" =>
          "line" \in Range(runq) \/ (wq["disp"].wantw /\ wq["disp"].msgs # <<>>)
    /\ wq["disp"].msgs # <<>> \/ ~wq["disp"].wantr =>
          Enabled("disp") \/ tty.brk \/ (tty.stop /\ tty.xm # NoBlock)
    /\ tty.xm # NoBlock => Enabled("disp") \/ tty.stop

\* The messages at each place, the nearest to the display first
HeldBy(q) == IF serving.q = q /\ serving.m # NoBlock THEN {serving.m} ELSE {}
Places == <<IF tty.xm = NoBlock THEN {} ELSE {tty.xm}, HeldBy("disp"), Range(wq["disp"].msgs),
            HeldBy("line"), Range(wq["line"].msgs)>>

\* Each place is in order, and so is what is at different places
OrderInv ==
    /\ \A q \in {"line", "disp"} : Increasing(wq[q].msgs)
    /\ \A i, j \in 1 .. 5 : i < j => \A m \in Places[i], n \in Places[j] : m.id < n.id
    /\ \A i \in 1 .. 5 : \A m \in Places[i] : last < m.id /\ m.id <= nmsg
    /\ last <= nmsg /\ last \in Nat
    /\ owed = {m.id : m \in UNION {Places[i] : i \in 1 .. 5}}

-----------------------------------------------------------------------------
(* What the operations on queues do                                        *)

LEMMA QenableAdds ==
    ASSUME NEW rq \in Seq(Queues), NEW q \in Queues, NEW c \in BOOLEAN
    PROVE  /\ Qenable(rq, q) \in Seq(Queues) /\ Range(Qenable(rq, q)) = Range(rq) \cup {q}
           /\ QenableIf(c, rq, q) \in Seq(Queues)
           /\ Range(QenableIf(c, rq, q)) = Range(rq) \cup IF c THEN {q} ELSE {}
<1>1. CASE q \in Range(rq)
    BY <1>1 DEF Qenable, QenableIf
<1>2. CASE q \notin Range(rq)
    <2>1. Range(Append(rq, q)) = Range(rq) \cup {q}
        BY DEF Range
    <2> QED
        BY <1>2, <2>1 DEF Qenable, QenableIf
<1> QED
    BY <1>1, <1>2

LEMMA HeadAndTail ==
    ASSUME NEW S, NEW s \in Seq(S), s # <<>>
    PROVE  /\ Head(s) \in S /\ Tail(s) \in Seq(S)
           /\ Range(s) = {Head(s)} \cup Range(Tail(s))
<1>1. Head(s) = s[1] /\ Len(s) \in Nat /\ Len(s) # 0 /\ DOMAIN s = 1 .. Len(s)
    OBVIOUS
<1>2. DOMAIN Tail(s) = 1 .. Len(s) - 1 /\ \A i \in 1 .. Len(s) - 1 : Tail(s)[i] = s[i + 1]
    BY <1>1
<1>3. \A i \in 1 .. Len(s) : i = 1 \/ (i - 1 \in 1 .. Len(s) - 1 /\ (i - 1) + 1 = i)
    BY <1>1
<1>4. \A i \in 1 .. Len(s) - 1 : i + 1 \in 1 .. Len(s)
    BY <1>1
<1>5. Range(s) = {Head(s)} \cup Range(Tail(s))
    <2>1. ASSUME NEW x \in Range(s) PROVE x = Head(s) \/ x \in Range(Tail(s))
        <3>1. PICK i \in 1 .. Len(s) : x = s[i]
            BY <1>1 DEF Range
        <3>2. CASE i # 1
            <4>1. i - 1 \in DOMAIN Tail(s) /\ Tail(s)[i - 1] = x
                BY <1>2, <1>3, <3>1, <3>2
            <4> QED
                BY <4>1 DEF Range
        <3> QED
            BY <1>1, <3>1, <3>2
    <2>2. ASSUME NEW x \in Range(Tail(s)) PROVE x \in Range(s)
        BY <1>1, <1>2, <1>4 DEF Range
    <2>3. Head(s) \in Range(s)
        BY <1>1 DEF Range
    <2> QED
        BY <2>1, <2>2, <2>3
<1> QED
    BY <1>5

\* putq and putbq
LEMMA PutqTypes ==
    ASSUME NEW Q \in QueueRecs, NEW m \in Messages
    PROVE  /\ Putq(Q, m) \in QueueRecs /\ Putbq(Q, m) \in QueueRecs
           /\ Putq(Q, m).msgs = Append(Q.msgs, m) /\ Putbq(Q, m).msgs = <<m>> \o Q.msgs
           /\ Putq(Q, m).msgs # <<>> /\ Putbq(Q, m).msgs # <<>>
           /\ Putq(Q, m).wantr = Q.wantr /\ Putbq(Q, m).wantr = Q.wantr
           /\ Putq(Q, m).wantw = Q.wantw /\ Putbq(Q, m).wantw = Q.wantw
<1>1. Append(Q.msgs, m) \in Seq(Messages) /\ <<m>> \o Q.msgs \in Seq(Messages)
    BY DEF QueueRecs
<1>2. Append(Q.msgs, m) # <<>> /\ <<m>> \o Q.msgs # <<>>
    BY DEF QueueRecs
<1>3. (Q.full \/ Len(Q.msgs) + 1 >= HiWat) \in BOOLEAN
    OBVIOUS
<1> QED
    BY <1>1, <1>2, <1>3 DEF QueueRecs, Putq, Putbq

\* getq
LEMMA GetqDoes ==
    ASSUME QueueTypes, \A q \in {"line", "disp"} : wq[q].full => wq[q].msgs # <<>>,
           NEW q \in {"line", "disp"}, Getq(q)
    PROVE  /\ wq' \in [{"line", "disp"} -> QueueRecs] /\ runq' \in Seq(Queues)
           /\ \A r \in {"line", "disp"} : r # q => wq'[r] = wq[r]
           /\ wq'[q].msgs = IF wq[q].msgs = <<>> THEN <<>> ELSE Tail(wq[q].msgs)
           /\ wq'[q].wantr <=> wq[q].msgs = <<>>
           /\ wq'[q].full => wq'[q].msgs # <<>>
           /\ wq'[q].wantw => wq[q].wantw /\ wq'[q].msgs # <<>>
           /\ wq[q].wantw /\ ~wq'[q].wantw => Backq[q] \in Range(runq')
           /\ Range(runq) \subseteq Range(runq')
<1> DEFINE Q == wq[q]
           R == Taken(Q)
<1>t. Q \in QueueRecs /\ Q.msgs \in Seq(Messages) /\ Q.full \in BOOLEAN /\ Q.wantw \in BOOLEAN
    BY DEF QueueTypes, QueueRecs
<1>b. Backq[q] \in Queues
    BY DEF Backq, Queues
<1>2. /\ R \in QueueRecs
      /\ R.msgs = IF Q.msgs = <<>> THEN <<>> ELSE Tail(Q.msgs)
      /\ R.wantr <=> Q.msgs = <<>>
      /\ R.full => R.msgs # <<>>
      /\ R.wantw = Q.wantw
    <2>1. CASE Q.msgs = <<>>
        <3>1. ~Q.full
            BY <2>1
        <3> QED
            BY <1>t, <2>1, <3>1 DEF Taken, QueueRecs
    <2>2. CASE Q.msgs # <<>>
        <3>1. Tail(Q.msgs) \in Seq(Messages) /\ Len(Tail(Q.msgs)) = Len(Q.msgs) - 1
            BY <1>t, <2>2
        <3>2. Len(Q.msgs) - 1 >= HiWat => Tail(Q.msgs) # <<>>
            <4>1. Len(Q.msgs) \in Nat /\ HiWat \in Nat /\ HiWat # 0 /\ Len(<<>>) = 0
                BY <1>t, HiWatAssumption
            <4>2. Tail(Q.msgs) = <<>> => Len(Q.msgs) - 1 = 0
                BY <3>1, <4>1
            <4>3. \A n \in Int : n = 0 => ~(n >= HiWat)
                BY HiWatAssumption
            <4>4. Len(Q.msgs) - 1 \in Int
                BY <4>1
            <4> QED
                BY <4>2, <4>3, <4>4
        <3>3. R = [Q EXCEPT !.msgs = Tail(@), !.wantr = FALSE, !.full = @ /\ Len(Q.msgs) - 1 >= HiWat]
            BY <2>2 DEF Taken
        <3>4. (Q.full /\ Len(Q.msgs) - 1 >= HiWat) \in BOOLEAN
            OBVIOUS
        <3> QED
            BY <1>t, <2>2, <3>1, <3>2, <3>3, <3>4 DEF QueueRecs
    <2> QED
        BY <2>1, <2>2
<1> HIDE DEF R
<1>3. wq' = [wq EXCEPT ![q] = [R EXCEPT !.wantw = @ /\ ~Writable(R)]]
    BY DEF Getq, R
<1>4. runq' = QenableIf(Writable(R), runq, Backq[q])
    BY DEF Getq, R
<1>5. Writable(R) \in BOOLEAN
    BY DEF Writable
<1>6. R.wantw /\ ~Writable(R) => R.msgs # <<>>
    <2>1. Len(<<>>) <= HiWat
        BY HiWatAssumption
    <2> QED
        BY <2>1 DEF Writable
<1>7. runq' \in Seq(Queues) /\ Range(runq') = Range(runq) \cup IF Writable(R) THEN {Backq[q]} ELSE {}
    BY <1>b, <1>4, <1>5, QenableAdds DEF QueueTypes
<1>8. [R EXCEPT !.wantw = @ /\ ~Writable(R)] \in QueueRecs
    BY <1>2 DEF QueueRecs
<1>9. /\ wq'[q].msgs = R.msgs /\ wq'[q].wantr = R.wantr /\ wq'[q].full = R.full
      /\ wq'[q].wantw <=> R.wantw /\ ~Writable(R)
    BY <1>2, <1>3 DEF QueueTypes, QueueRecs
<1>10. wq' \in [{"line", "disp"} -> QueueRecs] /\ \A r \in {"line", "disp"} : r # q => wq'[r] = wq[r]
    BY <1>3, <1>8 DEF QueueTypes
<1> QED
    BY <1>2, <1>6, <1>7, <1>9, <1>10

\* flushq
LEMMA KeptDoes ==
    ASSUME NEW Q \in QueueRecs
    PROVE  /\ Kept(Q) \in QueueRecs
           /\ Kept(Q).msgs = NotData(Q.msgs) /\ NotData(Q.msgs) \in Seq(Messages)
           /\ Kept(Q).wantr = Q.wantr /\ Kept(Q).wantw = Q.wantw
           /\ Kept(Q).full => Kept(Q).msgs # <<>>
           /\ Q.wantw /\ Kept(Q).msgs = <<>> => Writable(Kept(Q))
<1>1. NotData(Q.msgs) \in Seq(Messages)
    BY NotDataKeeps DEF QueueRecs
<1>2. Kept(Q) = [Q EXCEPT !.msgs = NotData(Q.msgs), !.full = Len(NotData(Q.msgs)) >= HiWat]
    BY DEF Kept
<1>3. (Len(NotData(Q.msgs)) >= HiWat) \in BOOLEAN
    OBVIOUS
<1>4. Kept(Q).msgs = NotData(Q.msgs) /\ Kept(Q).full = (Len(NotData(Q.msgs)) >= HiWat)
    BY <1>2 DEF QueueRecs
<1>5. Len(<<>>) <= HiWat /\ ~(Len(<<>>) >= HiWat)
    BY HiWatAssumption
<1> QED
    BY <1>1, <1>2, <1>3, <1>4, <1>5 DEF QueueRecs, Writable

\* An interrupt character
LEMMA KeyIntrDoes ==
    ASSUME QueueTypes, KeyIntr
    PROVE  /\ wq' \in [{"line", "disp"} -> QueueRecs]
           /\ \A q \in {"line", "disp"} :
                 /\ wq'[q].msgs = NotData(wq[q].msgs)
                 /\ wq'[q].full => wq'[q].msgs # <<>>
                 /\ wq'[q].wantr = wq[q].wantr /\ wq'[q].wantw = wq[q].wantw
           /\ runq' \in Seq(Queues) /\ Range(runq) \cup {"disp"} \subseteq Range(runq')
           /\ wq["line"].wantr /\ wq'["line"].msgs # <<>> => "line" \in Range(runq')
           /\ wq["disp"].wantw /\ wq'["disp"].msgs = <<>> => "line" \in Range(runq')
           /\ tty'.xm = NoBlock /\ tty' \in [xm : {NoBlock}, stop : BOOLEAN, brk : BOOLEAN]
           /\ tty'.brk = tty.brk
<1> DEFINE line == Kept(wq["line"])
           disp == Kept(wq["disp"])
           r0 == QenableIf(PutBack("line"), runq, "line")
           r1 == QenableIf(Writable(line), r0, "head")
           r2 == QenableIf(PutBack("disp"), r1, "disp")
           r3 == QenableIf(Writable(disp), r2, "line")
<1>1. wq' = [line |-> line, disp |-> disp] /\ runq' = Qenable(r3, "disp")
    BY DEF KeyIntr
<1>t. wq["line"] \in QueueRecs /\ wq["disp"] \in QueueRecs /\ runq \in Seq(Queues)
    BY DEF QueueTypes
<1>q. "line" \in Queues /\ "disp" \in Queues /\ "head" \in Queues
    BY DEF Queues
<1>b. /\ PutBack("line") \in BOOLEAN /\ Writable(line) \in BOOLEAN
      /\ PutBack("disp") \in BOOLEAN /\ Writable(disp) \in BOOLEAN
    BY <1>t DEF PutBack, Writable, QueueRecs
<1> HIDE DEF line, disp
<1>2. r0 \in Seq(Queues) /\ Range(r0) = Range(runq) \cup IF PutBack("line") THEN {"line"} ELSE {}
    BY <1>t, <1>q, <1>b, QenableAdds
<1> HIDE DEF r0
<1>3. r1 \in Seq(Queues) /\ Range(r1) = Range(r0) \cup IF Writable(line) THEN {"head"} ELSE {}
    BY <1>2, <1>q, <1>b, QenableAdds
<1> HIDE DEF r1
<1>4. r2 \in Seq(Queues) /\ Range(r2) = Range(r1) \cup IF PutBack("disp") THEN {"disp"} ELSE {}
    BY <1>3, <1>q, <1>b, QenableAdds
<1> HIDE DEF r2
<1>5. r3 \in Seq(Queues) /\ Range(r3) = Range(r2) \cup IF Writable(disp) THEN {"line"} ELSE {}
    BY <1>4, <1>q, <1>b, QenableAdds
<1> HIDE DEF r3
<1>6. runq' \in Seq(Queues) /\ Range(runq') = Range(r3) \cup {"disp"}
    <2>1. TRUE \in BOOLEAN
        OBVIOUS
    <2> QED
        BY <1>1, <1>5, <1>q, <2>1, QenableAdds
<1>7. wq'["line"] = line /\ wq'["disp"] = disp
    BY <1>1
<1>8. line \in QueueRecs /\ disp \in QueueRecs
    BY <1>t, KeptDoes DEF line, disp
<1>9. wq' \in [{"line", "disp"} -> QueueRecs]
    BY <1>1, <1>8
<1>10. \A q \in {"line", "disp"} : /\ wq'[q].msgs = NotData(wq[q].msgs)
                                   /\ wq'[q].full => wq'[q].msgs # <<>>
                                   /\ wq'[q].wantr = wq[q].wantr /\ wq'[q].wantw = wq[q].wantw
    BY <1>t, <1>7, KeptDoes DEF line, disp
<1>11. wq["line"].wantr /\ wq'["line"].msgs # <<>> => PutBack("line")
    BY <1>7 DEF PutBack, line
<1>12. wq["disp"].wantw /\ wq'["disp"].msgs = <<>> => Writable(disp)
    BY <1>t, <1>7, KeptDoes DEF disp
<1>13. tty' = [tty EXCEPT !.xm = NoBlock, !.stop = FALSE]
    BY DEF KeyIntr
<1>14. /\ tty'.xm = NoBlock /\ tty'.brk = tty.brk
       /\ tty' \in [xm : {NoBlock}, stop : BOOLEAN, brk : BOOLEAN]
    BY <1>13 DEF QueueTypes
<1> QED
    BY <1>2, <1>3, <1>4, <1>5, <1>6, <1>9, <1>10, <1>11, <1>12, <1>14

-----------------------------------------------------------------------------
(* What the steps of a process do to the queues                            *)

QueuesStay == UNCHANGED <<wq, runq, serving, tty, nmsg, owed, last>>
Numbered == nmsg' = nmsg + 1 /\ UNCHANGED <<wq, runq, serving, tty, owed, last>>
WantsRoom == /\ wq' = [wq EXCEPT !["line"].wantw = TRUE]
             /\ UNCHANGED <<runq, serving, tty, nmsg, owed, last>>
Sends == /\ serving = NotServing
         /\ \E c \in Cmds : SendDown([id |-> nmsg + 1, cmd |-> c])
         /\ UNCHANGED <<serving, tty, last>>

ProcessStep(p) == \/ StrWrite(p) \/ WriteInterrupted(p) \/ WriteCopied(p) \/ WriteDone(p)
                  \/ IoctlBegin(p) \/ IoctlAgain(p) \/ IoctlNotBegun(p)
                  \/ IoctlSent(p) \/ IoctlAnswered(p) \/ IoctlCopiedOut(p) \/ IoctlGivenUp(p)

LEMMA SendIoctlKinds ==
    ASSUME NEW p, NEW S, NEW req, SendIoctl(p, S, req), serving = NotServing,
           UNCHANGED <<serving, tty, last>>
    PROVE  Numbered \/ Sends
BY DEF SendIoctl, Numbered, Sends, Cmds

LEMMA ProcessKinds ==
    ASSUME NEW p \in Procs, ProcessStep(p)
    PROVE  QueuesStay \/ Numbered \/ WantsRoom \/ Sends
<1>1. CASE StrWrite(p)
    BY <1>1 DEF StrWrite, Cpu, PutData, QueuesStay, WantsRoom, Sends, Cmds
<1>2. CASE WriteInterrupted(p)
    BY <1>2 DEF WriteInterrupted, QueuesStay
<1>3. CASE WriteCopied(p)
    BY <1>3 DEF WriteCopied, Cpu, PutData, QueuesStay, Sends, Cmds
<1>4. CASE WriteDone(p)
    BY <1>4 DEF WriteDone, QueuesStay
<1>5. CASE IoctlBegin(p)
    BY <1>5, SendIoctlKinds DEF IoctlBegin, Cpu, QueuesStay
<1>6. CASE IoctlAgain(p)
    BY <1>6, SendIoctlKinds DEF IoctlAgain, Cpu, QueuesStay
<1>7. CASE IoctlNotBegun(p)
    BY <1>7 DEF IoctlNotBegun, QueuesStay
<1>8. CASE IoctlSent(p)
    BY <1>8 DEF IoctlSent, QueuesStay
<1>9. CASE IoctlAnswered(p)
    BY <1>9 DEF IoctlAnswered, QueuesStay
<1>10. CASE IoctlCopiedOut(p)
    BY <1>10 DEF IoctlCopiedOut, QueuesStay
<1>11. CASE IoctlGivenUp(p)
    BY <1>11 DEF IoctlGivenUp, QueuesStay
<1> QED
    BY <1>1, <1>2, <1>3, <1>4, <1>5, <1>6, <1>7, <1>8, <1>9, <1>10, <1>11
       DEF ProcessStep

QueueStep == \/ Queuerun \/ Strwsrv \/ LineGet \/ LineCanput \/ LinePutnext \/ LinePutbq
             \/ DispPoke \/ DispGet \/ DispData \/ DispIoctl
             \/ KeyStop \/ KeyStart \/ KeyIntr \/ BreakOver

LEMMA StrNextKinds ==
    ASSUME StrNext PROVE QueuesStay \/ Numbered \/ WantsRoom \/ Sends \/ QueueStep
<1>1. CASE \E p \in Procs : ProcessStep(p)
    BY <1>1, ProcessKinds
<1>2. CASE Str2time
    BY <1>2 DEF Str2time, QueuesStay
<1>3. CASE Str3time
    BY <1>3 DEF Str3time, QueuesStay
<1> QED
    BY <1>1, <1>2, <1>3 DEF StrNext, ProcessStep, QueueStep

LEMMA SendsDo ==
    ASSUME QueueTypes, Sends
    PROVE  \E m \in Messages :
              /\ m.id = nmsg + 1
              /\ wq' \in [{"line", "disp"} -> QueueRecs] /\ wq'["disp"] = wq["disp"]
              /\ wq'["line"].msgs = Append(wq["line"].msgs, m) /\ wq'["line"].msgs # <<>>
              /\ wq'["line"].wantr = wq["line"].wantr
              /\ runq' \in Seq(Queues) /\ nmsg' = nmsg + 1 /\ owed' = owed \cup {m.id}
              /\ Range(runq') = Range(runq) \cup IF wq["line"].wantr THEN {"line"} ELSE {}
<1>1. PICK c \in Cmds : SendDown([id |-> nmsg + 1, cmd |-> c])
    BY DEF Sends
<1> DEFINE m == [id |-> nmsg + 1, cmd |-> c]
<1>2. m \in Messages /\ m.id = nmsg + 1
    BY DEF QueueTypes, Messages
<1> HIDE DEF m
<1>3. /\ wq' = [wq EXCEPT !["line"] = Putq(wq["line"], m)]
      /\ runq' = QenableIf(wq["line"].wantr, runq, "line")
      /\ nmsg' = m.id /\ owed' = owed \cup {m.id}
    BY <1>1 DEF SendDown, m
<1>4. wq["line"] \in QueueRecs /\ wq["line"].wantr \in BOOLEAN
    BY DEF QueueTypes, QueueRecs
<1>5. runq' \in Seq(Queues) /\ Range(runq') = Range(runq) \cup IF wq["line"].wantr THEN {"line"} ELSE {}
    <2>1. "line" \in Queues
        BY DEF Queues
    <2> QED
        BY <1>3, <1>4, <2>1, QenableAdds DEF QueueTypes
<1>6. /\ wq' \in [{"line", "disp"} -> QueueRecs] /\ wq'["disp"] = wq["disp"]
      /\ wq'["line"] = Putq(wq["line"], m)
    BY <1>2, <1>3, <1>4, PutqTypes DEF QueueTypes
<1> QED
    BY <1>2, <1>3, <1>4, <1>5, <1>6, PutqTypes

QueueInv == QueueTypes /\ ServiceKept /\ StallInv

\* The end of a service procedure
LEMMA ServedDoes ==
    ASSUME QueueServed
    PROVE  /\ serving'.q \in {"none", "next"} /\ serving'.m = NoBlock /\ serving'.step = "get"
           /\ serving' \in [q : Queues \cup {"none", "next"}, m : Messages \cup {NoBlock},
                            step : {"get", "canput", "putbq", "putnext", "handle"}]
BY DEF QueueServed, NotServing

\* The steps that are not about the output
LEMMA StallProcess ==
    ASSUME QueueInv, QueuesStay \/ Numbered \/ WantsRoom \/ Sends
    PROVE  QueueInv'
<1>1. CASE QueuesStay \/ Numbered
    BY <1>1 DEF QueuesStay, Numbered, QueueInv, QueueTypes, ServiceKept, StallInv, Enabled
<1>2. CASE WantsRoom
    <2>1. /\ wq' \in [{"line", "disp"} -> QueueRecs] /\ wq'["disp"] = wq["disp"]
          /\ \A q \in {"line", "disp"} : /\ wq'[q].msgs = wq[q].msgs /\ wq'[q].full = wq[q].full
                                         /\ wq'[q].wantr = wq[q].wantr
        BY <1>2 DEF WantsRoom, QueueInv, QueueTypes, QueueRecs
    <2> QED
        BY <1>2, <2>1 DEF WantsRoom, QueueInv, QueueTypes, ServiceKept, StallInv, Enabled
<1>3. CASE Sends
    <2>1. PICK m \in Messages :
              /\ m.id = nmsg + 1
              /\ wq' \in [{"line", "disp"} -> QueueRecs] /\ wq'["disp"] = wq["disp"]
              /\ wq'["line"].msgs = Append(wq["line"].msgs, m) /\ wq'["line"].msgs # <<>>
              /\ wq'["line"].wantr = wq["line"].wantr
              /\ runq' \in Seq(Queues) /\ nmsg' = nmsg + 1 /\ owed' = owed \cup {m.id}
              /\ Range(runq') = Range(runq) \cup IF wq["line"].wantr THEN {"line"} ELSE {}
        BY <1>3, SendsDo DEF QueueInv
    <2>2. UNCHANGED <<serving, tty>> /\ nmsg' \in Nat
        BY <1>3, <2>1 DEF Sends, QueueInv, QueueTypes
    <2>3. QueueTypes' /\ ServiceKept'
        BY <2>1, <2>2 DEF QueueInv, QueueTypes, ServiceKept
    <2>4. StallInv'
        BY <2>1, <2>2 DEF QueueInv, StallInv, Enabled
    <2> QED
        BY <2>3, <2>4 DEF QueueInv
<1> QED
    BY <1>1, <1>2, <1>3

\* queuerun and the service procedures above the display
LEMMA StallLine ==
    ASSUME QueueInv, Queuerun \/ Strwsrv \/ LineGet \/ LineCanput \/ LinePutnext \/ LinePutbq
    PROVE  QueueInv'
<1>t. /\ QueueTypes /\ ServiceKept /\ StallInv /\ wq["line"] \in QueueRecs
      /\ wq["disp"] \in QueueRecs
    BY DEF QueueInv, QueueTypes
<1>q. "line" \in Queues /\ "disp" \in Queues /\ "head" \in Queues
    BY DEF Queues
<1>1. CASE Queuerun
    <2> USE <1>1 DEF Queuerun, NotServing
    <2>1. /\ Head(runq) \in Queues /\ Tail(runq) \in Seq(Queues)
          /\ Range(runq) = {Head(runq)} \cup Range(Tail(runq))
        BY <1>t, HeadAndTail DEF QueueTypes
    <2>2. serving' = [q |-> Head(runq), m |-> NoBlock, step |-> "get"]
        OBVIOUS
    <2>3. QueueTypes' /\ ServiceKept'
        BY <1>t, <2>1, <2>2 DEF QueueTypes, ServiceKept
    <2>4. \A q \in {"line", "disp"} : Enabled(q) => Enabled(q)'
        BY <2>1, <2>2 DEF Enabled
    <2>5. StallInv'
        BY <1>t, <2>2, <2>4 DEF StallInv
    <2> QED
        BY <2>3, <2>5 DEF QueueInv
<1>2. CASE Strwsrv
    <2> USE <1>2 DEF Strwsrv, Serves
    <2>1. QueueTypes' /\ ServiceKept'
        BY <1>t, ServedDoes DEF QueueTypes, ServiceKept
    <2>2. \A q \in {"line", "disp"} : Enabled(q) => Enabled(q)'
        BY DEF Enabled
    <2>3. StallInv'
        BY <1>t, <2>2, ServedDoes DEF StallInv
    <2> QED
        BY <2>1, <2>3 DEF QueueInv
<1>3. CASE LineGet
    <2> USE <1>3 DEF LineGet, Serves
    <2>1. /\ wq' \in [{"line", "disp"} -> QueueRecs] /\ runq' \in Seq(Queues)
          /\ wq'["disp"] = wq["disp"]
          /\ wq'["line"].msgs = IF wq["line"].msgs = <<>> THEN <<>> ELSE Tail(wq["line"].msgs)
          /\ wq'["line"].wantr <=> wq["line"].msgs = <<>>
          /\ wq'["line"].full => wq'["line"].msgs # <<>>
          /\ Range(runq) \subseteq Range(runq')
        BY <1>t, GetqDoes DEF StallInv
    <2>2. CASE wq["line"].msgs = <<>>
        <3>1. QueueServed
            BY <2>2
        <3>2. QueueTypes' /\ ServiceKept'
            BY <1>t, <2>1, <3>1, ServedDoes DEF QueueTypes, ServiceKept
        <3>3. StallInv'
            BY <1>t, <2>1, <2>2, <3>1, ServedDoes DEF StallInv, Enabled
        <3> QED
            BY <3>2, <3>3 DEF QueueInv
    <2>3. CASE wq["line"].msgs # <<>>
        <3>1. serving' = [serving EXCEPT !.m = Head(wq["line"].msgs), !.step = "canput"]
            BY <2>3
        <3>2. Head(wq["line"].msgs) \in Messages /\ NoBlock \notin Messages
            BY <1>t, <2>3, HeadAndTail DEF QueueRecs, NoBlock, Messages
        <3>3. QueueTypes' /\ ServiceKept'
            BY <1>t, <2>1, <3>1, <3>2 DEF QueueTypes, ServiceKept
        <3>4. StallInv'
            BY <1>t, <2>1, <3>1 DEF StallInv, Enabled, QueueTypes
        <3> QED
            BY <3>3, <3>4 DEF QueueInv
    <2> QED
        BY <2>2, <2>3
<1>4. CASE LineCanput
    <2> USE <1>4 DEF LineCanput, Serves
    <2>1. /\ wq' \in [{"line", "disp"} -> QueueRecs] /\ wq'["line"] = wq["line"]
          /\ wq'["disp"].msgs = wq["disp"].msgs /\ wq'["disp"].full = wq["disp"].full
          /\ wq'["disp"].wantr = wq["disp"].wantr
          /\ wq'["disp"].wantw <=> wq["disp"].wantw \/ wq["disp"].full
        BY <1>t DEF QueueTypes, QueueRecs
    <2>2. /\ serving' \in [q : {"line"}, m : {serving.m}, step : {"putbq", "putnext"}]
          /\ serving'.step = "putbq" => wq["disp"].full
        BY <1>t DEF QueueTypes
    <2>3. QueueTypes' /\ ServiceKept'
        BY <1>t, <1>q, <2>1, <2>2 DEF QueueTypes, ServiceKept
    <2>4. StallInv'
        BY <1>t, <2>1, <2>2 DEF StallInv, Enabled
    <2> QED
        BY <2>3, <2>4 DEF QueueInv
<1>5. CASE LinePutnext
    <2> USE <1>5 DEF LinePutnext, Serves
    <2>1. serving.m \in Messages /\ NoBlock \notin Messages
        BY <1>t DEF QueueTypes, ServiceKept, Messages, NoBlock
    <2>2. /\ wq' \in [{"line", "disp"} -> QueueRecs] /\ wq'["line"] = wq["line"]
          /\ wq'["disp"] = Putq(wq["disp"], serving.m)
        BY <1>t, <2>1, PutqTypes DEF QueueTypes
    <2>3. /\ wq'["disp"].msgs # <<>> /\ wq'["disp"].wantr = wq["disp"].wantr
          /\ wq'["disp"].wantw = wq["disp"].wantw
        BY <1>t, <2>1, <2>2, PutqTypes
    <2>4. /\ runq' \in Seq(Queues)
          /\ Range(runq') = Range(runq) \cup IF wq["disp"].wantr THEN {"disp"} ELSE {}
        BY <1>t, <1>q, QenableAdds DEF QueueTypes, QueueRecs
    <2>5. serving' = [q |-> "line", m |-> NoBlock, step |-> "get"]
        BY <1>t DEF QueueTypes
    <2>6. QueueTypes' /\ ServiceKept'
        BY <1>t, <1>q, <2>2, <2>4, <2>5 DEF QueueTypes, ServiceKept
    <2>7. StallInv'
        BY <1>t, <2>2, <2>3, <2>4, <2>5 DEF StallInv, Enabled
    <2> QED
        BY <2>6, <2>7 DEF QueueInv
<1>6. CASE LinePutbq
    <2> USE <1>6 DEF LinePutbq, Serves
    <2>1. serving.m \in Messages
        BY <1>t DEF QueueTypes, ServiceKept
    <2>2. /\ wq' \in [{"line", "disp"} -> QueueRecs] /\ wq'["disp"] = wq["disp"]
          /\ wq'["line"] = Putbq(wq["line"], serving.m)
        BY <1>t, <2>1, PutqTypes DEF QueueTypes
    <2>3. wq'["line"].msgs # <<>> /\ wq'["line"].wantr = wq["line"].wantr
        BY <1>t, <2>1, <2>2, PutqTypes
    <2>4. /\ runq' \in Seq(Queues)
          /\ Range(runq') = Range(runq) \cup IF wq["line"].wantr THEN {"line"} ELSE {}
        BY <1>t, <1>q, QenableAdds DEF QueueTypes, QueueRecs
    <2>5. QueueTypes' /\ ServiceKept'
        BY <1>t, <2>2, <2>4, ServedDoes DEF QueueTypes, ServiceKept
    <2>6. StallInv'
        BY <1>t, <2>2, <2>3, <2>4, ServedDoes DEF StallInv, Enabled
    <2> QED
        BY <2>5, <2>6 DEF QueueInv
<1> QED
    BY <1>1, <1>2, <1>3, <1>4, <1>5, <1>6

\* disp_proc: the message is output, or held back
LEMMA OutputDoes ==
    ASSUME QueueTypes, NEW m \in Messages, m.cmd = "data", Output(m, runq)
    PROVE  \/ /\ tty.stop \/ tty.brk
              /\ tty' = [xm |-> m, stop |-> tty.stop, brk |-> tty.brk]
              /\ UNCHANGED <<runq, owed, last>>
           \/ /\ ~tty.stop /\ ~tty.brk
              /\ tty' = [xm |-> NoBlock, stop |-> tty.stop, brk |-> tty.brk]
              /\ runq' \in Seq(Queues) /\ Range(runq') = Range(runq) \cup {"disp"}
              /\ owed' = owed \ {m.id} /\ last' = m.id
<1>q. "disp" \in Queues /\ TRUE \in BOOLEAN
    BY DEF Queues
<1>1. Qenable(runq, "disp") \in Seq(Queues) /\ Range(Qenable(runq, "disp")) = Range(runq) \cup {"disp"}
    BY <1>q, QenableAdds DEF QueueTypes
<1> QED
    BY <1>1 DEF Output, Handled, QueueTypes

\* The display's service procedure
LEMMA StallDisp ==
    ASSUME QueueInv, DispPoke \/ DispGet \/ DispData \/ DispIoctl
    PROVE  QueueInv'
<1>t. /\ QueueTypes /\ ServiceKept /\ StallInv /\ wq["line"] \in QueueRecs
      /\ wq["disp"] \in QueueRecs
    BY DEF QueueInv, QueueTypes
<1>q. "line" \in Queues /\ "disp" \in Queues /\ "head" \in Queues
    BY DEF Queues
<1>n. NoBlock \notin Messages
    BY DEF NoBlock, Messages
<1>1. CASE DispPoke
    <2> USE <1>1 DEF DispPoke, Serves
    <2>1. CASE tty.xm # NoBlock /\ Output(tty.xm, runq)
        <3>1. tty.xm \in Messages /\ tty.xm.cmd = "data" /\ ~tty.brk
            BY <1>t, <2>1 DEF QueueTypes, ServiceKept
        <3>2. \/ /\ tty.stop \/ tty.brk
                 /\ tty' = [xm |-> tty.xm, stop |-> tty.stop, brk |-> tty.brk]
                 /\ UNCHANGED <<runq, owed, last>>
              \/ /\ ~tty.stop /\ ~tty.brk
                 /\ tty' = [xm |-> NoBlock, stop |-> tty.stop, brk |-> tty.brk]
                 /\ runq' \in Seq(Queues) /\ Range(runq') = Range(runq) \cup {"disp"}
                 /\ owed' = owed \ {tty.xm.id} /\ last' = tty.xm.id
            BY <1>t, <2>1, <3>1, OutputDoes
        <3>3. QueueTypes' /\ ServiceKept'
            BY <1>t, <3>1, <3>2, ServedDoes DEF QueueTypes, ServiceKept
        <3>4. StallInv'
            BY <1>t, <2>1, <3>1, <3>2, ServedDoes DEF StallInv, Enabled
        <3> QED
            BY <3>3, <3>4 DEF QueueInv
    <2>2. CASE tty.xm = NoBlock /\ tty.brk /\ UNCHANGED <<runq, tty, owed, last>>
        <3>1. QueueTypes' /\ ServiceKept'
            BY <1>t, <2>2, ServedDoes DEF QueueTypes, ServiceKept
        <3>2. StallInv'
            BY <1>t, <2>2, ServedDoes DEF StallInv, Enabled
        <3> QED
            BY <3>1, <3>2 DEF QueueInv
    <2> QED
        BY <2>1, <2>2
<1>2. CASE DispGet
    <2> USE <1>2 DEF DispGet, Serves
    <2>1. /\ wq' \in [{"line", "disp"} -> QueueRecs] /\ runq' \in Seq(Queues)
          /\ wq'["line"] = wq["line"]
          /\ wq'["disp"].msgs = IF wq["disp"].msgs = <<>> THEN <<>> ELSE Tail(wq["disp"].msgs)
          /\ wq'["disp"].wantr <=> wq["disp"].msgs = <<>>
          /\ wq'["disp"].full => wq'["disp"].msgs # <<>>
          /\ wq'["disp"].wantw => wq["disp"].wantw /\ wq'["disp"].msgs # <<>>
          /\ wq["disp"].wantw /\ ~wq'["disp"].wantw => "line" \in Range(runq')
          /\ Range(runq) \subseteq Range(runq')
        BY <1>t, GetqDoes DEF StallInv, Backq
    <2>2. CASE wq["disp"].msgs = <<>>
        <3>1. QueueServed
            BY <2>2
        <3>2. QueueTypes' /\ ServiceKept'
            BY <1>t, <2>1, <3>1, ServedDoes DEF QueueTypes, ServiceKept
        <3>3. StallInv'
            BY <1>t, <2>1, <2>2, <3>1, ServedDoes DEF StallInv, Enabled
        <3> QED
            BY <3>2, <3>3 DEF QueueInv
    <2>3. CASE wq["disp"].msgs # <<>>
        <3>1. serving' = [serving EXCEPT !.m = Head(wq["disp"].msgs), !.step = "handle"]
            BY <2>3
        <3>2. Head(wq["disp"].msgs) \in Messages
            BY <1>t, <2>3, HeadAndTail DEF QueueRecs
        <3>3. QueueTypes' /\ ServiceKept'
            BY <1>t, <1>n, <2>1, <3>1, <3>2 DEF QueueTypes, ServiceKept
        <3>4. StallInv'
            BY <1>t, <2>1, <3>1 DEF StallInv, Enabled, QueueTypes
        <3> QED
            BY <3>3, <3>4 DEF QueueInv
    <2> QED
        BY <2>2, <2>3
<1>3. CASE DispData
    <2> USE <1>3 DEF DispData, Serves
    <2>1. serving.m \in Messages /\ serving.m.cmd = "data" /\ ~tty.brk /\ tty.xm = NoBlock
        BY <1>t DEF QueueTypes, ServiceKept
    <2>2. \/ /\ tty.stop \/ tty.brk
             /\ tty' = [xm |-> serving.m, stop |-> tty.stop, brk |-> tty.brk]
             /\ UNCHANGED <<runq, owed, last>>
          \/ /\ ~tty.stop /\ ~tty.brk
             /\ tty' = [xm |-> NoBlock, stop |-> tty.stop, brk |-> tty.brk]
             /\ runq' \in Seq(Queues) /\ Range(runq') = Range(runq) \cup {"disp"}
             /\ owed' = owed \ {serving.m.id} /\ last' = serving.m.id
        BY <1>t, <2>1, OutputDoes
    <2>3. QueueTypes' /\ ServiceKept'
        BY <1>t, <1>n, <2>1, <2>2, ServedDoes DEF QueueTypes, ServiceKept
    <2>4. StallInv'
        BY <1>t, <1>n, <2>1, <2>2, ServedDoes DEF StallInv, Enabled
    <2> QED
        BY <2>3, <2>4 DEF QueueInv
<1>4. CASE DispIoctl
    <2> USE <1>4 DEF DispIoctl, Serves
    <2>1. /\ serving' = [q |-> "disp", m |-> NoBlock, step |-> "get"]
          /\ tty.xm = NoBlock /\ UNCHANGED <<wq, runq, nmsg>>
          /\ tty' \in [xm : {NoBlock}, stop : {tty.stop}, brk : BOOLEAN]
        BY <1>t DEF QueueTypes, ServiceKept
    <2>2. QueueTypes' /\ ServiceKept'
        BY <1>t, <1>q, <2>1 DEF QueueTypes, ServiceKept
    <2>3. StallInv'
        BY <1>t, <2>1 DEF StallInv, Enabled
    <2> QED
        BY <2>2, <2>3 DEF QueueInv
<1> QED
    BY <1>1, <1>2, <1>3, <1>4

\* Interrupts: but for the stop character, each enables the display's queue
LEMMA StallInterrupt ==
    ASSUME QueueInv, KeyStop \/ KeyStart \/ KeyIntr \/ BreakOver
    PROVE  QueueInv'
<1>t. QueueTypes /\ ServiceKept /\ StallInv
    BY DEF QueueInv
<1>q. "disp" \in Queues /\ TRUE \in BOOLEAN
    BY DEF Queues
<1>e. Qenable(runq, "disp") \in Seq(Queues) /\ Range(Qenable(runq, "disp")) = Range(runq) \cup {"disp"}
    BY <1>t, <1>q, QenableAdds DEF QueueTypes
<1>1. CASE KeyStop
    <2> USE <1>1 DEF KeyStop
    <2>1. tty' = [xm |-> tty.xm, stop |-> TRUE, brk |-> tty.brk]
        BY <1>t DEF QueueTypes
    <2>2. QueueTypes' /\ ServiceKept'
        BY <1>t, <2>1 DEF QueueTypes, ServiceKept
    <2>3. StallInv'
        BY <1>t, <2>1 DEF StallInv, Enabled
    <2> QED
        BY <2>2, <2>3 DEF QueueInv
<1>2. CASE KeyStart
    <2> USE <1>2 DEF KeyStart, Resume
    <2>1. tty' = [xm |-> tty.xm, stop |-> FALSE, brk |-> tty.brk]
        BY <1>t DEF QueueTypes
    <2>2. QueueTypes' /\ ServiceKept'
        BY <1>t, <1>e, <2>1 DEF QueueTypes, ServiceKept
    <2>3. StallInv'
        BY <1>t, <1>e, <2>1 DEF StallInv, Enabled
    <2> QED
        BY <2>2, <2>3 DEF QueueInv
<1>3. CASE KeyIntr
    <2> USE <1>3
    <2>1. UNCHANGED <<serving, nmsg>>
        BY DEF KeyIntr
    <2>2. /\ wq' \in [{"line", "disp"} -> QueueRecs]
          /\ \A q \in {"line", "disp"} :
                /\ wq'[q].full => wq'[q].msgs # <<>>
                /\ wq'[q].wantr = wq[q].wantr /\ wq'[q].wantw = wq[q].wantw
          /\ runq' \in Seq(Queues) /\ Range(runq) \cup {"disp"} \subseteq Range(runq')
          /\ wq["line"].wantr /\ wq'["line"].msgs # <<>> => "line" \in Range(runq')
          /\ wq["disp"].wantw /\ wq'["disp"].msgs = <<>> => "line" \in Range(runq')
          /\ tty'.xm = NoBlock /\ tty' \in [xm : {NoBlock}, stop : BOOLEAN, brk : BOOLEAN]
          /\ tty'.brk = tty.brk
        BY <1>t, KeyIntrDoes
    <2>3. QueueTypes' /\ ServiceKept'
        BY <1>t, <2>1, <2>2 DEF QueueTypes, ServiceKept
    <2>4. StallInv'
        BY <1>t, <2>1, <2>2 DEF StallInv, Enabled
    <2> QED
        BY <2>3, <2>4 DEF QueueInv
<1>4. CASE BreakOver
    <2> USE <1>4 DEF BreakOver
    <2>1. tty' = [xm |-> tty.xm, stop |-> tty.stop, brk |-> FALSE]
        BY <1>t DEF QueueTypes
    <2>2. QueueTypes' /\ ServiceKept'
        BY <1>t, <1>e, <2>1 DEF QueueTypes, ServiceKept
    <2>3. StallInv'
        BY <1>t, <1>e, <2>1 DEF StallInv, Enabled
    <2> QED
        BY <2>2, <2>3 DEF QueueInv
<1> QED
    BY <1>1, <1>2, <1>3, <1>4

\* Every step keeps the queues served
LEMMA QueuesKept == StrSpec => []QueueInv
<1>1. StrInit => QueueInv
    <2> SUFFICES ASSUME StrInit PROVE QueueInv
        OBVIOUS
    <2>1. QueueTypes /\ ServiceKept
        BY DEF StrInit, QueueTypes, QueueRecs, ServiceKept, NotServing, NoBlock
    <2>2. StallInv
        BY DEF StrInit, StallInv, NotServing
    <2> QED
        BY <2>1, <2>2 DEF QueueInv
<1>2. QueueInv /\ [StrNext]_<<strVars, wchan>> => QueueInv'
    <2>1. CASE UNCHANGED <<strVars, wchan>>
        BY <2>1 DEF strVars, QueueInv, QueueTypes, ServiceKept, StallInv, Enabled
    <2>2. ASSUME QueueInv, StrNext PROVE QueueInv'
        BY <2>2, StrNextKinds, StallProcess, StallLine, StallDisp, StallInterrupt DEF QueueStep
    <2> QED
        BY <2>1, <2>2
<1> QED
    BY <1>1, <1>2, PTL DEF StrSpec

\* No queue stands still: a queue with messages is enabled, or it waits for room below it, for
\* a start character or for the end of a break, whatever was put back, flushed or stopped
\* (putq, getq, putbq, flushq of stream.c, line_wsrvc, ttx_wsrvc)
THEOREM NoStallHolds == StrSpec => []NoStall
<1>1. QueueInv => NoStall
    BY DEF QueueInv, StallInv, NoStall
<1> QED
    BY <1>1, QueuesKept, PTL

-----------------------------------------------------------------------------
(* The order                                                               *)

\* An increasing sequence of numbers
Up(s) == \A i \in DOMAIN s : \A j \in 1 .. i - 1 : s[j] < s[i]

\* Two increasing sequences, one after the other
LEMMA ConcatUp ==
    ASSUME NEW s \in Seq(Nat), NEW t \in Seq(Nat), Up(s), Up(t),
           \A x \in Range(s), y \in Range(t) : x < y
    PROVE  s \o t \in Seq(Nat) /\ Up(s \o t) /\ Range(s \o t) = Range(s) \cup Range(t)
<1> DEFINE m == Len(s)
           n == Len(t)
           r == s \o t
<1>n. m \in Nat /\ n \in Nat
    OBVIOUS
<1>d. DOMAIN s = 1 .. m /\ DOMAIN t = 1 .. n /\ DOMAIN r = 1 .. m + n
    OBVIOUS
<1>f. r \in Seq(Nat) /\ \A i \in 1 .. m + n : r[i] = IF i <= m THEN s[i] ELSE t[i - m]
    OBVIOUS
<1> HIDE DEF m, n, r
<1>2. Range(r) = Range(s) \cup Range(t)
    <2>1. ASSUME NEW i \in 1 .. m + n PROVE r[i] \in Range(s) \cup Range(t)
        <3>1. CASE i <= m
            <4>1. i \in 1 .. m /\ r[i] = s[i]
                BY <1>n, <1>f, <3>1
            <4> QED
                BY <1>d, <4>1 DEF Range
        <3>2. CASE i > m
            <4>1. i - m \in 1 .. n
                BY <1>n, <3>2
            <4>2. r[i] = t[i - m]
                BY <1>n, <1>f, <3>2
            <4> QED
                BY <1>d, <4>1, <4>2 DEF Range
        <3> QED
            BY <1>n, <3>1, <3>2
    <2>2. ASSUME NEW i \in 1 .. m PROVE s[i] \in Range(r)
        <3>1. i \in 1 .. m + n /\ r[i] = s[i]
            BY <1>n, <1>f
        <3> QED
            BY <1>d, <3>1 DEF Range
    <2>3. ASSUME NEW i \in 1 .. n PROVE t[i] \in Range(r)
        <3>1. m + i \in 1 .. m + n /\ ~(m + i <= m) /\ (m + i) - m = i
            BY <1>n
        <3>2. r[m + i] = t[i]
            BY <1>f, <3>1
        <3> QED
            BY <1>d, <3>1, <3>2 DEF Range
    <2> QED
        BY <1>d, <2>1, <2>2, <2>3 DEF Range
<1>3. Up(r)
    <2>1. SUFFICES ASSUME NEW i \in 1 .. m + n, NEW j \in 1 .. i - 1 PROVE r[j] < r[i]
        BY <1>d DEF Up
    <2>2. i \in Nat /\ j \in Nat /\ j \in 1 .. m + n /\ j < i
        BY <1>n
    <2>3. CASE i <= m
        <3>1. r[i] = s[i] /\ r[j] = s[j] /\ i \in 1 .. m
            BY <1>n, <1>f, <2>2, <2>3
        <3> QED
            BY <1>d, <3>1 DEF Up
    <2>4. CASE i > m /\ j <= m
        <3>1. r[i] = t[i - m] /\ r[j] = s[j] /\ i - m \in 1 .. n /\ j \in 1 .. m
            BY <1>n, <1>f, <2>2, <2>4
        <3>2. t[i - m] \in Range(t) /\ s[j] \in Range(s)
            BY <1>d, <3>1 DEF Range
        <3> QED
            BY <3>1, <3>2
    <2>5. CASE j > m
        <3>1. ~(i <= m) /\ ~(j <= m)
            BY <1>n, <2>2, <2>5
        <3>2. i - m \in 1 .. n /\ j - m \in 1 .. (i - m) - 1
            BY <1>n, <2>2, <2>5
        <3>3. r[i] = t[i - m] /\ r[j] = t[j - m]
            BY <1>f, <2>2, <3>1
        <3> QED
            BY <1>d, <3>2, <3>3 DEF Up
    <2> QED
        BY <1>n, <2>2, <2>3, <2>4, <2>5
<1> QED
    BY <1>2, <1>3, <1>f DEF r

\* The numbers in Below, queue by queue
Ids(s) == [i \in DOMAIN s |-> s[i].id]
OneId(m) == IF m = NoBlock THEN <<>> ELSE <<m.id>>
HeldId(q) == IF serving.q = q THEN OneId(serving.m) ELSE <<>>

\* The numbers of a queue in order are in order
LEMMA IdsUp ==
    ASSUME NEW s \in Seq(Messages), Increasing(s)
    PROVE  Ids(s) \in Seq(Nat) /\ Up(Ids(s)) /\ Range(Ids(s)) = {m.id : m \in Range(s)}
<1>1. DOMAIN s = 1 .. Len(s) /\ Len(s) \in Nat
    OBVIOUS
<1>2. \A i \in DOMAIN s : s[i].id \in Nat
    <2>1. \A m \in Messages : m.id \in Nat
        BY DEF Messages
    <2> QED
        BY <2>1
<1>3. Ids(s) \in Seq(Nat)
    BY <1>1, <1>2 DEF Ids
<1>4. Up(Ids(s))
    BY <1>1 DEF Ids, Up, Increasing
<1>5. Range(Ids(s)) = {m.id : m \in Range(s)}
    BY DEF Ids, Range
<1> QED
    BY <1>3, <1>4, <1>5

\* ... and so are those of one message or none
LEMMA OneUp ==
    ASSUME NEW m \in Messages \cup {NoBlock}
    PROVE  /\ OneId(m) \in Seq(Nat) /\ Up(OneId(m))
           /\ Range(OneId(m)) = IF m = NoBlock THEN {} ELSE {m.id}
<1>1. CASE m = NoBlock
    BY <1>1 DEF OneId, Up, Range
<1>2. CASE m # NoBlock
    <2>1. m.id \in Nat
        BY <1>2 DEF Messages
    <2>2. OneId(m) = <<m.id>> /\ DOMAIN <<m.id>> = {1}
        BY <1>2 DEF OneId
    <2> QED
        BY <1>2, <2>1, <2>2 DEF Up, Range
<1> QED
    BY <1>1, <1>2

\* The places one after the other are Below
LEMMA OrderSays == QueueInv /\ OrderInv => InOrder
<1> SUFFICES ASSUME QueueInv, OrderInv PROVE InOrder
    OBVIOUS
<1> DEFINE a == OneId(tty.xm)
           b == HeldId("disp")
           c == Ids(wq["disp"].msgs)
           d == HeldId("line")
           e == Ids(wq["line"].msgs)
<1>t. /\ tty.xm \in Messages \cup {NoBlock} /\ serving.m \in Messages \cup {NoBlock}
      /\ wq["disp"].msgs \in Seq(Messages) /\ wq["line"].msgs \in Seq(Messages)
    BY DEF QueueInv, QueueTypes, QueueRecs
<1>i. Increasing(wq["disp"].msgs) /\ Increasing(wq["line"].msgs)
    BY DEF OrderInv
<1>p. /\ Places[1] = IF tty.xm = NoBlock THEN {} ELSE {tty.xm}
      /\ Places[2] = HeldBy("disp") /\ Places[3] = Range(wq["disp"].msgs)
      /\ Places[4] = HeldBy("line") /\ Places[5] = Range(wq["line"].msgs)
    BY DEF Places
<1>1. Below = (((a \o b) \o c) \o d) \o e
    BY DEF Below, OneId, HeldId, Ids
<1>a. a \in Seq(Nat) /\ Up(a) /\ Range(a) = {m.id : m \in Places[1]}
    BY <1>t, <1>p, OneUp
<1>b. b \in Seq(Nat) /\ Up(b) /\ Range(b) = {m.id : m \in Places[2]}
    <2>1. CASE serving.q = "disp"
        BY <1>t, <1>p, <2>1, OneUp DEF HeldId, HeldBy
    <2>2. CASE serving.q # "disp"
        BY <1>p, <2>2 DEF HeldId, HeldBy, Up, Range
    <2> QED
        BY <2>1, <2>2
<1>c. c \in Seq(Nat) /\ Up(c) /\ Range(c) = {m.id : m \in Places[3]}
    BY <1>t, <1>i, <1>p, IdsUp
<1>d. d \in Seq(Nat) /\ Up(d) /\ Range(d) = {m.id : m \in Places[4]}
    <2>1. CASE serving.q = "line"
        BY <1>t, <1>p, <2>1, OneUp DEF HeldId, HeldBy
    <2>2. CASE serving.q # "line"
        BY <1>p, <2>2 DEF HeldId, HeldBy, Up, Range
    <2> QED
        BY <2>1, <2>2
<1>e. e \in Seq(Nat) /\ Up(e) /\ Range(e) = {m.id : m \in Places[5]}
    BY <1>t, <1>i, <1>p, IdsUp
<1>o. \A i, j \in 1 .. 5 : i < j => \A m \in Places[i], n \in Places[j] : m.id < n.id
    BY DEF OrderInv
<1>r. /\ \A x \in Range(a), y \in Range(b) : x < y
      /\ \A x \in Range(a) \cup Range(b), y \in Range(c) : x < y
      /\ \A x \in (Range(a) \cup Range(b)) \cup Range(c), y \in Range(d) : x < y
      /\ \A x \in ((Range(a) \cup Range(b)) \cup Range(c)) \cup Range(d), y \in Range(e) : x < y
    <2>1. \A i, j \in 1 .. 5 : i < j =>
             \A x \in {m.id : m \in Places[i]}, y \in {m.id : m \in Places[j]} : x < y
        BY <1>o
    <2> DEFINE A(i) == {m.id : m \in Places[i]}
    <2> HIDE DEF A
    <2>2. \A i, j \in 1 .. 5 : i < j => \A x \in A(i), y \in A(j) : x < y
        BY <2>1 DEF A
    <2>3. Range(a) = A(1) /\ Range(b) = A(2) /\ Range(c) = A(3) /\ Range(d) = A(4) /\ Range(e) = A(5)
        BY <1>a, <1>b, <1>c, <1>d, <1>e DEF A
    <2> HIDE DEF a, b, c, d, e
    <2> QED
        BY <2>2, <2>3
<1> HIDE DEF a, b, c, d, e
<1>2. a \o b \in Seq(Nat) /\ Up(a \o b) /\ Range(a \o b) = Range(a) \cup Range(b)
    BY <1>a, <1>b, <1>r, ConcatUp
<1> DEFINE ab == a \o b
<1> HIDE DEF ab
<1>3. /\ ab \o c \in Seq(Nat) /\ Up(ab \o c)
      /\ Range(ab \o c) = (Range(a) \cup Range(b)) \cup Range(c)
    BY <1>2, <1>c, <1>r, ConcatUp DEF ab
<1> DEFINE abc == ab \o c
<1> HIDE DEF abc
<1>4. /\ abc \o d \in Seq(Nat) /\ Up(abc \o d)
      /\ Range(abc \o d) = ((Range(a) \cup Range(b)) \cup Range(c)) \cup Range(d)
    BY <1>3, <1>d, <1>r, ConcatUp DEF abc
<1> DEFINE abcd == abc \o d
<1> HIDE DEF abcd
<1>5. /\ abcd \o e \in Seq(Nat) /\ Up(abcd \o e)
      /\ Range(abcd \o e) = (((Range(a) \cup Range(b)) \cup Range(c)) \cup Range(d)) \cup Range(e)
    BY <1>4, <1>e, <1>r, ConcatUp DEF abcd
<1>6. /\ Up(Below) /\ Below \in Seq(Nat)
      /\ Range(Below) = (((Range(a) \cup Range(b)) \cup Range(c)) \cup Range(d)) \cup Range(e)
    BY <1>1, <1>5 DEF abcd, abc, ab
<1>7. Range(Below) = owed
    <2>1. owed = {m.id : m \in UNION {Places[i] : i \in 1 .. 5}}
        BY DEF OrderInv
    <2>2. UNION {Places[i] : i \in 1 .. 5}
             = (((Places[1] \cup Places[2]) \cup Places[3]) \cup Places[4]) \cup Places[5]
        BY DEF Places
    <2> QED
        BY <1>a, <1>b, <1>c, <1>d, <1>e, <1>6, <2>1, <2>2
<1>8. \A i \in DOMAIN Below : Below[i] > last
    <2>1. SUFFICES ASSUME NEW i \in DOMAIN Below PROVE Below[i] > last
        OBVIOUS
    <2>2. Below[i] \in owed
        BY <1>7 DEF Range
    <2>3. PICK k \in 1 .. 5 : \E m \in Places[k] : Below[i] = m.id
        BY <2>2 DEF OrderInv
    <2>6. PICK m \in Places[k] : Below[i] = m.id
        BY <2>3
    <2>4. last < m.id /\ last \in Nat
        BY DEF OrderInv
    <2>5. Below[i] \in Nat
        BY <1>6
    <2> QED
        BY <2>6, <2>4, <2>5
<1> QED
    BY <1>6, <1>7, <1>8 DEF InOrder, Up

\* All messages below the stream head
InPlaces == UNION {Places[i] : i \in 1 .. 5}

\* A place holds messages
LEMMA PlaceTypes ==
    ASSUME QueueTypes
    PROVE  \A i \in 1 .. 5 : Places[i] \subseteq Messages /\ \A m \in Places[i] : m.id \in Nat
<1>1. wq["disp"].msgs \in Seq(Messages) /\ wq["line"].msgs \in Seq(Messages)
    BY DEF QueueTypes, QueueRecs
<1>2. Range(wq["disp"].msgs) \subseteq Messages /\ Range(wq["line"].msgs) \subseteq Messages
    BY <1>1 DEF Range
<1>3. \A i \in 1 .. 5 : Places[i] \subseteq Messages
    BY <1>2 DEF Places, HeldBy, QueueTypes
<1>4. \A m \in Messages : m.id \in Nat
    BY DEF Messages
<1> QED
    BY <1>3, <1>4

\* Nothing is added, and nothing is output
LEMMA OrderDrops ==
    ASSUME QueueTypes, OrderInv, nmsg' \in Nat, nmsg <= nmsg', last' = last,
           \A i \in 1 .. 5 : Places'[i] \subseteq Places[i],
           \A q \in {"line", "disp"} : Increasing(wq'[q].msgs),
           owed' = {m.id : m \in InPlaces'}
    PROVE  OrderInv'
<1>1. \A i, j \in 1 .. 5 : i < j => \A m \in Places'[i], n \in Places'[j] : m.id < n.id
    BY DEF OrderInv
<1>2. \A i \in 1 .. 5 : \A m \in Places'[i] : last' < m.id /\ m.id <= nmsg'
    BY PlaceTypes DEF OrderInv, QueueTypes
<1>3. last' <= nmsg' /\ last' \in Nat
    BY DEF OrderInv, QueueTypes
<1> QED
    BY <1>1, <1>2, <1>3 DEF OrderInv, InPlaces

\* The message x goes on to the next place, or back to the one before
LEMMA OrderMoves ==
    ASSUME QueueTypes, OrderInv, UNCHANGED <<nmsg, last, owed>>,
           NEW f \in 1 .. 5, NEW t \in 1 .. 5, t = f - 1 \/ t = f + 1, NEW x \in Places[f],
           \A y \in Places[f] \ {x} : IF t < f THEN x.id < y.id ELSE y.id < x.id,
           \A i \in 1 .. 5 : Places'[i] = IF i = f THEN Places[i] \ {x}
                                          ELSE IF i = t THEN Places[i] \cup {x} ELSE Places[i],
           \A q \in {"line", "disp"} : Increasing(wq'[q].msgs)
    PROVE  OrderInv'
<1> DEFINE P(i) == Places[i]
           R(i) == Places'[i]
<1>o. /\ \A i, j \in 1 .. 5 : i < j => \A m \in P(i), n \in P(j) : m.id < n.id
      /\ \A i \in 1 .. 5 : \A m \in P(i) : last < m.id /\ m.id <= nmsg
      /\ owed = {m.id : m \in UNION {P(i) : i \in 1 .. 5}}
    BY DEF OrderInv
<1>r. /\ R(f) = P(f) \ {x} /\ R(t) = P(t) \cup {x} /\ t # f
      /\ \A i \in 1 .. 5 : i # f /\ i # t => R(i) = P(i)
    OBVIOUS
<1>x. x \in P(f)
    OBVIOUS
<1>y. \A y \in P(f) : y # x => IF t < f THEN x.id < y.id ELSE y.id < x.id
    OBVIOUS
<1> HIDE DEF P, R
<1>1. ASSUME NEW i \in 1 .. 5, NEW j \in 1 .. 5, i < j, NEW m \in R(i), NEW n \in R(j)
      PROVE  m.id < n.id
    <2>1. m \in P(i) \/ (i = t /\ m = x)
        BY <1>r
    <2>2. n \in P(j) \/ (j = t /\ n = x)
        BY <1>r
    <2>3. CASE m \in P(i) /\ n \in P(j)
        BY <1>o, <1>1, <2>3
    <2>4. CASE i = t /\ m = x /\ n \in P(j)
        <3>1. CASE j = f
            BY <1>1, <1>r, <1>y, <2>4, <3>1
        <3>2. CASE j # f
            <4>1. f < j
                BY <1>1, <2>4, <3>2
            <4> QED
                BY <1>o, <1>x, <2>4, <4>1
        <3> QED
            BY <3>1, <3>2
    <2>5. CASE j = t /\ n = x /\ m \in P(i)
        <3>1. CASE i = f
            BY <1>1, <1>r, <1>y, <2>5, <3>1
        <3>2. CASE i # f
            <4>1. i < f
                BY <1>1, <2>5, <3>2
            <4> QED
                BY <1>o, <1>x, <2>5, <4>1
        <3> QED
            BY <3>1, <3>2
    <2> QED
        BY <1>1, <2>1, <2>2, <2>3, <2>4, <2>5
<1>2. ASSUME NEW i \in 1 .. 5, NEW m \in R(i) PROVE last < m.id /\ m.id <= nmsg
    BY <1>o, <1>r, <1>x
<1>3. UNION {P(i) : i \in 1 .. 5} = UNION {R(i) : i \in 1 .. 5}
    <2>1. ASSUME NEW i \in 1 .. 5, NEW m \in P(i) PROVE \E j \in 1 .. 5 : m \in R(j)
        BY <1>r
    <2>2. ASSUME NEW i \in 1 .. 5, NEW m \in R(i) PROVE \E j \in 1 .. 5 : m \in P(j)
        BY <1>r, <1>x
    <2> QED
        BY <2>1, <2>2
<1>4. owed' = {m.id : m \in UNION {R(i) : i \in 1 .. 5}}
    BY <1>o, <1>3
<1> QED
    BY <1>1, <1>2, <1>4 DEF OrderInv, R

\* The first message is output
LEMMA OrderHandled ==
    ASSUME QueueTypes, OrderInv, UNCHANGED nmsg,
           NEW k \in 1 .. 5, NEW x, Places[k] = {x}, \A i \in 1 .. 5 : i < k => Places[i] = {},
           \A i \in 1 .. 5 : Places'[i] = IF i = k THEN {} ELSE Places[i],
           \A q \in {"line", "disp"} : Increasing(wq'[q].msgs),
           last' = x.id, owed' = owed \ {x.id}
    PROVE  OrderInv'
<1> DEFINE P(i) == Places[i]
           R(i) == Places'[i]
<1>o. /\ \A i, j \in 1 .. 5 : i < j => \A m \in P(i), n \in P(j) : m.id < n.id
      /\ \A i \in 1 .. 5 : \A m \in P(i) : last < m.id /\ m.id <= nmsg
      /\ owed = {m.id : m \in UNION {P(i) : i \in 1 .. 5}}
    BY DEF OrderInv
<1>t. \A i \in 1 .. 5 : \A m \in P(i) : m.id \in Nat
    BY PlaceTypes
<1>r. /\ R(k) = {} /\ P(k) = {x} /\ \A i \in 1 .. 5 : i < k => R(i) = {} /\ P(i) = {}
      /\ \A i \in 1 .. 5 : i > k => R(i) = P(i)
    OBVIOUS
<1> HIDE DEF P, R
<1>1. \A i \in 1 .. 5 : R(i) \subseteq P(i) /\ \A m \in R(i) : i > k /\ x.id < m.id
    BY <1>o, <1>r
<1>2. \A i, j \in 1 .. 5 : i < j => \A m \in R(i), n \in R(j) : m.id < n.id
    BY <1>o, <1>1
<1>3. \A i \in 1 .. 5 : \A m \in R(i) : last' < m.id /\ m.id <= nmsg'
    BY <1>o, <1>1
<1>4. last' <= nmsg' /\ last' \in Nat
    BY <1>o, <1>t, <1>r
<1>5. owed' = {m.id : m \in UNION {R(i) : i \in 1 .. 5}}
    <2>1. ASSUME NEW i \in 1 .. 5, NEW m \in P(i), m.id # x.id PROVE m \in R(i)
        BY <1>r, <2>1
    <2>2. ASSUME NEW i \in 1 .. 5, NEW m \in R(i) PROVE m \in P(i) /\ m.id # x.id
        BY <1>1, <1>t, <1>r
    <2> QED
        BY <1>o, <2>1, <2>2
<1> QED
    BY <1>2, <1>3, <1>4, <1>5 DEF OrderInv, R

-----------------------------------------------------------------------------
(* Queues in order                                                         *)

\* What getq leaves is in order
LEMMA IncreasingTail ==
    ASSUME NEW s \in Seq(Messages), s # <<>>, Increasing(s)
    PROVE  /\ Increasing(Tail(s)) /\ Range(Tail(s)) = Range(s) \ {Head(s)} /\ Head(s) \in Range(s)
           /\ \A y \in Range(s) \ {Head(s)} : Head(s).id < y.id
<1>1. Head(s) = s[1] /\ Len(s) \in Nat /\ Len(s) # 0 /\ DOMAIN s = 1 .. Len(s)
    OBVIOUS
<1>2. DOMAIN Tail(s) = 1 .. Len(s) - 1 /\ \A i \in 1 .. Len(s) - 1 : Tail(s)[i] = s[i + 1]
    BY <1>1
<1>3. \A i \in 1 .. Len(s) - 1 : i + 1 \in 1 .. Len(s) /\ 1 < i + 1 /\ 1 \in 1 .. Len(s)
    BY <1>1
<1>4. Increasing(Tail(s))
    <2>1. SUFFICES ASSUME NEW i \in DOMAIN Tail(s), NEW j \in DOMAIN Tail(s), i < j
                   PROVE  Tail(s)[i].id < Tail(s)[j].id
        BY DEF Increasing
    <2>2. i + 1 \in DOMAIN s /\ j + 1 \in DOMAIN s /\ i + 1 < j + 1
        BY <1>1, <1>2, <2>1
    <2>3. s[i + 1].id < s[j + 1].id
        BY <2>2 DEF Increasing
    <2> QED
        BY <1>2, <2>3
<1>5. \A y \in Range(Tail(s)) : Head(s).id < y.id
    <2>1. ASSUME NEW i \in DOMAIN Tail(s) PROVE Head(s).id < Tail(s)[i].id
        <3>1. s[1].id < s[i + 1].id
            BY <1>1, <1>2, <1>3 DEF Increasing
        <3> QED
            BY <1>1, <1>2, <3>1
    <2> QED
        BY <2>1 DEF Range
<1>6. Range(s) = {Head(s)} \cup Range(Tail(s)) /\ Head(s) \in Messages
    BY HeadAndTail
<1>7. Head(s) \notin Range(Tail(s))
    <2>1. Head(s).id \in Nat
        BY <1>6 DEF Messages
    <2>2. ~(Head(s).id < Head(s).id)
        BY <2>1
    <2> QED
        BY <1>5, <2>2
<1> QED
    BY <1>4, <1>5, <1>6, <1>7

\* ... and putq keeps it, if the message is a later one
LEMMA IncreasingAppend ==
    ASSUME NEW s \in Seq(Messages), NEW m \in Messages, Increasing(s),
           \A y \in Range(s) : y.id < m.id
    PROVE  Increasing(Append(s, m)) /\ Range(Append(s, m)) = Range(s) \cup {m}
<1> DEFINE n == Len(s)
           r == Append(s, m)
<1>1. n \in Nat /\ DOMAIN s = 1 .. n /\ DOMAIN r = 1 .. n + 1
    OBVIOUS
<1>2. r[n + 1] = m /\ \A i \in 1 .. n : r[i] = s[i]
    OBVIOUS
<1> HIDE DEF n, r
<1>3. \A i \in 1 .. n + 1 : i \in 1 .. n \/ i = n + 1
    BY <1>1
<1>4. \A i \in 1 .. n : i \in 1 .. n + 1 /\ n + 1 \in 1 .. n + 1
    BY <1>1
<1>5. Range(r) = Range(s) \cup {m}
    BY <1>1, <1>2, <1>3, <1>4 DEF Range
<1>6. Increasing(r)
    <2>1. SUFFICES ASSUME NEW i \in 1 .. n + 1, NEW j \in 1 .. n + 1, i < j PROVE r[i].id < r[j].id
        BY <1>1 DEF Increasing
    <2>2. i \in 1 .. n
        BY <1>1, <2>1
    <2>3. s[i] \in Range(s)
        BY <1>1, <2>2 DEF Range
    <2>4. CASE j = n + 1
        BY <1>2, <2>2, <2>3, <2>4
    <2>5. CASE j \in 1 .. n
        BY <1>1, <1>2, <2>1, <2>2, <2>5 DEF Increasing
    <2> QED
        BY <1>3, <2>4, <2>5
<1> QED
    BY <1>5, <1>6 DEF r

\* ... and putbq, if it is an earlier one
LEMMA IncreasingCons ==
    ASSUME NEW s \in Seq(Messages), NEW m \in Messages, Increasing(s),
           \A y \in Range(s) : m.id < y.id
    PROVE  Increasing(<<m>> \o s) /\ Range(<<m>> \o s) = Range(s) \cup {m}
<1> DEFINE n == Len(s)
           r == <<m>> \o s
<1>1. n \in Nat /\ DOMAIN s = 1 .. n /\ DOMAIN r = 1 .. n + 1
    OBVIOUS
<1>2. r[1] = m /\ \A i \in 1 .. n + 1 : i # 1 => r[i] = s[i - 1]
    OBVIOUS
<1> HIDE DEF n, r
<1>3. \A i \in 1 .. n + 1 : i = 1 \/ i - 1 \in 1 .. n
    BY <1>1
<1>4. 1 \in 1 .. n + 1 /\ \A i \in 1 .. n : i + 1 \in 1 .. n + 1 /\ i + 1 # 1 /\ (i + 1) - 1 = i
    BY <1>1
<1>5. Range(r) = Range(s) \cup {m}
    <2>1. ASSUME NEW i \in 1 .. n + 1 PROVE r[i] \in Range(s) \cup {m}
        BY <1>1, <1>2, <1>3 DEF Range
    <2>2. ASSUME NEW i \in 1 .. n PROVE s[i] \in Range(r)
        <3>1. r[i + 1] = s[i] /\ i + 1 \in DOMAIN r
            BY <1>1, <1>2, <1>4
        <3> QED
            BY <3>1 DEF Range
    <2>3. m \in Range(r)
        BY <1>1, <1>2, <1>4 DEF Range
    <2> QED
        BY <1>1, <2>1, <2>2, <2>3 DEF Range
<1>6. Increasing(r)
    <2>1. SUFFICES ASSUME NEW i \in 1 .. n + 1, NEW j \in 1 .. n + 1, i < j PROVE r[i].id < r[j].id
        BY <1>1 DEF Increasing
    <2>2. j # 1 /\ j - 1 \in 1 .. n /\ r[j] = s[j - 1]
        BY <1>1, <1>2, <1>3, <2>1
    <2>3. s[j - 1] \in Range(s)
        BY <1>1, <2>2 DEF Range
    <2>4. CASE i = 1
        BY <1>2, <2>2, <2>3, <2>4
    <2>5. CASE i # 1
        <3>1. i - 1 \in 1 .. n /\ r[i] = s[i - 1] /\ i - 1 < j - 1
            BY <1>1, <1>2, <1>3, <2>1, <2>5
        <3> QED
            BY <1>1, <2>2, <3>1 DEF Increasing
    <2> QED
        BY <2>4, <2>5
<1> QED
    BY <1>5, <1>6 DEF r

-----------------------------------------------------------------------------
(* The steps keep the order                                                *)

OrderOf == QueueInv /\ OrderInv

\* Nothing moves
LEMMA OrderStays ==
    ASSUME OrderOf, nmsg' \in Nat, nmsg <= nmsg', UNCHANGED <<last, owed>>, tty'.xm = tty.xm,
           \A q \in {"line", "disp"} : wq'[q].msgs = wq[q].msgs,
           \A q \in {"line", "disp"} : HeldBy(q)' = HeldBy(q)
    PROVE  OrderInv'
<1>1. Places' = Places
    BY DEF Places
<1>2. InPlaces' = InPlaces
    BY <1>1 DEF InPlaces
<1>3. \A q \in {"line", "disp"} : Increasing(wq'[q].msgs)
    BY DEF OrderOf, OrderInv
<1>4. owed = {m.id : m \in InPlaces}
    BY DEF OrderOf, OrderInv, InPlaces
<1>5. \A i \in 1 .. 5 : Places'[i] \subseteq Places[i]
    BY <1>1
<1> QED
    BY <1>2, <1>3, <1>4, <1>5, OrderDrops DEF OrderOf, QueueInv

\* A message is sent down
LEMMA OrderAdds ==
    ASSUME OrderOf, Sends PROVE OrderInv'
<1>1. PICK m \in Messages :
          /\ m.id = nmsg + 1
          /\ wq' \in [{"line", "disp"} -> QueueRecs] /\ wq'["disp"] = wq["disp"]
          /\ wq'["line"].msgs = Append(wq["line"].msgs, m) /\ wq'["line"].msgs # <<>>
          /\ wq'["line"].wantr = wq["line"].wantr
          /\ runq' \in Seq(Queues) /\ nmsg' = nmsg + 1 /\ owed' = owed \cup {m.id}
          /\ Range(runq') = Range(runq) \cup IF wq["line"].wantr THEN {"line"} ELSE {}
    BY SendsDo DEF OrderOf, QueueInv
<1>2. UNCHANGED <<serving, tty, last>>
    BY DEF Sends
<1>o. OrderInv /\ QueueTypes
    BY DEF OrderOf, QueueInv
<1>t. \A i \in 1 .. 5 : \A x \in Places[i] : x.id \in Nat
    BY <1>o, PlaceTypes
<1>n. nmsg \in Nat /\ last \in Nat
    BY <1>o DEF OrderInv, QueueTypes
<1>s. wq["line"].msgs \in Seq(Messages)
    BY <1>o DEF QueueTypes, QueueRecs
<1>g. \A i \in 1 .. 5 : \A x \in Places[i] : x.id < m.id
    <2>1. ASSUME NEW i \in 1 .. 5, NEW x \in Places[i] PROVE x.id < m.id
        <3>1. x.id <= nmsg
            BY <1>o DEF OrderInv
        <3> QED
            BY <1>1, <1>t, <1>n, <3>1
    <2> QED
        BY <2>1
<1>3. Increasing(wq'["line"].msgs) /\ Range(wq'["line"].msgs) = Range(wq["line"].msgs) \cup {m}
    <2>1. Places[5] = Range(wq["line"].msgs)
        BY DEF Places
    <2>2. Increasing(wq["line"].msgs)
        BY <1>o DEF OrderInv
    <2> QED
        BY <1>1, <1>s, <1>g, <2>1, <2>2, IncreasingAppend
<1>4. /\ Places'[5] = Places[5] \cup {m}
      /\ \A i \in 1 .. 4 : Places'[i] = Places[i]
    BY <1>1, <1>2, <1>3 DEF Places, HeldBy
<1>5. \A q \in {"line", "disp"} : Increasing(wq'[q].msgs)
    BY <1>1, <1>3, <1>o DEF OrderInv
<1> DEFINE P(i) == Places[i]
           R(i) == Places'[i]
<1>w. /\ \A i, j \in 1 .. 5 : i < j => \A x \in P(i), y \in P(j) : x.id < y.id
      /\ \A i \in 1 .. 5 : \A x \in P(i) : last < x.id /\ x.id <= nmsg
      /\ owed = {x.id : x \in UNION {P(i) : i \in 1 .. 5}}
    BY <1>o DEF OrderInv
<1>r. R(5) = P(5) \cup {m} /\ \A i \in 1 .. 5 : i # 5 => R(i) = P(i)
    BY <1>4
<1>u. \A i \in 1 .. 5 : \A x \in P(i) : x.id < m.id /\ x.id \in Nat
    BY <1>g, <1>t
<1> HIDE DEF P, R
<1>6. \A i, j \in 1 .. 5 : i < j => \A x \in R(i), y \in R(j) : x.id < y.id
    BY <1>w, <1>r, <1>u
<1>7. last <= nmsg
    BY <1>o DEF OrderInv
<1>8. \A i \in 1 .. 5 : \A x \in R(i) : last < x.id /\ x.id <= nmsg + 1
    BY <1>1, <1>n, <1>w, <1>r, <1>u, <1>7
<1> DEFINE U == UNION {P(i) : i \in 1 .. 5}
           V == UNION {R(i) : i \in 1 .. 5}
<1>9. V = U \cup {m}
    <2>1. ASSUME NEW i \in 1 .. 5, NEW x \in P(i) PROVE x \in R(i)
        BY <1>r
    <2>2. ASSUME NEW i \in 1 .. 5, NEW x \in R(i) PROVE x \in P(i) \/ x = m
        BY <1>r
    <2>3. m \in R(5) /\ 5 \in 1 .. 5
        BY <1>r
    <2>4. \A x : x \in V <=> \E i \in 1 .. 5 : x \in R(i)
        OBVIOUS
    <2>5. \A x : x \in U <=> \E i \in 1 .. 5 : x \in P(i)
        OBVIOUS
    <2> HIDE DEF U, V
    <2>6. \A x : x \in V <=> x \in U \/ x = m
        BY <2>1, <2>2, <2>3, <2>4, <2>5
    <2> QED
        BY <2>6
<1>10. owed' = {x.id : x \in V}
    <2>1. owed' = {x.id : x \in U} \cup {m.id}
        BY <1>1, <1>w
    <2> HIDE DEF U, V
    <2> QED
        BY <1>9, <2>1
<1>11. last <= nmsg + 1
    BY <1>n, <1>7
<1> QED
    BY <1>1, <1>2, <1>5, <1>6, <1>8, <1>10, <1>11, <1>n DEF OrderInv, R

\* queuerun and the service procedures above the display
LEMMA OrderLine ==
    ASSUME OrderOf, Queuerun \/ Strwsrv \/ LineGet \/ LineCanput \/ LinePutnext \/ LinePutbq
    PROVE  OrderInv'
<1>t. /\ QueueTypes /\ ServiceKept /\ OrderInv /\ nmsg \in Nat /\ nmsg <= nmsg
      /\ wq["line"].msgs \in Seq(Messages) /\ wq["disp"].msgs \in Seq(Messages)
      /\ wq["line"] \in QueueRecs /\ wq["disp"] \in QueueRecs
    BY DEF OrderOf, QueueInv, QueueTypes, QueueRecs
<1>i. Increasing(wq["line"].msgs) /\ Increasing(wq["disp"].msgs)
    BY <1>t DEF OrderInv
<1>o. \A i, j \in 1 .. 5 : i < j => \A m \in Places[i], n \in Places[j] : m.id < n.id
    BY <1>t DEF OrderInv
<1>p. Places[3] = Range(wq["disp"].msgs) /\ Places[5] = Range(wq["line"].msgs)
    BY DEF Places
<1>n. NoBlock \notin Messages
    BY DEF NoBlock, Messages
<1>1. CASE Queuerun
    BY <1>1, <1>t, OrderStays DEF Queuerun, NotServing, ServiceKept, HeldBy
<1>2. CASE Strwsrv
    BY <1>2, <1>t, OrderStays, ServedDoes DEF Strwsrv, Serves, ServiceKept, HeldBy
<1>3. CASE LineGet
    <2> USE <1>3 DEF LineGet, Serves
    <2>1. /\ wq'["disp"] = wq["disp"]
          /\ wq'["line"].msgs = IF wq["line"].msgs = <<>> THEN <<>> ELSE Tail(wq["line"].msgs)
        BY <1>t, GetqDoes DEF StallInv, OrderOf, QueueInv
    <2>2. CASE wq["line"].msgs = <<>>
        BY <1>t, <2>1, <2>2, OrderStays, ServedDoes DEF ServiceKept, HeldBy
    <2>3. CASE wq["line"].msgs # <<>>
        <3> DEFINE x == Head(wq["line"].msgs)
        <3>1. serving' = [serving EXCEPT !.m = x, !.step = "canput"]
            BY <2>3
        <3>2. x \in Messages
            BY <1>t, <2>3, HeadAndTail
        <3>3. /\ Increasing(wq'["line"].msgs) /\ Range(wq'["line"].msgs) = Range(wq["line"].msgs) \ {x}
              /\ x \in Range(wq["line"].msgs)
              /\ \A y \in Range(wq["line"].msgs) \ {x} : x.id < y.id
            BY <1>t, <1>i, <2>1, <2>3, IncreasingTail
        <3> HIDE DEF x
        <3>4. Places[4] = {} /\ Places'[4] = {x} /\ HeldBy("disp")' = HeldBy("disp")
            BY <1>t, <1>n, <3>1, <3>2 DEF Places, HeldBy, ServiceKept, QueueTypes
        <3>5. \A i \in 1 .. 5 : Places'[i] = IF i = 5 THEN Places[i] \ {x}
                                             ELSE IF i = 4 THEN Places[i] \cup {x} ELSE Places[i]
            <4>1. /\ Places'[5] = Places[5] \ {x}
                  /\ Places'[4] = Places[4] \cup {x}
                BY <3>3, <3>4 DEF Places
            <4>2. Places'[1] = Places[1] /\ Places'[2] = Places[2] /\ Places'[3] = Places[3]
                BY <2>1, <3>4 DEF Places
            <4>3. \A i \in 1 .. 5 : i = 1 \/ i = 2 \/ i = 3 \/ i = 4 \/ i = 5
                OBVIOUS
            <4> HIDE <1>3
            <4> QED
                BY <4>1, <4>2, <4>3
        <3>6. \A q \in {"line", "disp"} : Increasing(wq'[q].msgs)
            BY <1>i, <2>1, <3>3
        <3>7. x \in Places[5] /\ \A y \in Places[5] \ {x} : x.id < y.id
            BY <1>p, <3>3
        <3>8. UNCHANGED <<nmsg, last, owed>> /\ 5 \in 1 .. 5 /\ 4 \in 1 .. 5 /\ 4 = 5 - 1 /\ 4 < 5
            OBVIOUS
        <3> HIDE <1>3
        <3> QED
            BY <1>t, <3>5, <3>6, <3>7, <3>8, OrderMoves
    <2> QED
        BY <2>2, <2>3
<1>4. CASE LineCanput
    <2> USE <1>4 DEF LineCanput, Serves
    <2>1. \A q \in {"line", "disp"} : wq'[q].msgs = wq[q].msgs
        BY <1>t DEF QueueTypes, QueueRecs
    <2>2. serving'.q = serving.q /\ serving'.m = serving.m
        BY <1>t DEF QueueTypes
    <2> QED
        BY <1>t, <2>1, <2>2, OrderStays DEF HeldBy
<1>5. CASE LinePutnext
    <2> USE <1>5 DEF LinePutnext, Serves
    <2> DEFINE x == serving.m
    <2>1. x \in Messages
        BY <1>t DEF QueueTypes, ServiceKept
    <2>2. wq'["line"] = wq["line"] /\ wq'["disp"].msgs = Append(wq["disp"].msgs, x)
        BY <1>t, <2>1, PutqTypes DEF QueueTypes
    <2>3. serving' = [q |-> "line", m |-> NoBlock, step |-> "get"]
        BY <1>t DEF QueueTypes
    <2>4. Places[4] = {x} /\ Places'[4] = {} /\ HeldBy("disp")' = HeldBy("disp")
        BY <1>t, <1>n, <2>1, <2>3 DEF Places, HeldBy
    <2> HIDE DEF x
    <2>5. \A y \in Range(wq["disp"].msgs) : y.id < x.id
        BY <1>o, <1>p, <2>4
    <2>6. Increasing(wq'["disp"].msgs) /\ Range(wq'["disp"].msgs) = Range(wq["disp"].msgs) \cup {x}
        BY <1>t, <1>i, <2>1, <2>2, <2>5, IncreasingAppend
    <2>7. \A i \in 1 .. 5 : Places'[i] = IF i = 4 THEN Places[i] \ {x}
                                         ELSE IF i = 3 THEN Places[i] \cup {x} ELSE Places[i]
        <3>1. Places'[3] = Places[3] \cup {x}
            BY <2>6 DEF Places
        <3>2. Places'[1] = Places[1] /\ Places'[2] = Places[2] /\ Places'[5] = Places[5]
            BY <2>2, <2>4 DEF Places
        <3> QED
            BY <2>4, <3>1, <3>2
    <2>8. \A q \in {"line", "disp"} : Increasing(wq'[q].msgs)
        BY <1>i, <2>2, <2>6
    <2>9. x \in Places[4] /\ \A y \in Places[4] \ {x} : x.id < y.id
        BY <2>4
    <2>10. UNCHANGED <<nmsg, last, owed>> /\ 3 \in 1 .. 5 /\ 4 \in 1 .. 5 /\ 3 = 4 - 1 /\ 3 < 4
        OBVIOUS
    <2> HIDE <1>5
    <2> QED
        BY <1>t, <2>7, <2>8, <2>9, <2>10, OrderMoves
<1>6. CASE LinePutbq
    <2> USE <1>6 DEF LinePutbq, Serves
    <2> DEFINE x == serving.m
    <2>1. x \in Messages
        BY <1>t DEF QueueTypes, ServiceKept
    <2>2. wq'["disp"] = wq["disp"] /\ wq'["line"].msgs = <<x>> \o wq["line"].msgs
        BY <1>t, <2>1, PutqTypes DEF QueueTypes
    <2>4. Places[4] = {x} /\ Places'[4] = {} /\ HeldBy("disp")' = HeldBy("disp")
        BY <1>t, <1>n, <2>1, ServedDoes DEF Places, HeldBy
    <2> HIDE DEF x
    <2>5. \A y \in Range(wq["line"].msgs) : x.id < y.id
        BY <1>o, <1>p, <2>4
    <2>6. Increasing(wq'["line"].msgs) /\ Range(wq'["line"].msgs) = Range(wq["line"].msgs) \cup {x}
        BY <1>t, <1>i, <2>1, <2>2, <2>5, IncreasingCons
    <2>7. \A i \in 1 .. 5 : Places'[i] = IF i = 4 THEN Places[i] \ {x}
                                         ELSE IF i = 5 THEN Places[i] \cup {x} ELSE Places[i]
        <3>1. Places'[5] = Places[5] \cup {x}
            BY <2>6 DEF Places
        <3>2. Places'[1] = Places[1] /\ Places'[2] = Places[2] /\ Places'[3] = Places[3]
            BY <2>2, <2>4 DEF Places
        <3> QED
            BY <2>4, <3>1, <3>2
    <2>8. \A q \in {"line", "disp"} : Increasing(wq'[q].msgs)
        BY <1>i, <2>2, <2>6
    <2>9. x \in Places[4] /\ \A y \in Places[4] \ {x} : y.id < x.id
        BY <2>4
    <2>10. UNCHANGED <<nmsg, last, owed>> /\ 5 \in 1 .. 5 /\ 4 \in 1 .. 5 /\ 5 = 4 + 1 /\ ~(5 < 4)
        OBVIOUS
    <2> HIDE <1>6
    <2> QED
        BY <1>t, <2>7, <2>8, <2>9, <2>10, OrderMoves
<1> QED
    BY <1>1, <1>2, <1>3, <1>4, <1>5, <1>6

\* The display's service procedure
LEMMA OrderDisp ==
    ASSUME OrderOf, DispPoke \/ DispGet \/ DispData \/ DispIoctl
    PROVE  OrderInv'
<1>t. /\ QueueTypes /\ ServiceKept /\ OrderInv /\ nmsg \in Nat /\ nmsg <= nmsg
      /\ wq["line"].msgs \in Seq(Messages) /\ wq["disp"].msgs \in Seq(Messages)
      /\ wq["line"] \in QueueRecs /\ wq["disp"] \in QueueRecs
    BY DEF OrderOf, QueueInv, QueueTypes, QueueRecs
<1>i. Increasing(wq["line"].msgs) /\ Increasing(wq["disp"].msgs)
    BY <1>t DEF OrderInv
<1>n. NoBlock \notin Messages
    BY DEF NoBlock, Messages
<1>1. CASE DispPoke
    <2> USE <1>1 DEF DispPoke, Serves
    <2>h. /\ HeldBy("disp") = {} /\ HeldBy("disp")' = {} /\ HeldBy("line") = {}
          /\ HeldBy("line")' = {} /\ UNCHANGED <<wq, nmsg>>
        BY <1>t, ServedDoes DEF HeldBy, ServiceKept
    <2>1. CASE tty.xm # NoBlock /\ Output(tty.xm, runq)
        <3> DEFINE x == tty.xm
        <3>1. x \in Messages /\ x.cmd = "data" /\ ~tty.brk
            BY <1>t, <2>1 DEF QueueTypes, ServiceKept
        <3>2. \/ /\ tty.stop \/ tty.brk
                 /\ tty' = [xm |-> x, stop |-> tty.stop, brk |-> tty.brk]
                 /\ UNCHANGED <<runq, owed, last>>
              \/ /\ ~tty.stop /\ ~tty.brk
                 /\ tty' = [xm |-> NoBlock, stop |-> tty.stop, brk |-> tty.brk]
                 /\ runq' \in Seq(Queues) /\ Range(runq') = Range(runq) \cup {"disp"}
                 /\ owed' = owed \ {x.id} /\ last' = x.id
            BY <1>t, <2>1, <3>1, OutputDoes
        <3>3. CASE UNCHANGED <<owed, last>> /\ tty'.xm = x
            BY <1>t, <2>h, <3>3, OrderStays
        <3>4. CASE owed' = owed \ {x.id} /\ last' = x.id /\ tty'.xm = NoBlock
            <4>1. Places[1] = {x} /\ Places'[1] = {}
                BY <1>n, <3>1, <3>4 DEF Places
            <4>2. \A i \in 1 .. 5 : Places'[i] = IF i = 1 THEN {} ELSE Places[i]
                BY <2>h, <4>1 DEF Places
            <4>3. \A q \in {"line", "disp"} : Increasing(wq'[q].msgs)
                BY <1>i, <2>h
            <4>4. 1 \in 1 .. 5 /\ \A i \in 1 .. 5 : i < 1 => Places[i] = {}
                OBVIOUS
            <4> HIDE <1>1 DEF x
            <4> QED
                BY <1>t, <2>h, <3>4, <4>1, <4>2, <4>3, <4>4, OrderHandled
        <3> QED
            BY <3>2, <3>3, <3>4
    <2>2. CASE tty.xm = NoBlock /\ tty.brk /\ UNCHANGED <<runq, tty, owed, last>>
        BY <1>t, <2>h, <2>2, OrderStays
    <2> QED
        BY <2>1, <2>2
<1>2. CASE DispGet
    <2> USE <1>2 DEF DispGet, Serves
    <2>1. /\ wq'["line"] = wq["line"]
          /\ wq'["disp"].msgs = IF wq["disp"].msgs = <<>> THEN <<>> ELSE Tail(wq["disp"].msgs)
        BY <1>t, GetqDoes DEF StallInv, OrderOf, QueueInv
    <2>2. CASE wq["disp"].msgs = <<>>
        BY <1>t, <2>1, <2>2, OrderStays, ServedDoes DEF ServiceKept, HeldBy
    <2>3. CASE wq["disp"].msgs # <<>>
        <3> DEFINE x == Head(wq["disp"].msgs)
        <3>1. serving' = [serving EXCEPT !.m = x, !.step = "handle"]
            BY <2>3
        <3>2. x \in Messages
            BY <1>t, <2>3, HeadAndTail
        <3>3. /\ Increasing(wq'["disp"].msgs) /\ Range(wq'["disp"].msgs) = Range(wq["disp"].msgs) \ {x}
              /\ x \in Range(wq["disp"].msgs)
              /\ \A y \in Range(wq["disp"].msgs) \ {x} : x.id < y.id
            BY <1>t, <1>i, <2>1, <2>3, IncreasingTail
        <3> HIDE DEF x
        <3>4. Places[2] = {} /\ Places'[2] = {x} /\ HeldBy("line")' = HeldBy("line")
            BY <1>t, <1>n, <3>1, <3>2 DEF Places, HeldBy, ServiceKept, QueueTypes
        <3>5. \A i \in 1 .. 5 : Places'[i] = IF i = 3 THEN Places[i] \ {x}
                                             ELSE IF i = 2 THEN Places[i] \cup {x} ELSE Places[i]
            <4>1. /\ Places'[3] = Places[3] \ {x}
                  /\ Places'[2] = Places[2] \cup {x}
                BY <3>3, <3>4 DEF Places
            <4>2. Places'[1] = Places[1] /\ Places'[4] = Places[4] /\ Places'[5] = Places[5]
                BY <2>1, <3>4 DEF Places
            <4>3. \A i \in 1 .. 5 : i = 1 \/ i = 2 \/ i = 3 \/ i = 4 \/ i = 5
                OBVIOUS
            <4> HIDE <1>2
            <4> QED
                BY <4>1, <4>2, <4>3
        <3>6. \A q \in {"line", "disp"} : Increasing(wq'[q].msgs)
            BY <1>i, <2>1, <3>3
        <3>7. x \in Places[3] /\ \A y \in Places[3] \ {x} : x.id < y.id
            BY <3>3 DEF Places
        <3>8. UNCHANGED <<nmsg, last, owed>> /\ 3 \in 1 .. 5 /\ 2 \in 1 .. 5 /\ 2 = 3 - 1 /\ 2 < 3
            OBVIOUS
        <3> HIDE <1>2
        <3> QED
            BY <1>t, <3>5, <3>6, <3>7, <3>8, OrderMoves
    <2> QED
        BY <2>2, <2>3
<1>3. CASE DispData
    <2> USE <1>3 DEF DispData, Serves
    <2> DEFINE x == serving.m
    <2>1. x \in Messages /\ x.cmd = "data" /\ ~tty.brk /\ tty.xm = NoBlock
        BY <1>t DEF QueueTypes, ServiceKept
    <2>2. \/ /\ tty.stop \/ tty.brk
             /\ tty' = [xm |-> x, stop |-> tty.stop, brk |-> tty.brk]
             /\ UNCHANGED <<runq, owed, last>>
          \/ /\ ~tty.stop /\ ~tty.brk
             /\ tty' = [xm |-> NoBlock, stop |-> tty.stop, brk |-> tty.brk]
             /\ runq' \in Seq(Queues) /\ Range(runq') = Range(runq) \cup {"disp"}
             /\ owed' = owed \ {x.id} /\ last' = x.id
        BY <1>t, <2>1, OutputDoes
    <2>3. /\ Places[1] = {} /\ Places[2] = {x} /\ Places'[2] = {}
          /\ HeldBy("line")' = HeldBy("line") /\ UNCHANGED <<wq, nmsg>>
        BY <1>t, <1>n, <2>1, ServedDoes DEF Places, HeldBy
    <2> HIDE DEF x
    <2>4. Places'[3] = Places[3] /\ Places'[4] = Places[4] /\ Places'[5] = Places[5]
        BY <2>3 DEF Places
    <2>5. \A q \in {"line", "disp"} : Increasing(wq'[q].msgs)
        BY <1>i, <2>3
    <2> HIDE <1>3
    <2>6. CASE UNCHANGED <<owed, last>> /\ tty'.xm = x
        <3>1. Places'[1] = {x}
            BY <1>n, <2>1, <2>6 DEF Places
        <3>2. \A i \in 1 .. 5 : Places'[i] = IF i = 2 THEN Places[i] \ {x}
                                             ELSE IF i = 1 THEN Places[i] \cup {x} ELSE Places[i]
            BY <2>3, <2>4, <3>1
        <3>3. x \in Places[2] /\ \A y \in Places[2] \ {x} : x.id < y.id
            BY <2>3
        <3>4. 1 \in 1 .. 5 /\ 2 \in 1 .. 5 /\ 1 = 2 - 1 /\ 1 < 2
            OBVIOUS
        <3> QED
            BY <1>t, <2>3, <2>5, <2>6, <3>2, <3>3, <3>4, OrderMoves
    <2>7. CASE owed' = owed \ {x.id} /\ last' = x.id /\ tty'.xm = NoBlock
        <3>1. Places'[1] = {}
            BY <2>7 DEF Places
        <3>2. \A i \in 1 .. 5 : Places'[i] = IF i = 2 THEN {} ELSE Places[i]
            BY <2>3, <2>4, <3>1
        <3>3. 2 \in 1 .. 5 /\ \A i \in 1 .. 5 : i < 2 => Places[i] = {}
            BY <2>3
        <3> QED
            BY <1>t, <2>3, <2>5, <2>7, <3>2, <3>3, OrderHandled
    <2> QED
        BY <2>2, <2>6, <2>7
<1>4. CASE DispIoctl
    <2> USE <1>4 DEF DispIoctl, Serves
    <2> DEFINE x == serving.m
    <2>1. /\ serving' = [q |-> "disp", m |-> NoBlock, step |-> "get"] /\ x \in Messages
          /\ tty.xm = NoBlock /\ tty'.xm = NoBlock /\ UNCHANGED <<wq, nmsg>>
          /\ owed' = owed \ {x.id} /\ last' = x.id
        BY <1>t DEF QueueTypes, ServiceKept, Handled
    <2>2. /\ Places[1] = {} /\ Places'[1] = {} /\ Places[2] = {x} /\ Places'[2] = {}
          /\ HeldBy("line")' = HeldBy("line")
        BY <1>n, <2>1 DEF Places, HeldBy
    <2> HIDE DEF x
    <2>3. Places'[3] = Places[3] /\ Places'[4] = Places[4] /\ Places'[5] = Places[5]
        BY <2>1, <2>2 DEF Places
    <2>4. \A q \in {"line", "disp"} : Increasing(wq'[q].msgs)
        BY <1>i, <2>1
    <2>5. \A i \in 1 .. 5 : Places'[i] = IF i = 2 THEN {} ELSE Places[i]
        BY <2>2, <2>3
    <2>6. 2 \in 1 .. 5 /\ \A i \in 1 .. 5 : i < 2 => Places[i] = {}
        BY <2>2
    <2> HIDE <1>4
    <2> QED
        BY <1>t, <2>1, <2>2, <2>4, <2>5, <2>6, OrderHandled
<1> QED
    BY <1>1, <1>2, <1>3, <1>4

\* Interrupts: an interrupt character drops the data, and the ioctls stay in order
LEMMA OrderInterrupt ==
    ASSUME OrderOf, KeyStop \/ KeyStart \/ KeyIntr \/ BreakOver
    PROVE  OrderInv'
<1>t. /\ QueueTypes /\ ServiceKept /\ OrderInv /\ nmsg \in Nat /\ nmsg <= nmsg
      /\ wq["line"].msgs \in Seq(Messages) /\ wq["disp"].msgs \in Seq(Messages)
    BY DEF OrderOf, QueueInv, QueueTypes, QueueRecs
<1>1. CASE KeyStop
    BY <1>1, <1>t, OrderStays DEF KeyStop, HeldBy, QueueTypes
<1>2. CASE KeyStart
    BY <1>2, <1>t, OrderStays DEF KeyStart, Resume, HeldBy, QueueTypes
<1>3. CASE KeyIntr
    <2> DEFINE l == wq["line"].msgs
               d == wq["disp"].msgs
               dropped == {m \in Range(l) \cup Range(d) \cup {tty.xm} : m.cmd = "data"}
    <2>1. /\ wq'["line"].msgs = NotData(l) /\ wq'["disp"].msgs = NotData(d)
          /\ tty'.xm = NoBlock /\ UNCHANGED <<serving, nmsg, last>>
          /\ owed' = owed \ {m.id : m \in dropped}
        BY <1>t, <1>3, KeyIntrDoes DEF KeyIntr
    <2>2. ASSUME NEW q \in {"line", "disp"}
          PROVE  /\ Increasing(wq'[q].msgs)
                 /\ Range(wq'[q].msgs) = {m \in Range(wq[q].msgs) : m.cmd # "data"}
        <3> DEFINE s == wq[q].msgs
        <3>1. s \in Seq(Messages) /\ Increasing(s) /\ wq'[q].msgs = NotData(s)
            BY <1>t, <2>1 DEF OrderInv
        <3> HIDE DEF s
        <3>2. KeptOf(s, Len(s), NotData(s)) /\ NotData(s) \in Seq(Messages)
            BY <3>1, NotDataKeeps
        <3>3. Increasing(NotData(s))
            BY <3>1, <3>2 DEF KeptOf
        <3>4. DOMAIN s = 1 .. Len(s)
            BY <3>1
        <3>5. Range(NotData(s)) = {m \in Range(s) : m.cmd # "data"}
            <4>1. ASSUME NEW x \in DOMAIN NotData(s)
                  PROVE  NotData(s)[x] \in {m \in Range(s) : m.cmd # "data"}
                BY <3>2, <3>4 DEF KeptOf, Range
            <4>2. ASSUME NEW y \in DOMAIN s, s[y].cmd # "data" PROVE s[y] \in Range(NotData(s))
                BY <3>2, <3>4, <4>2 DEF KeptOf, Range
            <4> QED
                BY <4>1, <4>2 DEF Range
        <3> QED
            BY <3>1, <3>3, <3>5 DEF s
    <2>3. /\ Places'[1] = {} /\ Places'[2] = Places[2] /\ Places'[4] = Places[4]
          /\ Places'[3] = {m \in Places[3] : m.cmd # "data"}
          /\ Places'[5] = {m \in Places[5] : m.cmd # "data"}
        BY <2>1, <2>2 DEF Places, HeldBy
    <2>4. \A i \in 1 .. 5 : Places'[i] \subseteq Places[i]
        BY <2>3
    <2>5. \A i \in 1 .. 5 : \A m \in Places[i] : m \in Places'[i] <=> m \notin dropped
        <3>1. Places[1] \subseteq dropped
            BY <1>t DEF Places, ServiceKept
        <3>2. Places[3] = Range(d) /\ Places[5] = Range(l)
            BY DEF Places
        <3>3. \A m \in Places[3] \cup Places[5] : m \in dropped <=> m.cmd = "data"
            BY <3>2
        <3>4. Places[2] \cap dropped = {} /\ Places[4] \cap dropped = {}
            <4>1. ASSUME NEW i \in {2, 4}, NEW m \in Places[i], m \in dropped PROVE FALSE
                <5>1. m \notin Places[1] /\ m \notin Places[3] /\ m \notin Places[5]
                    <6>1. m.id \in Nat /\ ~(m.id < m.id)
                        BY <1>t, PlaceTypes
                    <6>2. \A j \in 1 .. 5 : j # i => j < i \/ i < j
                        OBVIOUS
                    <6> QED
                        BY <1>t, <6>1, <6>2 DEF OrderInv
                <5>2. m = tty.xm /\ tty.xm = NoBlock
                    BY <3>2, <4>1, <5>1 DEF Places
                <5>3. m \in Messages
                    BY <1>t, PlaceTypes
                <5> QED
                    BY <5>2, <5>3 DEF NoBlock, Messages
            <4> QED
                BY <4>1
        <3> HIDE DEF dropped
        <3>5. \A i \in 1 .. 5 : i = 1 \/ i = 2 \/ i = 3 \/ i = 4 \/ i = 5
            OBVIOUS
        <3> QED
            BY <2>3, <3>1, <3>3, <3>4, <3>5
    <2>6. owed' = {m.id : m \in InPlaces'}
        <3> DEFINE P(i) == Places[i]
                   R(i) == Places'[i]
        <3>1. owed = {m.id : m \in UNION {P(i) : i \in 1 .. 5}}
            BY <1>t DEF OrderInv
        <3>2. \A m \in dropped : m.cmd = "data" /\ (m = NoBlock \/ \E i \in 1 .. 5 : m \in P(i))
            BY DEF Places
        <3>3. \A m \in dropped : \E i \in 1 .. 5 : m \in P(i)
            BY <3>2 DEF NoBlock
        <3>4. \A i \in 1 .. 5 : R(i) \subseteq P(i) /\ \A m \in P(i) : m \in R(i) <=> m \notin dropped
            BY <2>4, <2>5
        <3>5. \A i, j \in 1 .. 5 : \A m \in P(i), n \in P(j) : m.id = n.id => m = n
            <4>1. ASSUME NEW i \in 1 .. 5, NEW j \in 1 .. 5, NEW m \in P(i), NEW n \in P(j), m.id = n.id
                  PROVE  m = n
                <5>1. m.id \in Nat /\ ~(m.id < n.id) /\ ~(n.id < m.id)
                    BY <1>t, <4>1, PlaceTypes
                <5>2. i = j
                    BY <1>t, <5>1 DEF OrderInv
                <5>3. CASE i \in {1, 2, 4}
                    BY <5>2, <5>3 DEF Places, HeldBy
                <5>4. ASSUME NEW q \in {"line", "disp"}, P(i) = Range(wq[q].msgs) PROVE m = n
                    <6>1. PICK a \in DOMAIN wq[q].msgs : m = wq[q].msgs[a]
                        BY <5>4 DEF Range
                    <6>2. PICK b \in DOMAIN wq[q].msgs : n = wq[q].msgs[b]
                        BY <5>2, <5>4 DEF Range
                    <6>3. Increasing(wq[q].msgs) /\ wq[q].msgs \in Seq(Messages)
                        BY <1>t DEF OrderInv
                    <6>4. ~(a < b) /\ ~(b < a)
                        BY <5>1, <6>1, <6>2, <6>3 DEF Increasing
                    <6> QED
                        BY <6>1, <6>2, <6>3, <6>4
                <5>5. CASE i \in {3, 5}
                    <6>1. P(3) = Range(wq["disp"].msgs) /\ P(5) = Range(wq["line"].msgs)
                        BY DEF Places
                    <6> QED
                        BY <5>4, <5>5, <6>1
                <5> QED
                    BY <5>3, <5>5
            <4> QED
                BY <4>1
        <3> HIDE DEF P, R, dropped
        <3>6. ASSUME NEW i \in 1 .. 5, NEW m \in P(i), m.id \notin {x.id : x \in dropped} PROVE m \in R(i)
            BY <3>4, <3>6
        <3>7. ASSUME NEW i \in 1 .. 5, NEW m \in R(i) PROVE m \in P(i) /\ m.id \notin {x.id : x \in dropped}
            BY <3>3, <3>4, <3>5
        <3>8. owed' = {m.id : m \in UNION {R(i) : i \in 1 .. 5}}
            BY <2>1, <3>1, <3>6, <3>7
        <3> QED
            BY <3>8 DEF InPlaces, R
    <2>7. \A q \in {"line", "disp"} : Increasing(wq'[q].msgs)
        BY <2>2
    <2> QED
        BY <1>t, <2>1, <2>4, <2>6, <2>7, OrderDrops
<1>4. CASE BreakOver
    BY <1>4, <1>t, OrderStays DEF BreakOver, HeldBy, QueueTypes
<1> QED
    BY <1>1, <1>2, <1>3, <1>4

\* Every step keeps the order
LEMMA OrderKept == StrSpec => []OrderOf
<1>1. StrInit => OrderInv
    <2> SUFFICES ASSUME StrInit PROVE OrderInv
        OBVIOUS
    <2>1. \A i \in 1 .. 5 : Places[i] = {}
        BY DEF StrInit, Places, HeldBy, NotServing, Range
    <2>2. \A q \in {"line", "disp"} : Increasing(wq[q].msgs)
        BY DEF StrInit, Increasing
    <2>3. last = 0 /\ nmsg = 0 /\ owed = {}
        BY DEF StrInit
    <2> QED
        BY <2>1, <2>2, <2>3 DEF OrderInv
<1>2. OrderOf /\ [StrNext]_<<strVars, wchan>> => OrderInv'
    <2> SUFFICES ASSUME OrderOf, [StrNext]_<<strVars, wchan>> PROVE OrderInv'
        OBVIOUS
    <2>n. nmsg \in Nat /\ nmsg <= nmsg /\ nmsg <= nmsg + 1 /\ wq \in [{"line", "disp"} -> QueueRecs]
        BY DEF OrderOf, QueueInv, QueueTypes
    <2>1. CASE UNCHANGED <<strVars, wchan>>
        BY <2>1, <2>n, OrderStays DEF strVars, HeldBy
    <2>2. CASE QueuesStay \/ Numbered
        BY <2>2, <2>n, OrderStays DEF QueuesStay, Numbered, HeldBy
    <2>3. CASE WantsRoom
        <3>1. \A q \in {"line", "disp"} : wq'[q].msgs = wq[q].msgs
            BY <2>3, <2>n DEF WantsRoom, QueueRecs
        <3> QED
            BY <2>3, <2>n, <3>1, OrderStays DEF WantsRoom, HeldBy
    <2> QED
        BY <2>1, <2>2, <2>3, StrNextKinds, OrderAdds, OrderLine, OrderDisp, OrderInterrupt
           DEF QueueStep
<1>3. StrSpec => []OrderInv
    <2>1. StrInit /\ QueueInv => OrderOf
        BY <1>1 DEF OrderOf
    <2>2. QueueInv' /\ OrderInv' => OrderOf'
        BY DEF OrderOf
    <2>3. OrderOf => OrderInv
        BY DEF OrderOf
    <2> QED
        BY <1>2, <2>1, <2>2, <2>3, QueuesKept, PTL DEF StrSpec
<1> QED
    BY <1>3, QueuesKept, PTL DEF OrderOf

\* What is written and the ioctls that wait for output reach the display in the order in which
\* they were sent, and nothing is lost but the data that an interrupt character flushes
\* (putq, getq, putbq, flushq of stream.c, line_wsrvc, disp_proc)
THEOREM InOrderHolds == StrSpec => []InOrder
<1>1. OrderOf => InOrder
    BY OrderSays DEF OrderOf
<1> QED
    BY <1>1, OrderKept, PTL

-----------------------------------------------------------------------------
(* The ioctls                                                              *)

\* What processes sleep on, what they do, and who waits for control
Chans == {NoChan, WriteRoom, Control, Answer}
Plain == {"user", "room", "copy", "run"}
Owning == {"runioctl", "ack"}
Tasks == [at : Plain \cup Owning \cup {"wait", "out"}, id : Nat,
          req : Requests \cup {NoTask.req}]
HeadRecs == [ioctl : BOOLEAN, str2 : BOOLEAN, str3 : BOOLEAN, wsleep : BOOLEAN,
             iocid : Nat, blk : Nat, waiting : Int]
Waiters == {p \in Procs : task[p].at = "wait"}

IoctlTypes ==
    /\ sd \in HeadRecs
    /\ task \in [Procs -> Tasks]
    /\ timers \in [str2 : Nat, str3 : {0, 1}, brk : Nat]
    /\ wchan \in [Procs -> Chans]

\* Where a process sleeps says what it does
SleepsFor ==
    \A p \in Procs : \/ wchan[p] = NoChan
                     \/ wchan[p] = WriteRoom /\ task[p].at = "room"
                     \/ wchan[p] = Control /\ task[p].at = "wait"
                     \/ wchan[p] = Answer /\ task[p].at = "ack" /\ sd.str3

\* The timer for the reply belongs to the process that has control; there are no more
\* timers for control than processes that wait for it
TimerOf ==
    /\ \A p \in Procs : StrAsleep(p, "ack") /\ ~task[p].req.forever => timers.str3 = 1
    /\ timers.str3 = 1 => \E p \in Procs : task[p].at = "ack" /\ ~task[p].req.forever
    /\ IsFiniteSet(Waiters) /\ timers.str2 <= Cardinality(Waiters)

IoctlInv == IoctlTypes /\ SleepsFor /\ AckIsOwners /\ TimerOf

\* wakeup and sleep
LEMMA Wakes ==
    ASSUME wchan \in [Procs -> Chans], NEW C, Wakeup(C)
    PROVE  /\ wchan' \in [Procs -> Chans]
           /\ \A o \in Procs : wchan'[o] = IF wchan[o] \in C THEN NoChan ELSE wchan[o]
BY DEF Wakeup, Woken, Chans

LEMMA Sleeps ==
    ASSUME wchan \in [Procs -> Chans], NEW p \in Procs, NEW c \in Chans, Sleep(p, c, {})
    PROVE  /\ wchan' \in [Procs -> Chans] /\ wchan'[p] = c
           /\ \A o \in Procs \ {p} : wchan'[o] = wchan[o]
BY DEF Sleep, Woken, Chans

LEMMA Unsleeps ==
    ASSUME wchan \in [Procs -> Chans], NEW p \in Procs, NEW C, Unsleep(p, C)
    PROVE  /\ wchan' \in [Procs -> Chans] /\ wchan'[p] = NoChan
           /\ \A o \in Procs \ {p} : wchan'[o] = IF wchan[o] \in C THEN NoChan ELSE wchan[o]
BY DEF Unsleep, Woken, Chans

\* A process that does not wait for control does something else that is not to wait for it
LEMMA SameWaiters ==
    ASSUME NEW p \in Procs, \A o \in Procs \ {p} : task'[o] = task[o],
           task[p].at # "wait", task'[p].at # "wait"
    PROVE  Waiters' = Waiters
BY DEF Waiters

\* A step of a process p that has no part in an ioctl
LEMMA IoctlPlain ==
    ASSUME IoctlInv, NEW p \in Procs, task[p].at \in Plain, task'[p].at \in Plain,
           task' \in [Procs -> Tasks], \A o \in Procs \ {p} : task'[o] = task[o],
           NEW w \in BOOLEAN, sd' = [sd EXCEPT !.wsleep = w], UNCHANGED timers,
           wchan' \in [Procs -> Chans],
           \A o \in Procs \ {p} : wchan'[o] = wchan[o],
           wchan'[p] # NoChan => wchan'[p] = WriteRoom /\ task'[p].at = "room"
    PROVE  IoctlInv'
<1>t. IoctlTypes /\ SleepsFor /\ AckIsOwners /\ TimerOf
    BY DEF IoctlInv
<1>1. /\ UNCHANGED <<sd.ioctl, sd.str3, sd.iocid, sd.blk>>
      /\ sd' \in HeadRecs
    BY <1>t DEF IoctlTypes, HeadRecs
<1>2. IoctlTypes'
    BY <1>t, <1>1 DEF IoctlTypes
<1>3. SleepsFor'
    BY <1>t, <1>1 DEF SleepsFor
<1>4. \A o \in Procs : \A at \in {"wait", "ack"} : StrAsleep(o, at)' => StrAsleep(o, at) /\ o # p
    BY DEF StrAsleep, Awake, Plain
<1>5. \A o \in Procs : \A at \in {"wait", "ack", "out", "runioctl"} : task'[o].at = at <=> task[o].at = at
    BY DEF Plain
<1>6. \A o \in Procs : task'[o].at \in Owning => o # p /\ task'[o] = task[o]
    BY DEF Plain, Owning
<1>7. AckIsOwners'
    BY <1>t, <1>1, <1>4, <1>5, <1>6 DEF AckIsOwners, Owning
<1>8. Waiters' = Waiters
    BY SameWaiters DEF Plain
<1>9. TimerOf'
    BY <1>t, <1>4, <1>5, <1>6, <1>8 DEF TimerOf, Owning
<1> QED
    BY <1>2, <1>3, <1>7, <1>9 DEF IoctlInv

\* A process goes on with what it does, or ends it
LEMMA TaskStays ==
    ASSUME IoctlTypes, NEW p \in Procs, NEW at \in Plain \cup Owning \cup {"wait", "out"}, Goes(p, at)
    PROVE  /\ task' \in [Procs -> Tasks] /\ task'[p].at = at
           /\ task'[p].id = task[p].id /\ task'[p].req = task[p].req
           /\ \A o \in Procs \ {p} : task'[o] = task[o]
BY DEF IoctlTypes, Goes, Tasks

LEMMA TaskEnds ==
    ASSUME IoctlTypes, NEW p \in Procs, ToUser(p)
    PROVE  /\ task' \in [Procs -> Tasks] /\ task'[p].at = "user"
           /\ \A o \in Procs \ {p} : task'[o] = task[o]
BY DEF IoctlTypes, ToUser, Tasks, NoTask, Plain

\* The steps of strwrite
LEMMA IoctlWrites ==
    ASSUME IoctlInv, NEW p \in Procs,
           StrWrite(p) \/ WriteInterrupted(p) \/ WriteCopied(p) \/ WriteDone(p)
    PROVE  IoctlInv'
<1>t. /\ IoctlTypes /\ SleepsFor /\ wchan \in [Procs -> Chans] /\ task[p] \in Tasks
      /\ sd = [sd EXCEPT !.wsleep = sd.wsleep] /\ sd.wsleep \in BOOLEAN /\ WriteRoom \in Chans
    BY DEF IoctlInv, IoctlTypes, HeadRecs, Chans
<1>p. /\ "run" \in Plain /\ "copy" \in Plain /\ "room" \in Plain /\ "user" \in Plain
    BY DEF Plain
<1>s. task[p].at \in {"copy", "run", "user"} => wchan[p] = NoChan
    BY <1>t DEF SleepsFor
<1>1. CASE StrWrite(p)
    <2> USE <1>1 DEF StrWrite
    <2>1. task[p].at \in Plain /\ wchan[p] = NoChan /\ UNCHANGED timers
        BY <1>p DEF MayBegin, Awake
    <2>2. CASE UNCHANGED <<sd, wchan>> /\ (Goes(p, "run") \/ Goes(p, "copy") \/ ToUser(p))
        <3>1. /\ task' \in [Procs -> Tasks] /\ task'[p].at \in Plain
              /\ \A o \in Procs \ {p} : task'[o] = task[o]
            BY <1>t, <1>p, <2>2, TaskStays, TaskEnds
        <3> QED
            BY <1>t, <2>1, <2>2, <3>1, IoctlPlain
    <2>3. CASE sd' = [sd EXCEPT !.wsleep = TRUE] /\ Goes(p, "room") /\ Sleep(p, WriteRoom, {})
        <3>1. /\ task' \in [Procs -> Tasks] /\ task'[p].at = "room"
              /\ \A o \in Procs \ {p} : task'[o] = task[o]
            BY <1>t, <1>p, <2>3, TaskStays
        <3>2. /\ wchan' \in [Procs -> Chans] /\ wchan'[p] = WriteRoom
              /\ \A o \in Procs \ {p} : wchan'[o] = wchan[o]
            BY <1>t, <2>3, Sleeps
        <3>3. TRUE \in BOOLEAN
            OBVIOUS
        <3> HIDE <1>1
        <3> QED
            BY <1>p, <2>1, <2>3, <3>1, <3>2, <3>3, IoctlPlain
    <2> QED
        BY <2>2, <2>3 DEF PutData
<1>2. CASE WriteInterrupted(p)
    <2> USE <1>2 DEF WriteInterrupted
    <2>1. /\ task' \in [Procs -> Tasks] /\ task'[p].at = "user"
          /\ \A o \in Procs \ {p} : task'[o] = task[o]
        BY <1>t, TaskEnds
    <2>2. /\ wchan' \in [Procs -> Chans] /\ wchan'[p] = NoChan
          /\ \A o \in Procs \ {p} : wchan'[o] = wchan[o]
        BY <1>t, Unsleeps
    <2>3. FALSE \in BOOLEAN /\ sd' = [sd EXCEPT !.wsleep = FALSE] /\ UNCHANGED timers
        OBVIOUS
    <2>4. task[p].at \in Plain
        BY <1>p
    <2> HIDE <1>2
    <2> QED
        BY <1>p, <2>1, <2>2, <2>3, <2>4, IoctlPlain
<1>3. CASE WriteCopied(p)
    <2> USE <1>3 DEF WriteCopied, PutData
    <2>1. /\ task' \in [Procs -> Tasks] /\ task'[p].at \in Plain
          /\ \A o \in Procs \ {p} : task'[o] = task[o]
        BY <1>t, <1>p, TaskStays, TaskEnds
    <2> QED
        BY <1>t, <1>p, <1>s, <2>1, IoctlPlain
<1>4. CASE WriteDone(p)
    <2> USE <1>4 DEF WriteDone
    <2>1. /\ task' \in [Procs -> Tasks] /\ task'[p].at = "user"
          /\ \A o \in Procs \ {p} : task'[o] = task[o]
        BY <1>t, TaskEnds
    <2> QED
        BY <1>t, <1>p, <1>s, <2>1, IoctlPlain
<1> QED
    BY <1>1, <1>2, <1>3, <1>4

\* A process waits for control no longer, and takes the first timer with it, if there is one
LEMMA WaiterLeaves ==
    ASSUME IsFiniteSet(Waiters), timers.str2 <= Cardinality(Waiters), timers.str2 \in Nat,
           NEW p \in Procs, task[p].at = "wait", task'[p].at # "wait",
           \A o \in Procs \ {p} : task'[o] = task[o],
           timers'.str2 = IF timers.str2 > 0 THEN timers.str2 - 1 ELSE 0
    PROVE  IsFiniteSet(Waiters') /\ timers'.str2 <= Cardinality(Waiters')
<1>1. p \in Waiters /\ Waiters' = Waiters \ {p}
    BY DEF Waiters
<1>2. /\ IsFiniteSet(Waiters') /\ Cardinality(Waiters') = Cardinality(Waiters) - 1
      /\ Cardinality(Waiters') \in Nat /\ Cardinality(Waiters) \in Nat
    BY <1>1, FS_RemoveElement, FS_CardinalityType
<1> QED
    BY <1>2

\* Process p takes control
LEMMA IoctlTakes ==
    ASSUME IoctlInv, nmsg \in Nat, NEW p \in Procs, wchan[p] = NoChan, ~sd.ioctl,
           NEW S \in HeadRecs, S.str3 = sd.str3, NEW req \in Requests \cup {NoTask.req},
           SendIoctl(p, S, req), UNCHANGED wchan,
           timers' \in [str2 : Nat, str3 : {0, 1}, brk : Nat], timers'.str3 = timers.str3,
           \/ task[p].at = "user" /\ timers'.str2 = timers.str2
           \/ task[p].at = "wait" /\ timers'.str2 = IF timers.str2 > 0 THEN timers.str2 - 1 ELSE 0
    PROVE  IoctlInv'
<1> DEFINE id == nmsg + 1
           C == [S EXCEPT !.ioctl = TRUE, !.blk = 0, !.iocid = id]
<1>t. IoctlTypes /\ SleepsFor /\ AckIsOwners /\ TimerOf /\ id \in Nat /\ id # 0
    BY DEF IoctlInv
<1>1. C \in HeadRecs /\ C.ioctl = TRUE /\ C.iocid = id /\ C.blk = 0 /\ C.str3 = S.str3
    BY <1>t DEF HeadRecs
<1>2. sd' = Strrput(C, id) \/ sd' = C
    BY DEF SendIoctl
<1> HIDE DEF C
<1>3. /\ sd' \in HeadRecs /\ sd'.ioctl /\ sd'.iocid = id /\ sd'.blk \in {0, id}
      /\ sd'.str3 = sd.str3
    BY <1>t, <1>1, <1>2 DEF HeadRecs, Strrput
<1>4. task' = [task EXCEPT ![p] = [at |-> "runioctl", id |-> id, req |-> req]]
    BY DEF SendIoctl
<1> HIDE DEF id
<1>5. /\ task' \in [Procs -> Tasks] /\ task'[p].at = "runioctl" /\ task'[p].id = id
      /\ \A o \in Procs \ {p} : task'[o] = task[o]
    BY <1>t, <1>4 DEF IoctlTypes, Tasks, Owning
<1>6. \A o \in Procs : task[o].at \notin Owning
    BY <1>t DEF AckIsOwners, Owning
<1>7. IoctlTypes'
    BY <1>t, <1>3, <1>5 DEF IoctlTypes
<1>8. SleepsFor'
    BY <1>t, <1>3, <1>5 DEF SleepsFor
<1>9. AckIsOwners'
    BY <1>3, <1>5, <1>6 DEF AckIsOwners, Owning
<1>10. timers.str3 = 0
    BY <1>t, <1>6 DEF TimerOf, IoctlTypes, Owning
<1>11. IsFiniteSet(Waiters') /\ timers'.str2 <= Cardinality(Waiters')
    <2>1. CASE task[p].at = "user"
        BY <1>t, <1>5, <2>1, SameWaiters DEF TimerOf
    <2>2. CASE task[p].at = "wait"
        BY <1>t, <1>5, <2>2, WaiterLeaves DEF TimerOf, IoctlTypes
    <2> QED
        BY <2>1, <2>2
<1>12. \A o \in Procs : task'[o].at # "ack"
    BY <1>5, <1>6 DEF Owning
<1>13. TimerOf'
    BY <1>10, <1>11, <1>12 DEF TimerOf, StrAsleep
<1> QED
    BY <1>7, <1>8, <1>9, <1>13 DEF IoctlInv

\* To wait no longer changes nothing that the owner of control relies on
LEMMA LeftDoes ==
    ASSUME IoctlTypes
    PROVE  /\ Left \in HeadRecs /\ Left.ioctl = sd.ioctl /\ Left.iocid = sd.iocid
           /\ Left.blk = sd.blk /\ Left.str3 = sd.str3
<1>1. sd \in HeadRecs /\ sd.waiting - 1 \in Int /\ (sd.str2 /\ sd.waiting > 1) \in BOOLEAN
    BY DEF IoctlTypes, HeadRecs
<1>2. Left = [sd EXCEPT !.waiting = sd.waiting - 1, !.str2 = sd.str2 /\ sd.waiting > 1]
    BY DEF Left
<1> QED
    BY <1>1, <1>2 DEF HeadRecs

\* The steps of strioctl
LEMMA BeginKept ==
    ASSUME IoctlInv, nmsg \in Nat, NEW p \in Procs, IoctlBegin(p)
    PROVE  IoctlInv'
<1>t. IoctlTypes /\ SleepsFor /\ AckIsOwners /\ TimerOf /\ task[p].at = "user" /\ wchan[p] = NoChan
    BY DEF IoctlInv, IoctlBegin, MayBegin, Awake
<1>1. CASE \E req \in Requests : ~sd.ioctl /\ SendIoctl(p, sd, req) /\ UNCHANGED <<timers, wchan>>
    BY <1>t, <1>1, IoctlTakes DEF IoctlTypes
<1>2. CASE \E req \in Requests :
              /\ sd.ioctl
              /\ timers' = [timers EXCEPT !.str2 = @ + 1]
              /\ sd' = [sd EXCEPT !.waiting = @ + 1, !.str2 = TRUE]
              /\ Waits(p, req) /\ Sleep(p, Control, {})
    <2>1. PICK req \in Requests : Waits(p, req)
        BY <1>2
    <2>2. /\ task' \in [Procs -> Tasks] /\ task'[p].at = "wait"
          /\ \A o \in Procs \ {p} : task'[o] = task[o]
        BY <1>t, <2>1 DEF IoctlTypes, Waits, Tasks
    <2>3. /\ sd' \in HeadRecs /\ sd'.ioctl = sd.ioctl /\ sd'.iocid = sd.iocid /\ sd'.blk = sd.blk
          /\ sd'.str3 = sd.str3
        <3>1. sd \in HeadRecs /\ sd.waiting \in Int /\ sd.waiting + 1 \in Int /\ TRUE \in BOOLEAN
            BY <1>t DEF IoctlTypes, HeadRecs
        <3>2. sd' = [sd EXCEPT !.waiting = sd.waiting + 1, !.str2 = TRUE]
            BY <1>2
        <3> QED
            BY <3>1, <3>2 DEF HeadRecs
    <2>4. /\ timers' \in [str2 : Nat, str3 : {0, 1}, brk : Nat] /\ timers'.str3 = timers.str3
          /\ timers'.str2 = timers.str2 + 1
        BY <1>t, <1>2 DEF IoctlTypes
    <2>5. /\ wchan' \in [Procs -> Chans] /\ wchan'[p] = Control
          /\ \A o \in Procs \ {p} : wchan'[o] = wchan[o]
        BY <1>t, <1>2, Sleeps DEF IoctlTypes, Chans
    <2>6. IoctlTypes' /\ SleepsFor'
        BY <1>t, <2>2, <2>3, <2>4, <2>5 DEF IoctlTypes, SleepsFor
    <2>7. AckIsOwners'
        BY <1>t, <1>2, <2>2, <2>3 DEF AckIsOwners
    <2>8. Waiters' = Waiters \cup {p} /\ p \notin Waiters
        BY <1>t, <2>2 DEF Waiters
    <2>9. /\ IsFiniteSet(Waiters') /\ Cardinality(Waiters') = Cardinality(Waiters) + 1
          /\ Cardinality(Waiters) \in Nat
        BY <1>t, <2>8, FS_AddElement, FS_CardinalityType DEF TimerOf
    <2>10. timers'.str2 <= Cardinality(Waiters')
        BY <1>t, <2>4, <2>9 DEF TimerOf, IoctlTypes
    <2>11. \A o \in Procs : StrAsleep(o, "ack")' => StrAsleep(o, "ack") /\ o # p
        BY <2>2, <2>5 DEF StrAsleep, Awake
    <2>12. \A o \in Procs : task[o].at = "ack" => o # p
        BY <1>t
    <2>13. TimerOf'
        BY <1>t, <2>2, <2>4, <2>9, <2>10, <2>11, <2>12 DEF TimerOf
    <2> QED
        BY <2>6, <2>7, <2>13 DEF IoctlInv
<1> QED
    BY <1>1, <1>2 DEF IoctlBegin

LEMMA AgainKept ==
    ASSUME IoctlInv, nmsg \in Nat, NEW p \in Procs, IoctlAgain(p)
    PROVE  IoctlInv'
<1>t. IoctlTypes /\ SleepsFor /\ AckIsOwners /\ TimerOf /\ task[p].at = "wait" /\ wchan[p] = NoChan
    BY DEF IoctlInv, IoctlAgain, Awake
<1>1. CASE ~sd.ioctl /\ Untimeout2 /\ SendIoctl(p, Left, task[p].req) /\ UNCHANGED wchan
    <2>1. Left \in HeadRecs /\ Left.str3 = sd.str3
        BY <1>t, LeftDoes
    <2>2. task[p].req \in Requests \cup {NoTask.req}
        BY <1>t DEF IoctlTypes, Tasks
    <2>3. /\ timers' \in [str2 : Nat, str3 : {0, 1}, brk : Nat] /\ timers'.str3 = timers.str3
          /\ timers'.str2 = IF timers.str2 > 0 THEN timers.str2 - 1 ELSE 0
        BY <1>t, <1>1 DEF IoctlTypes, Untimeout2
    <2> QED
        BY <1>t, <1>1, <2>1, <2>2, <2>3, IoctlTakes
<1>2. CASE sd.ioctl /\ Sleep(p, Control, {}) /\ UNCHANGED <<sd, timers, task>>
    <2>1. /\ wchan' \in [Procs -> Chans] /\ wchan'[p] = Control
          /\ \A o \in Procs \ {p} : wchan'[o] = wchan[o]
        BY <1>t, <1>2, Sleeps DEF IoctlTypes, Chans
    <2>2. IoctlTypes' /\ SleepsFor'
        BY <1>t, <1>2, <2>1 DEF IoctlTypes, SleepsFor
    <2>3. AckIsOwners'
        BY <1>t, <1>2 DEF AckIsOwners
    <2>4. \A o \in Procs : StrAsleep(o, "ack")' => StrAsleep(o, "ack")
        BY <1>t, <1>2, <2>1 DEF StrAsleep, Awake
    <2>5. TimerOf'
        BY <1>t, <1>2, <2>4 DEF TimerOf, Waiters
    <2> QED
        BY <2>2, <2>3, <2>5 DEF IoctlInv
<1> QED
    BY <1>1, <1>2 DEF IoctlAgain

LEMMA NotBegunKept ==
    ASSUME IoctlInv, NEW p \in Procs, IoctlNotBegun(p)
    PROVE  IoctlInv'
<1> USE DEF IoctlNotBegun
<1>t. IoctlTypes /\ SleepsFor /\ AckIsOwners /\ TimerOf /\ task[p].at = "wait"
    BY DEF IoctlInv
<1>1. /\ task' \in [Procs -> Tasks] /\ task'[p].at = "user"
      /\ \A o \in Procs \ {p} : task'[o] = task[o]
    BY <1>t, TaskEnds
<1>2. /\ sd' \in HeadRecs /\ sd'.ioctl = sd.ioctl /\ sd'.iocid = sd.iocid /\ sd'.blk = sd.blk
      /\ sd'.str3 = sd.str3
    BY <1>t, LeftDoes
<1>3. /\ timers' \in [str2 : Nat, str3 : {0, 1}, brk : Nat] /\ timers'.str3 = timers.str3
      /\ timers'.str2 = IF timers.str2 > 0 THEN timers.str2 - 1 ELSE 0
    BY <1>t DEF IoctlTypes, Untimeout2
<1>4. /\ wchan' \in [Procs -> Chans] /\ wchan'[p] = NoChan
      /\ \A o \in Procs \ {p} : wchan'[o] = wchan[o]
    BY <1>t, Unsleeps DEF IoctlTypes
<1>5. IoctlTypes' /\ SleepsFor'
    BY <1>t, <1>1, <1>2, <1>3, <1>4 DEF IoctlTypes, SleepsFor
<1>6. \A o \in Procs : \A at \in {"ack", "wait"} : StrAsleep(o, at)' => StrAsleep(o, at) /\ o # p
    BY <1>1, <1>4 DEF StrAsleep, Awake
<1>7. AckIsOwners'
    BY <1>t, <1>1, <1>2, <1>6 DEF AckIsOwners
<1>8. IsFiniteSet(Waiters') /\ timers'.str2 <= Cardinality(Waiters')
    BY <1>t, <1>1, <1>3, WaiterLeaves DEF TimerOf, IoctlTypes
<1>9. TimerOf'
    BY <1>t, <1>1, <1>3, <1>6, <1>8 DEF TimerOf
<1> QED
    BY <1>5, <1>7, <1>9 DEF IoctlInv

\* Process p, which has control, gives it up; others are woken, or p has to copy out
LEMMA IoctlEnds ==
    ASSUME IoctlInv, NEW p \in Procs, task[p].at \in Owning,
           task' \in [Procs -> Tasks], task'[p].at \in {"user", "out"},
           \A o \in Procs \ {p} : task'[o] = task[o],
           sd' \in HeadRecs, timers' \in [str2 : Nat, str3 : {0, 1}, brk : Nat],
           timers'.str2 = timers.str2, timers'.str3 = 0,
           wchan' \in [Procs -> Chans], wchan'[p] = NoChan,
           \A o \in Procs \ {p} : wchan'[o] \in {wchan[o], NoChan},
           task'[p].at = "user" => \A o \in Procs \ {p} : wchan'[o] # Control
    PROVE  IoctlInv'
<1>t. IoctlTypes /\ SleepsFor /\ AckIsOwners /\ TimerOf
    BY DEF IoctlInv
<1>1. \A o \in Procs : task'[o].at \notin Owning
    BY <1>t DEF AckIsOwners, Owning
<1>2. IoctlTypes'
    BY DEF IoctlTypes
<1>3. \A o \in Procs : wchan[o] # Answer \/ o = p
    BY <1>t DEF SleepsFor, AckIsOwners, Owning, Answer, NoChan, WriteRoom, Control
<1>4. SleepsFor'
    BY <1>t, <1>3 DEF SleepsFor
<1>5. (\E o \in Procs : StrAsleep(o, "wait")') => \E o \in Procs : task'[o].at = "out"
    <2>1. SUFFICES ASSUME NEW o \in Procs, StrAsleep(o, "wait")' PROVE task'[p].at = "out"
        OBVIOUS
    <2>2. o # p /\ task[o].at = "wait" /\ wchan'[o] # NoChan /\ wchan[o] = wchan'[o]
        BY <2>1 DEF StrAsleep, Awake
    <2>3. wchan[o] = Control
        BY <1>t, <2>2 DEF SleepsFor
    <2> QED
        BY <2>2, <2>3
<1>6. AckIsOwners'
    BY <1>1, <1>5 DEF AckIsOwners, Owning
<1>7. Waiters' = Waiters
    BY SameWaiters DEF Owning
<1>8. TimerOf'
    BY <1>t, <1>1, <1>7 DEF TimerOf, StrAsleep, Owning
<1> QED
    BY <1>2, <1>4, <1>6, <1>8 DEF IoctlInv

\* The reply is there
LEMMA RepliedKept ==
    ASSUME IoctlInv, NEW p \in Procs, task[p].at \in Owning, wchan[p] = NoChan, Replied(p),
           timers' \in [str2 : Nat, str3 : {0, 1}, brk : Nat],
           timers'.str2 = timers.str2, timers'.str3 = 0
    PROVE  IoctlInv'
<1>t. IoctlTypes
    BY DEF IoctlInv
<1>1. sd' \in HeadRecs
    <2>1. FALSE \in BOOLEAN /\ 0 \in Nat
        OBVIOUS
    <2> QED
        BY <1>t, <2>1 DEF Replied, IoctlTypes, HeadRecs
<1>2. CASE ToUser(p) /\ Wakeup({Control})
    <2>1. /\ task' \in [Procs -> Tasks] /\ task'[p].at = "user"
          /\ \A o \in Procs \ {p} : task'[o] = task[o]
        BY <1>t, <1>2, TaskEnds
    <2>2. /\ wchan' \in [Procs -> Chans]
          /\ \A o \in Procs : wchan'[o] = IF wchan[o] = Control THEN NoChan ELSE wchan[o]
        BY <1>t, <1>2, Wakes DEF IoctlTypes
    <2>5. NoChan # Control
        BY DEF NoChan, Control
    <2>3. \A o \in Procs : wchan'[o] # Control /\ wchan'[o] \in {wchan[o], NoChan}
        BY <2>2, <2>5
    <2>4. task'[p].at \in {"user", "out"} /\ wchan'[p] = NoChan
        BY <2>1, <2>2
    <2> QED
        BY <1>1, <2>1, <2>2, <2>3, <2>4, IoctlEnds
<1>3. CASE Goes(p, "out") /\ UNCHANGED wchan
    <2>1. /\ task' \in [Procs -> Tasks] /\ task'[p].at = "out"
          /\ \A o \in Procs \ {p} : task'[o] = task[o]
        BY <1>t, <1>3, TaskStays
    <2>2. \A o \in Procs : wchan'[o] \in {wchan[o], NoChan}
        BY <1>3
    <2>3. task'[p].at \in {"user", "out"} /\ task'[p].at # "user" /\ wchan'[p] = NoChan
          /\ wchan' \in [Procs -> Chans]
        BY <1>t, <1>3, <2>1 DEF IoctlTypes
    <2> QED
        BY <1>1, <2>1, <2>2, <2>3, IoctlEnds
<1> QED
    BY <1>2, <1>3 DEF Replied

LEMMA SentKept ==
    ASSUME IoctlInv, NEW p \in Procs, IoctlSent(p)
    PROVE  IoctlInv'
<1>t. IoctlTypes /\ SleepsFor /\ AckIsOwners /\ TimerOf /\ task[p].at = "runioctl"
    BY DEF IoctlInv, IoctlSent
<1>w. wchan[p] = NoChan
    BY <1>t DEF SleepsFor
<1>a. \A o \in Procs : task[o].at # "ack" /\ (o # p => task[o].at # "runioctl")
    BY <1>t DEF AckIsOwners
<1>0. timers.str3 = 0
    BY <1>t, <1>a DEF TimerOf, IoctlTypes
<1>1. CASE Replied(p) /\ UNCHANGED timers
    <2>1. task[p].at \in Owning
        BY <1>t DEF Owning
    <2> QED
        BY <1>t, <1>w, <1>0, <1>1, <2>1, RepliedKept DEF IoctlTypes
<1>2. CASE /\ timers' = [timers EXCEPT !.str3 = IF task[p].req.forever THEN @ ELSE @ + 1]
           /\ sd' = [sd EXCEPT !.str3 = TRUE]
           /\ Goes(p, "ack") /\ Sleep(p, Answer, {})
    <2>1. /\ task' \in [Procs -> Tasks] /\ task'[p].at = "ack" /\ task'[p].id = task[p].id
          /\ task'[p].req = task[p].req /\ \A o \in Procs \ {p} : task'[o] = task[o]
        <3>1. "ack" \in Plain \cup Owning \cup {"wait", "out"}
            BY DEF Owning
        <3> QED
            BY <1>t, <1>2, <3>1, TaskStays
    <2>2. /\ wchan' \in [Procs -> Chans] /\ wchan'[p] = Answer
          /\ \A o \in Procs \ {p} : wchan'[o] = wchan[o]
        BY <1>t, <1>2, Sleeps DEF IoctlTypes, Chans
    <2>3. /\ sd' \in HeadRecs /\ sd'.ioctl = sd.ioctl /\ sd'.iocid = sd.iocid /\ sd'.blk = sd.blk
          /\ sd'.str3
        BY <1>t, <1>2 DEF IoctlTypes, HeadRecs
    <2>4. /\ timers' \in [str2 : Nat, str3 : {0, 1}, brk : Nat] /\ timers'.str2 = timers.str2
          /\ timers'.str3 = IF task[p].req.forever THEN 0 ELSE 1
        BY <1>t, <1>0, <1>2 DEF IoctlTypes
    <2>5. IoctlTypes' /\ SleepsFor'
        BY <1>t, <2>1, <2>2, <2>3, <2>4 DEF IoctlTypes, SleepsFor
    <2>6. \A o \in Procs : task'[o].at \in {"runioctl", "ack"} => o = p
        BY <1>a, <2>1
    <2>7. \A o \in Procs : StrAsleep(o, "wait")' => StrAsleep(o, "wait")
        BY <2>1, <2>2 DEF StrAsleep, Awake
    <2>8. AckIsOwners'
        BY <1>t, <2>1, <2>3, <2>6, <2>7 DEF AckIsOwners
    <2>9. Waiters' = Waiters
        BY <1>t, <2>1, SameWaiters
    <2>10. TimerOf'
        <3>1. \A o \in Procs : StrAsleep(o, "ack")' => o = p
            BY <2>6 DEF StrAsleep
        <3>2. timers'.str3 = 1 => ~task'[p].req.forever
            BY <2>1, <2>4
        <3>3. ~task'[p].req.forever => timers'.str3 = 1
            BY <2>1, <2>4
        <3> QED
            BY <1>t, <2>1, <2>4, <2>9, <3>1, <3>2, <3>3 DEF TimerOf
    <2> QED
        BY <2>5, <2>8, <2>10 DEF IoctlInv
<1> QED
    BY <1>1, <1>2 DEF IoctlSent

\* The process that had control takes its timer with it
LEMMA TimerStops ==
    ASSUME IoctlInv, NEW p \in Procs, task[p].at = "ack", Untimeout3(p)
    PROVE  /\ timers' \in [str2 : Nat, str3 : {0, 1}, brk : Nat]
           /\ timers'.str2 = timers.str2 /\ timers'.str3 = 0
<1>t. IoctlTypes /\ AckIsOwners /\ TimerOf
    BY DEF IoctlInv
<1>1. timers.str3 = 1 => ~task[p].req.forever
    BY <1>t DEF TimerOf, AckIsOwners
<1> QED
    BY <1>t, <1>1 DEF IoctlTypes, Untimeout3

LEMMA EndsKept ==
    ASSUME IoctlInv, NEW p \in Procs, IoctlAnswered(p) \/ IoctlGivenUp(p)
    PROVE  IoctlInv'
<1>t. IoctlTypes /\ task[p].at = "ack" /\ task[p].at \in Owning
    BY DEF IoctlInv, IoctlAnswered, IoctlGivenUp, Owning
<1>1. CASE IoctlAnswered(p)
    BY <1>1, <1>t, TimerStops, RepliedKept DEF IoctlAnswered, Awake
<1>2. CASE IoctlGivenUp(p)
    <2> USE <1>2 DEF IoctlGivenUp
    <2>1. /\ task' \in [Procs -> Tasks] /\ task'[p].at = "user"
          /\ \A o \in Procs \ {p} : task'[o] = task[o]
        BY <1>t, TaskEnds
    <2>2. /\ wchan' \in [Procs -> Chans] /\ wchan'[p] = NoChan
          /\ \A o \in Procs \ {p} : wchan'[o] = IF wchan[o] = Control THEN NoChan ELSE wchan[o]
        BY <1>t, Unsleeps DEF IoctlTypes
    <2>3. \A o \in Procs \ {p} : wchan'[o] # Control /\ wchan'[o] \in {wchan[o], NoChan}
        BY <2>2 DEF NoChan, Control
    <2>4. sd' \in HeadRecs
        <3>1. FALSE \in BOOLEAN
            OBVIOUS
        <3> QED
            BY <1>t, <3>1 DEF IoctlTypes, HeadRecs
    <2>5. /\ timers' \in [str2 : Nat, str3 : {0, 1}, brk : Nat]
          /\ timers'.str2 = timers.str2 /\ timers'.str3 = 0
        BY <1>t, TimerStops
    <2>6. task'[p].at \in {"user", "out"}
        BY <2>1
    <2> HIDE <1>2
    <2> QED
        BY <1>t, <2>1, <2>2, <2>3, <2>4, <2>5, <2>6, IoctlEnds
<1> QED
    BY <1>1, <1>2

LEMMA CopiedOutKept ==
    ASSUME IoctlInv, NEW p \in Procs, IoctlCopiedOut(p)
    PROVE  IoctlInv'
<1> USE DEF IoctlCopiedOut
<1>t. IoctlTypes /\ SleepsFor /\ AckIsOwners /\ TimerOf
    BY DEF IoctlInv
<1>1. /\ task' \in [Procs -> Tasks] /\ task'[p].at = "user"
      /\ \A o \in Procs \ {p} : task'[o] = task[o]
    BY <1>t, TaskEnds
<1>2. /\ wchan' \in [Procs -> Chans]
      /\ \A o \in Procs : wchan'[o] = IF wchan[o] = Control THEN NoChan ELSE wchan[o]
    BY <1>t, Wakes DEF IoctlTypes
<1>c. NoChan # Control
    BY DEF NoChan, Control
<1>3. wchan[p] = NoChan
    BY <1>t DEF SleepsFor
<1>4. IoctlTypes' /\ SleepsFor'
    BY <1>t, <1>1, <1>2, <1>3 DEF IoctlTypes, SleepsFor
<1>5. \A o \in Procs : ~StrAsleep(o, "wait")'
    <2>1. SUFFICES ASSUME NEW o \in Procs, StrAsleep(o, "wait")' PROVE FALSE
        OBVIOUS
    <2>2. o # p /\ task[o].at = "wait" /\ wchan'[o] # NoChan
        BY <1>1, <2>1 DEF StrAsleep, Awake
    <2>3. wchan[o] # NoChan /\ wchan[o] # Control
        BY <1>2, <2>2
    <2> QED
        BY <1>t, <2>2, <2>3 DEF SleepsFor
<1>6. AckIsOwners'
    BY <1>t, <1>1, <1>5 DEF AckIsOwners
<1>7. Waiters' = Waiters
    BY <1>1, SameWaiters
<1>8. \A o \in Procs : StrAsleep(o, "ack")' => StrAsleep(o, "ack") /\ o # p
    BY <1>1, <1>2 DEF StrAsleep, Awake
<1>9. TimerOf'
    BY <1>t, <1>1, <1>7, <1>8 DEF TimerOf
<1> QED
    BY <1>4, <1>6, <1>9 DEF IoctlInv

\* No process does anything, and some are woken
LEMMA IoctlWakes ==
    ASSUME IoctlInv, UNCHANGED task, sd' \in HeadRecs, sd'.ioctl = sd.ioctl, sd'.iocid = sd.iocid,
           sd'.blk = sd.blk \/ (sd.ioctl /\ sd'.blk = sd.iocid),
           timers' \in [str2 : Nat, str3 : {0, 1}, brk : Nat], timers'.str2 <= timers.str2,
           NEW C, Wakeup(C),
           sd'.str3 = sd.str3 \/ Answer \in C \/ ~sd.str3,
           timers'.str3 = timers.str3 \/ (timers'.str3 = 0 /\ (Answer \in C \/ ~sd.str3))
    PROVE  IoctlInv'
<1>t. IoctlTypes /\ SleepsFor /\ AckIsOwners /\ TimerOf
    BY DEF IoctlInv
<1>1. /\ wchan' \in [Procs -> Chans]
      /\ \A o \in Procs : wchan'[o] = IF wchan[o] \in C THEN NoChan ELSE wchan[o]
    BY <1>t, Wakes DEF IoctlTypes
<1>2. IoctlTypes'
    BY <1>t, <1>1 DEF IoctlTypes
<1>c. Answer # NoChan /\ Answer # Control /\ Answer # WriteRoom
    BY DEF Answer, NoChan, Control, WriteRoom
<1>3. SleepsFor'
    <2>1. SUFFICES ASSUME NEW o \in Procs, wchan'[o] # NoChan
                   PROVE  \/ wchan'[o] = WriteRoom /\ task'[o].at = "room"
                          \/ wchan'[o] = Control /\ task'[o].at = "wait"
                          \/ wchan'[o] = Answer /\ task'[o].at = "ack" /\ sd'.str3
        BY DEF SleepsFor
    <2>2. wchan'[o] = wchan[o] /\ wchan[o] \notin C
        BY <1>1, <2>1
    <2>3. CASE wchan[o] = Answer
        BY <1>t, <1>c, <2>1, <2>2, <2>3 DEF SleepsFor
    <2>4. CASE wchan[o] # Answer
        BY <1>t, <2>1, <2>2, <2>4 DEF SleepsFor
    <2> QED
        BY <2>3, <2>4
<1>4. \A o \in Procs : \A at \in {"ack", "wait"} : StrAsleep(o, at)' => StrAsleep(o, at)
    BY <1>1 DEF StrAsleep, Awake
<1>5. AckIsOwners'
    BY <1>t, <1>4 DEF AckIsOwners
<1>6. TimerOf'
    <2>1. ASSUME NEW o \in Procs, StrAsleep(o, "ack")', ~task'[o].req.forever PROVE timers'.str3 = 1
        <3>1. StrAsleep(o, "ack") /\ wchan[o] \notin C /\ wchan[o] # NoChan
            BY <1>1, <1>4, <2>1 DEF StrAsleep, Awake
        <3>2. wchan[o] = Answer /\ sd.str3
            BY <1>t, <3>1 DEF SleepsFor, StrAsleep
        <3>3. timers.str3 = 1
            BY <1>t, <2>1, <3>1 DEF TimerOf
        <3> QED
            BY <3>1, <3>2, <3>3
    <2>2. timers'.str3 = 1 => \E o \in Procs : task'[o].at = "ack" /\ ~task'[o].req.forever
        BY <1>t DEF TimerOf
    <2>3. Waiters' = Waiters
        BY DEF Waiters
    <2>4. timers'.str2 <= Cardinality(Waiters)
        <3>1. Cardinality(Waiters) \in Nat
            BY <1>t, FS_CardinalityType DEF TimerOf
        <3> QED
            BY <1>t, <3>1 DEF TimerOf, IoctlTypes
    <2> QED
        BY <1>t, <2>1, <2>2, <2>3, <2>4 DEF TimerOf
<1> QED
    BY <1>2, <1>3, <1>5, <1>6 DEF IoctlInv

\* str2time and str3time
LEMMA TimeoutKept ==
    ASSUME IoctlInv, Str2time \/ Str3time
    PROVE  IoctlInv'
<1>t. IoctlTypes /\ sd \in HeadRecs /\ FALSE \in BOOLEAN
    BY DEF IoctlInv, IoctlTypes
<1>1. CASE Str2time
    <2> USE <1>1 DEF Str2time
    <2>1. /\ sd' \in HeadRecs /\ sd'.ioctl = sd.ioctl /\ sd'.iocid = sd.iocid /\ sd'.blk = sd.blk
          /\ sd'.str3 = sd.str3
        BY <1>t DEF HeadRecs
    <2>2. /\ timers' \in [str2 : Nat, str3 : {0, 1}, brk : Nat] /\ timers'.str2 <= timers.str2
          /\ timers'.str3 = timers.str3
        BY <1>t DEF IoctlTypes
    <2>3. UNCHANGED task /\ Wakeup(IF sd.str2 THEN {Control} ELSE {})
        OBVIOUS
    <2> HIDE <1>1
    <2> QED
        BY <2>1, <2>2, <2>3, IoctlWakes
<1>2. CASE Str3time
    <2> USE <1>2 DEF Str3time
    <2>1. /\ sd' \in HeadRecs /\ sd'.ioctl = sd.ioctl /\ sd'.iocid = sd.iocid /\ sd'.blk = sd.blk
        BY <1>t DEF HeadRecs
    <2>2. /\ timers' \in [str2 : Nat, str3 : {0, 1}, brk : Nat] /\ timers'.str2 <= timers.str2
          /\ timers'.str3 = 0
        BY <1>t DEF IoctlTypes
    <2> DEFINE C == IF sd.str3 THEN {Answer} ELSE {}
    <2>3. UNCHANGED task /\ Wakeup(C)
        OBVIOUS
    <2>4. Answer \in C \/ ~sd.str3
        OBVIOUS
    <2> HIDE <1>2 DEF C
    <2> QED
        BY <2>1, <2>2, <2>3, <2>4, IoctlWakes
<1> QED
    BY <1>1, <1>2

\* A step that has no part in an ioctl
LEMMA IoctlStays ==
    ASSUME IoctlInv, UNCHANGED <<sd, task, wchan>>,
           timers' \in [str2 : Nat, str3 : {0, 1}, brk : Nat], timers'.str2 = timers.str2,
           timers'.str3 = timers.str3
    PROVE  IoctlInv'
BY DEF IoctlInv, IoctlTypes, SleepsFor, AckIsOwners, TimerOf, StrAsleep, Awake, Waiters

\* The queues and the interrupts: the display answers an ioctl
LEMMA IoctlService ==
    ASSUME IoctlInv, QueueTypes, ServiceKept, QueueStep
    PROVE  IoctlInv'
<1>t. IoctlTypes /\ sd \in HeadRecs /\ FALSE \in BOOLEAN
    BY DEF IoctlInv, IoctlTypes
<1>1. CASE \/ Queuerun \/ LineGet \/ LineCanput \/ LinePutnext \/ LinePutbq
           \/ DispPoke \/ DispGet \/ DispData \/ KeyStop \/ KeyStart \/ KeyIntr
    <2>1. UNCHANGED <<sd, task, wchan, timers>>
        BY <1>1 DEF Queuerun, LineGet, LineCanput, LinePutnext, LinePutbq, DispPoke, DispGet,
                    DispData, KeyStop, KeyStart, KeyIntr
    <2> QED
        BY <1>t, <2>1, IoctlStays DEF IoctlTypes
<1>2. CASE BreakOver
    <2>1. /\ timers' \in [str2 : Nat, str3 : {0, 1}, brk : Nat] /\ timers'.str2 = timers.str2
          /\ timers'.str3 = timers.str3 /\ UNCHANGED <<sd, task, wchan>>
        BY <1>t, <1>2 DEF BreakOver, IoctlTypes
    <2> QED
        BY <2>1, IoctlStays
<1>3. CASE Strwsrv
    <2> USE <1>3 DEF Strwsrv
    <2>1. /\ sd' \in HeadRecs /\ sd'.ioctl = sd.ioctl /\ sd'.iocid = sd.iocid /\ sd'.blk = sd.blk
          /\ sd'.str3 = sd.str3
        BY <1>t DEF HeadRecs
    <2>2. /\ timers' \in [str2 : Nat, str3 : {0, 1}, brk : Nat] /\ timers'.str2 <= timers.str2
          /\ timers'.str3 = timers.str3
        BY <1>t DEF IoctlTypes
    <2>3. UNCHANGED task /\ Wakeup(IF sd.wsleep THEN {WriteRoom} ELSE {})
        OBVIOUS
    <2> HIDE <1>3
    <2> QED
        BY <2>1, <2>2, <2>3, IoctlWakes
<1>4. CASE DispIoctl
    <2> USE <1>4 DEF DispIoctl, Serves
    <2>1. serving.m.id \in Nat
        BY DEF QueueTypes, ServiceKept, Messages
    <2>2. sd' = Strrput(sd, serving.m.id)
        OBVIOUS
    <2>3. /\ sd' \in HeadRecs /\ sd'.ioctl = sd.ioctl /\ sd'.iocid = sd.iocid
          /\ sd'.blk = sd.blk \/ (sd.ioctl /\ sd'.blk = sd.iocid)
        BY <1>t, <2>1, <2>2 DEF Strrput, HeadRecs
    <2>4. sd'.str3 = sd.str3
        BY <1>t, <2>1, <2>2 DEF Strrput, HeadRecs
    <2>5. /\ timers' \in [str2 : Nat, str3 : {0, 1}, brk : Nat] /\ timers'.str2 <= timers.str2
          /\ timers'.str3 = timers.str3
        BY <1>t DEF IoctlTypes
    <2>6. UNCHANGED task /\ Wakeup(IF sd' # sd THEN {Answer} ELSE {})
        OBVIOUS
    <2> DEFINE C == IF sd' # sd THEN {Answer} ELSE {}
    <2>7. Wakeup(C)
        BY <2>6
    <2> HIDE <1>4 DEF C
    <2> QED
        BY <2>3, <2>4, <2>5, <2>6, <2>7, IoctlWakes
<1> QED
    BY <1>1, <1>2, <1>3, <1>4 DEF QueueStep

\* Every step keeps the owner of control and its timer
LEMMA IoctlsKept == StrSpec => []IoctlInv
<1>1. StrInit => IoctlInv
    <2> SUFFICES ASSUME StrInit PROVE IoctlInv
        OBVIOUS
    <2>1. IoctlTypes
        BY DEF StrInit, IoctlTypes, HeadRecs, Tasks, NoTask, Plain, Chans
    <2>2. SleepsFor
        BY DEF StrInit, SleepsFor
    <2>3. \A p \in Procs : task[p].at = "user"
        BY DEF StrInit, NoTask
    <2>4. AckIsOwners
        BY <2>3 DEF AckIsOwners, StrAsleep
    <2>5. Waiters = {}
        BY <2>3 DEF Waiters
    <2>6. TimerOf
        BY <2>3, <2>5, FS_EmptySet DEF StrInit, TimerOf, StrAsleep
    <2> QED
        BY <2>1, <2>2, <2>4, <2>6 DEF IoctlInv
<1>2. QueueInv /\ IoctlInv /\ [StrNext]_<<strVars, wchan>> => IoctlInv'
    <2> SUFFICES ASSUME QueueInv, IoctlInv, [StrNext]_<<strVars, wchan>> PROVE IoctlInv'
        OBVIOUS
    <2>n. nmsg \in Nat /\ QueueTypes /\ ServiceKept /\ IoctlTypes
        BY DEF QueueInv, QueueTypes, IoctlInv
    <2>1. CASE UNCHANGED <<strVars, wchan>>
        BY <2>1, <2>n, IoctlStays DEF strVars, IoctlTypes
    <2>2. ASSUME NEW p \in Procs, ProcessStep(p) PROVE IoctlInv'
        BY <2>2, <2>n, IoctlWrites, BeginKept, AgainKept, NotBegunKept, SentKept, EndsKept,
           CopiedOutKept DEF ProcessStep
    <2>3. CASE Str2time \/ Str3time
        BY <2>3, TimeoutKept
    <2>4. CASE QueueStep
        BY <2>n, <2>4, IoctlService
    <2>5. StrNext => (\E p \in Procs : ProcessStep(p)) \/ Str2time \/ Str3time \/ QueueStep
        BY DEF StrNext, ProcessStep, QueueStep
    <2> QED
        BY <2>1, <2>2, <2>3, <2>4, <2>5
<1> QED
    BY <1>1, <1>2, QueuesKept, PTL DEF StrSpec

\* One process has control of the ioctls of a stream, the reply it takes is the one to its own
\* ioctl, and nobody sleeps for control that is free (strioctl, strrput)
THEOREM AckIsOwnersHolds == StrSpec => []AckIsOwners
<1>1. IoctlInv => AckIsOwners
    BY DEF IoctlInv
<1> QED
    BY <1>1, IoctlsKept, PTL

\* A process that waits for a reply, not for ever, has the one timer there is, and no timer is
\* left behind by an ioctl that has ended (strioctl, str2time, str3time)
THEOREM TimersOwnedHolds == StrSpec => []TimersOwned
<1>1. IoctlInv => TimersOwned
    <2> SUFFICES ASSUME IoctlInv PROVE TimersOwned
        OBVIOUS
    <2>t. IoctlTypes /\ AckIsOwners /\ TimerOf
        BY DEF IoctlInv
    <2> DEFINE T == {p \in Procs : task[p].at = "ack" /\ ~task[p].req.forever /\ timers.str3 > 0}
    <2>1. timers.str3 = Cardinality(T)
        <3>1. CASE timers.str3 = 0
            <4>1. T = {}
                BY <3>1
            <4> QED
                BY <3>1, <4>1, FS_EmptySet
        <3>2. CASE timers.str3 = 1
            <4>1. PICK p \in Procs : task[p].at = "ack" /\ ~task[p].req.forever
                BY <2>t, <3>2 DEF TimerOf
            <4>2. \A o \in Procs : task[o].at = "ack" => o = p
                BY <2>t, <4>1 DEF AckIsOwners
            <4>3. T = {p}
                BY <3>2, <4>1, <4>2
            <4> QED
                BY <3>2, <4>3, FS_Singleton
        <3> QED
            BY <2>t, <3>1, <3>2 DEF IoctlTypes
    <2>2. timers.str2 <= Cardinality({p \in Procs : task[p].at = "wait"})
        BY <2>t DEF TimerOf, Waiters
    <2>3. \A p \in Procs : StrAsleep(p, "ack") /\ ~task[p].req.forever => timers.str3 = 1
        BY <2>t DEF TimerOf
    <2> QED
        BY <2>1, <2>2, <2>3 DEF TimersOwned
<1> QED
    BY <1>1, IoctlsKept, PTL
-----------------------------------------------------------------------------
(* The clock                                                               *)

Callouts == [fun : Funs, time : Int, left : Int]

\* What an entry adds to the time of those behind it
Ticks(e) == IF e.time > 0 THEN e.time ELSE 0

\* Each entry is due when its ticks have passed
Exact(L) == \A i \in DOMAIN L : Until(L, i) = IF L[i].left > 0 THEN L[i].left ELSE 0

\* The entries that are due are at the front
DueFirst(L) == \A i, j \in DOMAIN L : i < j /\ L[i].time > 0 => L[j].time >= 0

CalloutInv == /\ calltodo \in Seq(Callouts)
              /\ DueFirst(calltodo)
              /\ Exact(calltodo)

\* The sum that Until is
LEMMA UntilSum ==
    ASSUME NEW L, NEW i
    PROVE  Until(L, i) = SumFunctionOnSet([j \in DOMAIN L |-> IF L[j].time > 0 THEN L[j].time ELSE 0], 1 .. i)
BY Zenon DEF Until, SumFunctionOnSet

\* A list of entries has as many as there are, each with its times
LEMMA CalloutTypes ==
    ASSUME NEW L \in Seq(Callouts)
    PROVE  /\ Len(L) \in Nat /\ DOMAIN L = 1 .. Len(L)
           /\ \A i \in 1 .. Len(L) : L[i] \in Callouts /\ L[i].time \in Int /\ L[i].left \in Int
                                     /\ Ticks(L[i]) \in Nat
<1>1. Len(L) \in Nat /\ DOMAIN L = 1 .. Len(L)
    OBVIOUS
<1>2. ASSUME NEW i \in 1 .. Len(L)
      PROVE  L[i] \in Callouts /\ L[i].time \in Int /\ L[i].left \in Int /\ Ticks(L[i]) \in Nat
    <2>1. L[i] \in Callouts
        OBVIOUS
    <2>2. L[i].time \in Int /\ L[i].left \in Int
        BY <2>1 DEF Callouts
    <2> QED
        BY <2>1, <2>2 DEF Ticks
<1> QED
    BY <1>1, <1>2

\* The ticks until an entry are those until the one before it and its own
LEMMA UntilStep ==
    ASSUME NEW L \in Seq(Callouts)
    PROVE  /\ Until(L, 0) = 0
           /\ \A i \in 0 .. Len(L) : Until(L, i) \in Int
           /\ \A i \in 1 .. Len(L) : Until(L, i) = Until(L, i - 1) + Ticks(L[i])
<1> DEFINE f == [j \in DOMAIN L |-> IF L[j].time > 0 THEN L[j].time ELSE 0]
<1>0. Len(L) \in Nat /\ DOMAIN L = 1 .. Len(L)
    OBVIOUS
<1>1. \A j \in DOMAIN L : L[j] \in Callouts /\ L[j].time \in Int
    BY <1>0, CalloutTypes
<1>2. f \in [DOMAIN L -> Int]
    BY <1>1
<1>3. \A j \in DOMAIN L : f[j] = Ticks(L[j])
    BY DEF Ticks
<1>4. \A i : Until(L, i) = SumFunctionOnSet(f, 1 .. i)
    BY UntilSum
<1> HIDE DEF f
<1>5. ASSUME NEW i \in 0 .. Len(L) PROVE 1 .. i \in SUBSET DOMAIN L /\ IsFiniteSet(1 .. i)
    <2>1. IsFiniteSet(1 .. i)
        BY <1>0, FS_Interval
    <2> QED
        BY <1>0, <2>1
<1>6. Until(L, 0) = 0
    <2>1. 1 .. 0 = {} /\ 0 \in 0 .. Len(L)
        BY <1>0
    <2>2. SumFunctionOnSet(f, {}) = 0
        BY <1>2, <1>5, <2>1, SumRemove
    <2> QED
        BY <1>4, <2>1, <2>2
<1>7. ASSUME NEW i \in 0 .. Len(L) PROVE Until(L, i) \in Int
    BY <1>2, <1>4, <1>5, SumRemove
<1>8. ASSUME NEW i \in 1 .. Len(L) PROVE Until(L, i) = Until(L, i - 1) + Ticks(L[i])
    <2>1. i \in 0 .. Len(L) /\ i - 1 \in 0 .. Len(L) /\ i \in 1 .. i /\ i \in DOMAIN L
        BY <1>0
    <2>2. (1 .. i) \ {i} = 1 .. (i - 1)
        BY <2>1
    <2>3. SumFunctionOnSet(f, 1 .. i) = f[i] + SumFunctionOnSet(f, (1 .. i) \ {i})
        <3>1. PICK S : S = 1 .. i
            OBVIOUS
        <3>2. S \in SUBSET DOMAIN L /\ IsFiniteSet(S) /\ i \in S
            BY <1>5, <2>1, <3>1
        <3>3. SumFunctionOnSet(f, S) = f[i] + SumFunctionOnSet(f, S \ {i})
            BY <1>2, <3>2, SumRemove
        <3> QED
            BY <3>1, <3>3
    <2>4. Until(L, i) = f[i] + Until(L, i - 1)
        BY <1>4, <2>2, <2>3
    <2>5. f[i] \in Int /\ Until(L, i - 1) \in Int
        BY <1>2, <1>7, <2>1
    <2> QED
        BY <1>3, <2>1, <2>4, <2>5
<1> QED
    BY <1>6, <1>7, <1>8

\* The n entries of M behind b have the ticks of those of L behind a, and are d ticks later
Shifted(L, a, M, b, n, d) ==
    /\ a \in 0 .. Len(L) /\ b \in 0 .. Len(M) /\ n \in Nat /\ a + n <= Len(L) /\ b + n <= Len(M)
    /\ d \in Int /\ Until(M, b) = Until(L, a) + d
    /\ \A i \in 1 .. n : Ticks(M[b + i]) = Ticks(L[a + i])

\* Then each of them is d ticks later
LEMMA UntilSame ==
    ASSUME NEW L \in Seq(Callouts), NEW M \in Seq(Callouts), NEW a, NEW b, NEW n, NEW d,
           Shifted(L, a, M, b, n, d)
    PROVE  \A i \in 0 .. n : Until(M, b + i) = Until(L, a + i) + d
<1>0. /\ a \in 0 .. Len(L) /\ b \in 0 .. Len(M) /\ n \in Nat /\ a + n <= Len(L) /\ b + n <= Len(M)
      /\ d \in Int /\ Until(M, b) = Until(L, a) + d
      /\ \A i \in 1 .. n : Ticks(M[b + i]) = Ticks(L[a + i])
    BY DEF Shifted
<1> DEFINE T == {i \in 0 .. n : Until(M, b + i) = Until(L, a + i) + d}
<1>1. 0 \in T
    <2>1. b + 0 = b /\ a + 0 = a
        BY <1>0
    <2> QED
        BY <1>0, <2>1
<1>2. ASSUME NEW i \in T, i < n PROVE i + 1 \in T
    <2>1. i \in Nat /\ i + 1 \in 1 .. n
        BY <1>0, <1>2
    <2>2. PICK x : x = a + (i + 1)
        OBVIOUS
    <2>3. PICK y : y = b + (i + 1)
        OBVIOUS
    <2>4. x \in 1 .. Len(L) /\ y \in 1 .. Len(M) /\ x - 1 = a + i /\ y - 1 = b + i
        BY <1>0, <2>1, <2>2, <2>3
    <2>5. Ticks(M[y]) = Ticks(L[x])
        BY <1>0, <2>1, <2>2, <2>3
    <2>6. Until(L, x) = Until(L, x - 1) + Ticks(L[x])
        BY <2>4, UntilStep
    <2>7. Until(M, y) = Until(M, y - 1) + Ticks(M[y])
        BY <2>4, UntilStep
    <2>8. Until(L, x - 1) \in Int /\ Ticks(L[x]) \in Int
        <3>1. x - 1 \in 0 .. Len(L) /\ L[x] \in Callouts
            BY <2>4
        <3>2. Until(L, x - 1) \in Int
            BY <3>1, UntilStep
        <3>3. L[x].time \in Int
            BY <3>1 DEF Callouts
        <3> QED
            BY <3>2, <3>3 DEF Ticks
    <2>9. Until(M, y - 1) = Until(L, x - 1) + d
        BY <2>4
    <2>10. Until(M, y) = Until(L, x) + d
        BY <1>0, <2>5, <2>6, <2>7, <2>8, <2>9
    <2> QED
        BY <1>0, <2>1, <2>2, <2>3, <2>10
<1> HIDE DEF T
<1>3. 0 .. n \subseteq T
    BY <1>0, <1>1, <1>2, InductionTo
<1> QED
    BY <1>3 DEF T

\* The ticks until an entry are no fewer than those until one before it
LEMMA UntilGrows ==
    ASSUME NEW L \in Seq(Callouts), NEW a \in 0 .. Len(L), NEW n \in Nat, a + n <= Len(L)
    PROVE  \A i \in 0 .. n : Until(L, a + i) >= Until(L, a)
<1> DEFINE T == {i \in 0 .. n : Until(L, a + i) >= Until(L, a)}
<1>0. Until(L, a) \in Int
    BY UntilStep
<1>1. 0 \in T
    <2>1. a + 0 = a
        OBVIOUS
    <2> QED
        BY <1>0, <2>1
<1>2. ASSUME NEW i \in T, i < n PROVE i + 1 \in T
    <2>1. i \in Nat /\ i + 1 \in 1 .. n
        BY <1>2
    <2>2. PICK x : x = a + (i + 1)
        OBVIOUS
    <2>4. x \in 1 .. Len(L) /\ x - 1 = a + i /\ x - 1 \in 0 .. Len(L)
        BY <2>1, <2>2
    <2>6. Until(L, x) = Until(L, x - 1) + Ticks(L[x])
        BY <2>4, UntilStep
    <2>8. Until(L, x - 1) \in Int /\ Ticks(L[x]) \in Nat
        <3>1. L[x] \in Callouts
            BY <2>4
        <3>2. Until(L, x - 1) \in Int
            BY <2>4, UntilStep
        <3>3. L[x].time \in Int
            BY <3>1 DEF Callouts
        <3> QED
            BY <3>2, <3>3 DEF Ticks
    <2>9. Until(L, x - 1) >= Until(L, a)
        BY <2>4
    <2>10. Until(L, x) >= Until(L, a)
        BY <1>0, <2>6, <2>8, <2>9
    <2> QED
        BY <2>1, <2>2, <2>10
<1> HIDE DEF T
<1>3. 0 .. n \subseteq T
    BY <1>1, <1>2, InductionTo
<1> QED
    BY <1>3 DEF T
\* The least element of a set of natural numbers
LEMMA MinIs ==
    ASSUME NEW T, T \subseteq Nat, T # {}
    PROVE  Min(T) \in T /\ \A y \in T : Min(T) <= y
BY LeastNat DEF Min

\* An exact list has as many ticks as its entries say
LEMMA ExactAt ==
    ASSUME NEW L \in Seq(Callouts), Exact(L), NEW i \in 1 .. Len(L)
    PROVE  Until(L, i) = IF L[i].left > 0 THEN L[i].left ELSE 0
BY CalloutTypes DEF Exact

\* timein: the first entry adds nothing to those behind it
LEMMA TimeinInv == CalloutInv /\ Timein => CalloutInv'
<1> SUFFICES ASSUME CalloutInv, Timein PROVE CalloutInv'
    OBVIOUS
<1>1. PICK L : L = calltodo
    OBVIOUS
<1>2. PICK M : M = Tail(L)
    OBVIOUS
<1>3. L \in Seq(Callouts) /\ L # <<>> /\ L[1].time <= 0 /\ DueFirst(L) /\ Exact(L)
    BY <1>1 DEF CalloutInv, Timein
<1>4. /\ M \in Seq(Callouts) /\ Len(M) \in Nat /\ Len(L) = Len(M) + 1
      /\ \A i \in 1 .. Len(M) : M[i] = L[i + 1]
    BY <1>2, <1>3
<1>5. Until(L, 1) = 0
    <2>1. Until(L, 1) = Until(L, 1 - 1) + Ticks(L[1]) /\ Until(L, 0) = 0
        BY <1>3, <1>4, UntilStep
    <2>2. Ticks(L[1]) = 0
        <3>1. L[1].time \in Int
            BY <1>3, <1>4, CalloutTypes
        <3> QED
            BY <1>3, <3>1 DEF Ticks
    <2> QED
        BY <2>1, <2>2
<1>6. \A i \in 0 .. Len(M) : Until(M, 0 + i) = Until(L, 1 + i) + 0
    <2>0. PICK m \in Nat : m = Len(M)
        BY <1>4
    <2>1. Until(M, 0) = Until(L, 1) + 0
        BY <1>4, <1>5, UntilStep
    <2>2. \A i \in 1 .. m : Ticks(M[0 + i]) = Ticks(L[1 + i])
        BY <1>4, <2>0
    <2>3. 1 \in 0 .. Len(L) /\ 0 \in 0 .. Len(M) /\ 1 + m <= Len(L) /\ 0 + m <= Len(M)
        BY <1>4, <2>0
    <2>4. Shifted(L, 1, M, 0, m, 0)
        BY <2>1, <2>2, <2>3 DEF Shifted
    <2>5. \A i \in 0 .. m : Until(M, 0 + i) = Until(L, 1 + i) + 0
        BY <1>3, <1>4, <2>4, UntilSame
    <2> QED
        BY <2>0, <2>5
<1>7. Exact(M)
    <2>1. ASSUME NEW i \in 1 .. Len(M) PROVE Until(M, i) = IF M[i].left > 0 THEN M[i].left ELSE 0
        <3>1. PICK j : j = i + 1
            OBVIOUS
        <3>2. j \in 1 .. Len(L) /\ M[i] = L[j] /\ 1 + i = j /\ 0 + i = i
            BY <1>4, <3>1
        <3>3. Until(L, j) = IF L[j].left > 0 THEN L[j].left ELSE 0
            BY <1>3, <3>2, ExactAt
        <3>4. Until(M, i) = Until(L, j) + 0 /\ Until(L, j) \in Int
            BY <1>3, <1>6, <3>2, UntilStep
        <3> QED
            BY <3>2, <3>3, <3>4
    <2> QED
        BY <1>4, <2>1 DEF Exact
<1>8. DueFirst(M)
    <2>1. ASSUME NEW i \in 1 .. Len(M), NEW j \in 1 .. Len(M), i < j, M[i].time > 0 PROVE M[j].time >= 0
        <3>1. PICK k, l : k = i + 1 /\ l = j + 1
            OBVIOUS
        <3>2. k \in DOMAIN L /\ l \in DOMAIN L /\ k < l /\ M[i] = L[k] /\ M[j] = L[l]
            BY <1>3, <1>4, <2>1, <3>1
        <3> QED
            BY <1>3, <2>1, <3>2 DEF DueFirst
    <2>2. DOMAIN M = 1 .. Len(M)
        BY <1>4
    <2> QED
        BY <2>1, <2>2 DEF DueFirst
<1>9. calltodo' = M
    BY <1>1, <1>2 DEF Timein
<1> QED
    BY <1>4, <1>7, <1>8, <1>9 DEF CalloutInv

\* clock: the entries that are due, and the first of those to come, have one tick less
LEMMA ClockInv == CalloutInv /\ Clock => CalloutInv'
<1> SUFFICES ASSUME CalloutInv, Clock PROVE CalloutInv'
    OBVIOUS
<1>1. PICK L : L = calltodo
    OBVIOUS
<1>2. L \in Seq(Callouts) /\ DueFirst(L) /\ Exact(L)
    BY <1>1 DEF CalloutInv
<1>n. PICK n \in Nat : n = Len(L) /\ DOMAIN L = 1 .. n
    BY <1>2
<1>3. PICK k : k = Min({i \in DOMAIN L : L[i].time > 0} \cup {Len(L)})
    OBVIOUS
<1>4. PICK M : M = [i \in DOMAIN L |-> [L[i] EXCEPT !.time = IF i <= k THEN @ - 1 ELSE @, !.left = @ - 1]]
    OBVIOUS
<1>5. calltodo' = M
    BY <1>1, <1>3, <1>4 DEF Clock
<1>6. /\ k \in Nat /\ \A i \in 1 .. n : L[i].time > 0 => k <= i
      /\ k = n \/ (k \in 1 .. n /\ L[k].time > 0)
    <2>1. PICK T : T = {i \in DOMAIN L : L[i].time > 0} \cup {Len(L)}
        OBVIOUS
    <2>2. T \subseteq Nat /\ T # {} /\ \A i \in 1 .. n : L[i].time > 0 => i \in T
        BY <1>n, <2>1
    <2>3. k \in T /\ \A i \in T : k <= i
        BY <1>3, <2>1, <2>2, MinIs
    <2>4. k = n \/ (k \in 1 .. n /\ L[k].time > 0)
        BY <1>n, <2>1, <2>3
    <2> QED
        BY <2>2, <2>3, <2>4
<1>7. \A i \in 1 .. n : L[i] \in Callouts /\ L[i].time \in Int /\ L[i].left \in Int
    BY <1>2, <1>n, CalloutTypes
<1>8. /\ M \in Seq(Callouts) /\ Len(M) = n
      /\ \A i \in 1 .. n : /\ M[i].left = L[i].left - 1
                           /\ M[i].time = IF i <= k THEN L[i].time - 1 ELSE L[i].time
    <2>1. ASSUME NEW i \in 1 .. n
          PROVE  /\ M[i] \in Callouts /\ M[i].left = L[i].left - 1
                 /\ M[i].time = IF i <= k THEN L[i].time - 1 ELSE L[i].time
        <3>1. PICK t : t = IF i <= k THEN L[i].time - 1 ELSE L[i].time
            OBVIOUS
        <3>2. t \in Int
            BY <1>6, <1>7, <3>1
        <3>3. M[i] = [L[i] EXCEPT !.time = t, !.left = L[i].left - 1]
            BY <1>n, <1>4, <3>1
        <3>4. L[i].left - 1 \in Int /\ L[i] \in Callouts
            BY <1>7
        <3> QED
            BY <3>1, <3>2, <3>3, <3>4 DEF Callouts
    <2>2. M = [i \in 1 .. n |-> M[i]]
        BY <1>n, <1>4
    <2>3. M \in Seq(Callouts) /\ Len(M) = n
        BY <2>1, <2>2
    <2> QED
        BY <2>1, <2>3
<1>9. \A i \in 1 .. n : M[i].time \in Int
    BY <1>8, CalloutTypes
<1>10. DueFirst(M)
    <2>1. ASSUME NEW i \in 1 .. n, NEW j \in 1 .. n, i < j, M[i].time > 0 PROVE M[j].time >= 0
        <3>1. L[i].time > 0
            BY <1>6, <1>7, <1>8, <2>1
        <3>2. j > k
            BY <1>6, <3>1, <2>1
        <3>3. M[j].time = L[j].time /\ L[j].time >= 0
            BY <1>2, <1>6, <1>8, <1>n, <2>1, <3>1, <3>2 DEF DueFirst
        <3> QED
            BY <3>3
    <2>2. DOMAIN M = 1 .. n
        BY <1>8
    <2> QED
        BY <2>1, <2>2 DEF DueFirst
\* Before k, nobody adds anything
<1>11. \A i \in 0 .. n : i < k => Until(L, i) = 0 /\ Until(M, i) = 0
    <2> DEFINE T == {i \in Nat : i < k /\ i <= n => Until(L, i) = 0 /\ Until(M, i) = 0}
    <2>1. 0 \in T
        BY <1>2, <1>8, UntilStep
    <2>2. ASSUME NEW i \in T PROVE i + 1 \in T
        <3>1. PICK j \in Nat : j = i + 1
            OBVIOUS
        <3>2. ASSUME j < k, j <= n PROVE Until(L, j) = 0 /\ Until(M, j) = 0
            <4>1. j \in 1 .. n /\ j - 1 = i /\ i < k /\ i <= n
                BY <1>6, <3>1, <3>2
            <4>2. Until(L, i) = 0 /\ Until(M, i) = 0
                BY <4>1
            <4>3. Until(L, j) = Until(L, j - 1) + Ticks(L[j])
                BY <1>2, <1>n, <4>1, UntilStep
            <4>4. Until(M, j) = Until(M, j - 1) + Ticks(M[j])
                BY <1>8, <4>1, UntilStep
            <4>5. ~(L[j].time > 0) /\ L[j].time \in Int
                <5>1. L[j].time > 0 => k <= j
                    BY <1>6, <4>1
                <5> QED
                    BY <1>6, <1>7, <3>2, <4>1, <5>1
            <4>6. M[j].time = L[j].time - 1
                <5>1. j <= k
                    BY <1>6, <3>2
                <5> QED
                    BY <1>8, <4>1, <5>1
            <4>7. Ticks(L[j]) = 0 /\ Ticks(M[j]) = 0
                BY <4>5, <4>6 DEF Ticks
            <4> QED
                BY <4>1, <4>2, <4>3, <4>4, <4>7
        <3> QED
            BY <3>1, <3>2
    <2> HIDE DEF T
    <2>3. 0 .. n \subseteq T
        BY <2>1, <2>2, InductionTo
    <2> QED
        BY <2>3 DEF T
<1>12. \A i \in 1 .. n : Until(M, i) = IF Until(L, i) > 0 THEN Until(L, i) - 1 ELSE 0
    <2>1. CASE k \in 1 .. n /\ L[k].time > 0
        <3>1. Until(L, k) = L[k].time /\ Until(M, k) = L[k].time - 1
            <4>1. k - 1 \in 0 .. n /\ k - 1 < k
                BY <1>6, <2>1
            <4>2. Until(L, k - 1) = 0 /\ Until(M, k - 1) = 0
                BY <1>11, <4>1
            <4>3. Until(L, k) = Until(L, k - 1) + Ticks(L[k])
                BY <1>2, <1>n, <2>1, UntilStep
            <4>4. Until(M, k) = Until(M, k - 1) + Ticks(M[k])
                BY <1>8, <2>1, UntilStep
            <4>5. L[k].time \in Int /\ M[k].time = L[k].time - 1
                BY <1>7, <1>8, <2>1
            <4>6. Ticks(L[k]) = L[k].time /\ Ticks(M[k]) = L[k].time - 1
                BY <2>1, <4>5 DEF Ticks
            <4> QED
                BY <4>2, <4>3, <4>4, <4>5, <4>6
        <3>2. L[k].time \in Int
            BY <1>7, <2>1
        <3>3. \A i \in 0 .. n - k : Until(M, k + i) = Until(L, k + i) + (-1)
            <4>1. PICK m \in Nat : m = n - k
                BY <2>1
            <4>2. \A i \in 1 .. m : Ticks(M[k + i]) = Ticks(L[k + i])
                <5>1. ASSUME NEW i \in 1 .. m PROVE Ticks(M[k + i]) = Ticks(L[k + i])
                    <6>1. PICK j : j = k + i
                        OBVIOUS
                    <6>2. j \in 1 .. n /\ ~(j <= k)
                        BY <2>1, <4>1, <6>1
                    <6>3. M[j].time = L[j].time
                        BY <1>8, <6>2
                    <6> QED
                        BY <6>1, <6>3 DEF Ticks
                <5> QED
                    BY <5>1
            <4>3. k \in 0 .. Len(L) /\ k \in 0 .. Len(M) /\ k + m <= Len(L) /\ k + m <= Len(M)
                BY <1>8, <1>n, <2>1, <4>1
            <4>4. PICK d \in Int : d = -1
                OBVIOUS
            <4>5. Until(M, k) = Until(L, k) + d
                BY <3>1, <3>2, <4>4
            <4>6. \A i \in 0 .. m : Until(M, k + i) = Until(L, k + i) + d
                <5>1. Shifted(L, k, M, k, m, d)
                    BY <4>2, <4>3, <4>5 DEF Shifted
                <5> QED
                    BY <1>2, <1>8, <5>1, UntilSame
            <4> QED
                BY <4>1, <4>4, <4>6
        <3>4. \A i \in 0 .. n - k : Until(L, k + i) >= Until(L, k)
            <4>1. PICK m \in Nat : m = n - k
                BY <2>1
            <4>2. k \in 0 .. Len(L) /\ k + m <= Len(L)
                BY <1>n, <2>1, <4>1
            <4> QED
                BY <1>2, <4>1, <4>2, UntilGrows
        <3>5. ASSUME NEW i \in 1 .. n PROVE Until(M, i) = IF Until(L, i) > 0 THEN Until(L, i) - 1 ELSE 0
            <4>1. CASE i < k
                <5>1. Until(L, i) = 0 /\ Until(M, i) = 0
                    BY <1>11, <4>1
                <5> QED
                    BY <5>1
            <4>2. CASE ~(i < k)
                <5>1. PICK j : j = i - k
                    OBVIOUS
                <5>2. j \in 0 .. n - k /\ k + j = i
                    BY <2>1, <4>2, <5>1
                <5>3. Until(M, i) = Until(L, i) + (-1) /\ Until(L, i) >= Until(L, k)
                    BY <3>3, <3>4, <5>2
                <5>4. Until(L, i) \in Int
                    BY <1>2, <1>n, UntilStep
                <5> QED
                    BY <2>1, <3>1, <3>2, <5>3, <5>4
            <4> QED
                BY <4>1, <4>2
        <3> QED
            BY <3>5
    <2>2. CASE ~(k \in 1 .. n /\ L[k].time > 0)
        <3>1. \A i \in 1 .. n : ~(L[i].time > 0) /\ ~(M[i].time > 0)
            BY <1>6, <1>7, <1>8, <2>2
        <3>2. \A i \in 0 .. n : Until(L, i) = 0 /\ Until(M, i) = 0
            <4> DEFINE T == {i \in Nat : i <= n => Until(L, i) = 0 /\ Until(M, i) = 0}
            <4>1. 0 \in T
                BY <1>2, <1>8, UntilStep
            <4>2. ASSUME NEW i \in T PROVE i + 1 \in T
                <5>1. PICK j \in Nat : j = i + 1
                    OBVIOUS
                <5>2. ASSUME j <= n PROVE Until(L, j) = 0 /\ Until(M, j) = 0
                    <6>1. j \in 1 .. n /\ j - 1 = i /\ i <= n
                        BY <5>1, <5>2
                    <6>2. Until(L, i) = 0 /\ Until(M, i) = 0
                        BY <6>1
                    <6>3. Until(L, j) = Until(L, j - 1) + Ticks(L[j])
                        BY <1>2, <1>n, <6>1, UntilStep
                    <6>4. Until(M, j) = Until(M, j - 1) + Ticks(M[j])
                        BY <1>8, <6>1, UntilStep
                    <6>5. Ticks(L[j]) = 0 /\ Ticks(M[j]) = 0
                        BY <3>1, <6>1 DEF Ticks
                    <6> QED
                        BY <6>1, <6>2, <6>3, <6>4, <6>5
                <5> QED
                    BY <5>1, <5>2
            <4> HIDE DEF T
            <4>3. 0 .. n \subseteq T
                BY <4>1, <4>2, InductionTo
            <4> QED
                BY <4>3 DEF T
        <3> QED
            BY <3>2
    <2> QED
        BY <2>1, <2>2
<1>13. Exact(M)
    <2>1. ASSUME NEW i \in 1 .. n PROVE Until(M, i) = IF M[i].left > 0 THEN M[i].left ELSE 0
        <3>1. Until(L, i) = IF L[i].left > 0 THEN L[i].left ELSE 0
            BY <1>2, <1>n, ExactAt
        <3>2. Until(M, i) = IF Until(L, i) > 0 THEN Until(L, i) - 1 ELSE 0
            BY <1>12
        <3>3. M[i].left = L[i].left - 1 /\ L[i].left \in Int
            BY <1>7, <1>8
        <3> QED
            BY <3>1, <3>2, <3>3
    <2>2. DOMAIN M = 1 .. n
        BY <1>8
    <2> QED
        BY <2>1, <2>2 DEF Exact
<1> QED
    BY <1>5, <1>8, <1>10, <1>13 DEF CalloutInv
\* timeout: what is put in front of the k-th entry takes its ticks from that entry
LEMMA InsertedExact ==
    ASSUME NEW L \in Seq(Callouts), DueFirst(L), Exact(L), NEW n \in Nat, n = Len(L),
           NEW k \in 1 .. n + 1, NEW e \in Callouts, e.time > 0, e.left > 0,
           Until(L, k - 1) + e.time = e.left, k <= n => L[k].time >= e.time
    PROVE  Inserted(L, k, e) \in Seq(Callouts) /\ DueFirst(Inserted(L, k, e)) /\ Exact(Inserted(L, k, e))
<1> DEFINE LL == IF k > Len(L) THEN L ELSE [L EXCEPT ![k].time = @ - e.time]
<1>0. DOMAIN L = 1 .. n /\ e.time \in Int /\ e.left \in Int
    BY DEF Callouts
<1>1. PICK K : K = LL
    OBVIOUS
<1>2. /\ K \in Seq(Callouts) /\ Len(K) = n
      /\ \A i \in 1 .. n : /\ K[i].left = L[i].left
                           /\ K[i].time = IF i = k THEN L[i].time - e.time ELSE L[i].time
    <2>1. CASE k = n + 1
        <3>1. K = L
            BY <1>1, <2>1
        <3> QED
            BY <2>1, <3>1
    <2>2. CASE k \in 1 .. n
        <3>1. K = [L EXCEPT ![k].time = L[k].time - e.time]
            BY <1>1, <2>2
        <3>2. L[k] \in Callouts /\ L[k].time \in Int
            BY <2>2, CalloutTypes
        <3>3. PICK t \in Int : t = L[k].time - e.time
            BY <1>0, <3>2
        <3>4. PICK r : r = [L[k] EXCEPT !.time = t]
            OBVIOUS
        <3>5. r \in Callouts /\ r.time = t /\ r.left = L[k].left
            BY <3>2, <3>4 DEF Callouts
        <3>6. K = [L EXCEPT ![k] = r]
            BY <3>1, <3>3, <3>4
        <3>7. K \in Seq(Callouts) /\ Len(K) = n /\ \A i \in 1 .. n : K[i] = IF i = k THEN r ELSE L[i]
            BY <2>2, <3>5, <3>6
        <3> QED
            BY <3>3, <3>5, <3>7
    <2> QED
        BY <2>1, <2>2
<1>3. PICK M : M = InsertAt(K, k, e)
    OBVIOUS
<1>4. Inserted(L, k, e) = M
    BY <1>1, <1>3 DEF Inserted
<1>5. /\ M \in Seq(Callouts) /\ Len(M) = n + 1
      /\ \A i \in 1 .. n + 1 : M[i] = IF i < k THEN K[i] ELSE IF i = k THEN e ELSE K[i - 1]
    <2>1. PICK A : A = SubSeq(K, 1, k - 1)
        OBVIOUS
    <2>2. PICK B : B = SubSeq(K, k, Len(K))
        OBVIOUS
    <2>3. A \in Seq(Callouts) /\ Len(A) = k - 1 /\ \A i \in 1 .. k - 1 : A[i] = K[i]
        BY <1>2, <2>1
    <2>4. B \in Seq(Callouts) /\ Len(B) = n - k + 1 /\ \A i \in 1 .. n - k + 1 : B[i] = K[k + i - 1]
        BY <1>2, <2>2
    <2>5. M = A \o <<e>> \o B
        BY <1>3, <2>1, <2>2 DEF InsertAt
    <2>6. PICK C : C = A \o <<e>>
        OBVIOUS
    <2>7. C \in Seq(Callouts) /\ Len(C) = k /\ \A i \in 1 .. k : C[i] = IF i < k THEN K[i] ELSE e
        BY <2>3, <2>6
    <2>8. M = C \o B
        BY <2>5, <2>6
    <2>9. M \in Seq(Callouts) /\ Len(M) = n + 1
        <3>1. C \in Seq(Callouts) /\ B \in Seq(Callouts)
            BY <2>4, <2>7
        <3>2. M \in Seq(Callouts) /\ Len(M) = Len(C) + Len(B)
            BY <2>8, <3>1
        <3> QED
            BY <2>4, <2>7, <3>2
    <2>10. ASSUME NEW i \in 1 .. n + 1 PROVE M[i] = IF i < k THEN K[i] ELSE IF i = k THEN e ELSE K[i - 1]
        <3>1. CASE i <= k
            BY <2>4, <2>7, <2>8, <3>1
        <3>2. CASE i > k
            <4>1. M[i] = B[i - k]
                BY <2>4, <2>7, <2>8, <3>2
            <4>2. PICK j : j = i - k
                OBVIOUS
            <4>3. j \in 1 .. n - k + 1 /\ k + j - 1 = i - 1
                BY <3>2, <4>2
            <4>4. B[j] = K[i - 1]
                BY <2>4, <4>3
            <4> QED
                BY <3>2, <4>1, <4>2, <4>4
        <3> QED
            BY <3>1, <3>2
    <2> QED
        BY <2>9, <2>10
<1>6. \A i \in 1 .. n : L[i].time \in Int /\ L[i].left \in Int
    BY CalloutTypes
<1>7. \A i \in 1 .. n + 1 : M[i].time =
          IF i < k THEN L[i].time ELSE IF i = k THEN e.time
          ELSE IF i = k + 1 THEN L[k].time - e.time ELSE L[i - 1].time
    <2>1. ASSUME NEW i \in 1 .. n + 1
          PROVE  M[i].time = IF i < k THEN L[i].time ELSE IF i = k THEN e.time
                             ELSE IF i = k + 1 THEN L[k].time - e.time ELSE L[i - 1].time
        <3>1. CASE i < k
            <4>1. i \in 1 .. n /\ i # k /\ M[i] = K[i]
                BY <1>5, <3>1
            <4> QED
                BY <1>2, <3>1, <4>1
        <3>2. CASE i = k
            BY <1>5, <3>2
        <3>3. CASE i > k
            <4>1. PICK j : j = i - 1
                OBVIOUS
            <4>2. j \in 1 .. n /\ M[i] = K[j] /\ (j = k <=> i = k + 1)
                BY <1>5, <3>3, <4>1
            <4> QED
                BY <1>2, <3>3, <4>1, <4>2
        <3> QED
            BY <3>1, <3>2, <3>3
    <2> QED
        BY <2>1
<1>8. DueFirst(M)
    <2>1. ASSUME NEW i \in 1 .. n + 1, NEW j \in 1 .. n + 1, i < j, M[i].time > 0 PROVE M[j].time >= 0
        <3>1. CASE j = k
            BY <1>0, <1>7, <3>1
        <3>2. CASE j = k + 1
            <4>1. k \in 1 .. n /\ L[k].time >= e.time /\ L[k].time \in Int
                BY <1>6, <3>2
            <4> QED
                BY <1>0, <1>7, <3>2, <4>1
        <3>3. CASE j < k
            <4>1. M[i].time = L[i].time /\ M[j].time = L[j].time /\ i \in 1 .. n /\ j \in 1 .. n
                BY <1>7, <2>1, <3>3
            <4> QED
                BY <1>0, <2>1, <4>1 DEF DueFirst
        <3>4. CASE j > k + 1
            <4>1. PICK l : l = j - 1
                OBVIOUS
            <4>2. l \in 1 .. n /\ l > k /\ M[j].time = L[l].time /\ L[l].time \in Int
                BY <1>6, <1>7, <3>4, <4>1
            <4>3. k \in 1 .. n /\ L[k].time >= e.time /\ L[k].time > 0
                BY <1>0, <1>6, <4>2
            <4>4. L[l].time >= 0
                BY <1>0, <4>2, <4>3 DEF DueFirst
            <4> QED
                BY <4>2, <4>4
        <3> QED
            BY <3>1, <3>2, <3>3, <3>4
    <2>2. DOMAIN M = 1 .. n + 1
        BY <1>5
    <2> QED
        BY <2>1, <2>2 DEF DueFirst
\* The entries before k
<1>9. \A i \in 0 .. k - 1 : Until(M, i) = Until(L, i)
    <2>1. PICK m \in Nat : m = k - 1
        OBVIOUS
    <2>2. \A i \in 1 .. m : Ticks(M[0 + i]) = Ticks(L[0 + i])
        BY <1>7, <2>1 DEF Ticks
    <2>3. 0 \in 0 .. Len(L) /\ 0 \in 0 .. Len(M) /\ 0 + m <= Len(L) /\ 0 + m <= Len(M)
        BY <1>5, <2>1
    <2>4. Until(M, 0) = Until(L, 0) + 0
        BY <1>5, UntilStep
    <2>5. \A i \in 0 .. m : Until(M, 0 + i) = Until(L, 0 + i) + 0
        <3>1. Shifted(L, 0, M, 0, m, 0)
            BY <2>2, <2>3, <2>4 DEF Shifted
        <3> QED
            BY <1>5, <3>1, UntilSame
    <2>6. ASSUME NEW i \in 0 .. m PROVE Until(M, i) = Until(L, i)
        <3>1. 0 + i = i /\ i \in 0 .. Len(L)
            BY <2>1
        <3>2. Until(L, i) \in Int
            BY <3>1, UntilStep
        <3> QED
            BY <2>5, <3>1, <3>2
    <2> QED
        BY <2>1, <2>6
\* The k-th is e
<1>10. Until(M, k) = e.left
    <2>1. k \in 1 .. Len(M) /\ M[k] = e /\ k - 1 \in 0 .. k - 1
        BY <1>5
    <2>2. Until(M, k) = Until(M, k - 1) + Ticks(M[k])
        BY <1>5, <2>1, UntilStep
    <2> QED
        BY <1>0, <1>9, <2>1, <2>2 DEF Ticks
\* Those behind it
<1>11. \A i \in k .. n : Until(M, i + 1) = Until(L, i)
    <2>1. SUFFICES ASSUME k <= n PROVE \A i \in k .. n : Until(M, i + 1) = Until(L, i)
        OBVIOUS
    <2>2. PICK l : l = k + 1
        OBVIOUS
    <2>3. Until(M, l) = Until(L, k)
        <3>1. l \in 1 .. Len(M) /\ l - 1 = k /\ k \in 1 .. Len(L)
            BY <1>5, <2>1, <2>2
        <3>2. Until(M, l) = Until(M, k) + Ticks(M[l])
            BY <1>5, <3>1, UntilStep
        <3>3. Until(L, k) = Until(L, k - 1) + Ticks(L[k]) /\ Until(L, k - 1) \in Int
            <4>1. k - 1 \in 0 .. Len(L)
                BY <3>1
            <4>2. Until(L, k - 1) \in Int
                BY <4>1, UntilStep
            <4> QED
                BY <3>1, <4>2, UntilStep
        <3>4. M[l].time = L[k].time - e.time /\ L[k].time \in Int /\ L[k].time >= e.time
            BY <1>5, <1>6, <1>7, <2>1, <2>2, <3>1
        <3>5. Ticks(M[l]) = L[k].time - e.time /\ Ticks(L[k]) = L[k].time
            BY <1>0, <3>4 DEF Ticks
        <3> QED
            BY <1>0, <1>10, <3>2, <3>3, <3>4, <3>5
    <2>4. PICK m \in Nat : m = n - k
        <3>1. n - k \in Nat
            BY <2>1
        <3> QED
            BY <3>1
    <2>5. \A i \in 1 .. m : Ticks(M[l + i]) = Ticks(L[k + i])
        <3>1. ASSUME NEW i \in 1 .. m PROVE Ticks(M[l + i]) = Ticks(L[k + i])
            <4>1. PICK j : j = l + i
                OBVIOUS
            <4>2. j \in 1 .. n + 1 /\ j > k + 1 /\ j - 1 = k + i
                BY <2>2, <2>4, <4>1
            <4>3. M[j].time = L[k + i].time
                BY <1>7, <4>2
            <4> QED
                BY <4>1, <4>3 DEF Ticks
        <3> QED
            BY <3>1
    <2>6. k \in 0 .. Len(L) /\ l \in 0 .. Len(M) /\ k + m <= Len(L) /\ l + m <= Len(M)
        BY <1>5, <2>1, <2>2, <2>4
    <2>7. Until(M, l) = Until(L, k) + 0
        <3>1. Until(L, k) \in Int
            BY <2>6, UntilStep
        <3> QED
            BY <2>3, <3>1
    <2>8. \A i \in 0 .. m : Until(M, l + i) = Until(L, k + i) + 0
        <3>1. Shifted(L, k, M, l, m, 0)
            BY <2>5, <2>6, <2>7 DEF Shifted
        <3> QED
            BY <1>5, <3>1, UntilSame
    <2>9. ASSUME NEW i \in k .. n PROVE Until(M, i + 1) = Until(L, i)
        <3>1. PICK j : j = i - k
            OBVIOUS
        <3>2. j \in 0 .. m /\ l + j = i + 1 /\ k + j = i /\ i \in 0 .. Len(L)
            BY <2>2, <2>4, <3>1
        <3>3. Until(L, i) \in Int
            BY <3>2, UntilStep
        <3> QED
            BY <2>8, <3>2, <3>3
    <2> QED
        BY <2>9
<1>12. Exact(M)
    <2>1. ASSUME NEW i \in 1 .. n + 1 PROVE Until(M, i) = IF M[i].left > 0 THEN M[i].left ELSE 0
        <3>1. CASE i < k
            <4>1. i \in 1 .. n /\ M[i].left = L[i].left /\ i \in 0 .. k - 1
                BY <1>2, <1>5, <3>1
            <4>2. Until(L, i) = IF L[i].left > 0 THEN L[i].left ELSE 0
                BY <4>1, ExactAt
            <4> QED
                BY <1>9, <4>1, <4>2
        <3>2. CASE i = k
            BY <1>5, <1>10, <3>2
        <3>3. CASE i > k
            <4>1. PICK j : j = i - 1
                OBVIOUS
            <4>2. j \in k .. n /\ j \in 1 .. n /\ j + 1 = i /\ M[i] = K[j]
                BY <1>5, <3>3, <4>1
            <4>3. M[i].left = L[j].left
                BY <1>2, <4>2
            <4>4. Until(L, j) = IF L[j].left > 0 THEN L[j].left ELSE 0
                BY <4>2, ExactAt
            <4> QED
                BY <1>11, <4>2, <4>3, <4>4
        <3> QED
            BY <3>1, <3>2, <3>3
    <2>2. DOMAIN M = 1 .. n + 1
        BY <1>5
    <2> QED
        BY <2>1, <2>2 DEF Exact
<1> QED
    BY <1>4, <1>5, <1>8, <1>12
\* timeout: the entries before the new one are due earlier, so that it has ticks of its own
LEMMA TimeoutInv ==
    ASSUME NEW f \in Funs, NEW t \in Int, CalloutInv, CalloutTimeout(f, t) PROVE CalloutInv'
<1> DEFINE before(i) == IF i = 1 THEN 0 ELSE Until(calltodo, i - 1)
<1>1. PICK L : L = calltodo
    OBVIOUS
<1>2. L \in Seq(Callouts) /\ DueFirst(L) /\ Exact(L)
    BY <1>1 DEF CalloutInv
<1>n. PICK n \in Nat : n = Len(L) /\ DOMAIN L = 1 .. n
    BY <1>2
<1>3. PICK ticks \in Int : ticks = (IF t <= 0 THEN 1 ELSE t) /\ ticks > 0
    OBVIOUS
<1>4. PICK T : T = {i \in DOMAIN L : L[i].time >= ticks - before(i)} \cup {Len(L) + 1}
    OBVIOUS
<1>5. PICK k : k = Min(T)
    OBVIOUS
<1>6. calltodo' = Inserted(L, k, [fun |-> f, time |-> ticks - before(k), left |-> ticks])
    BY <1>1, <1>3, <1>4, <1>5 DEF CalloutTimeout
<1>7. \A i \in 1 .. n + 1 : before(i) = Until(L, i - 1) /\ before(i) \in Int
    <2>1. ASSUME NEW i \in 1 .. n + 1 PROVE before(i) = Until(L, i - 1) /\ before(i) \in Int
        <3>1. Until(L, 0) = 0
            BY <1>2, UntilStep
        <3>2. i - 1 \in 0 .. Len(L)
            BY <1>n
        <3>3. Until(L, i - 1) \in Int
            BY <1>2, <3>2, UntilStep
        <3> QED
            BY <1>1, <3>1, <3>3
    <2> QED
        BY <2>1
<1> HIDE DEF before
<1>8. T \subseteq Nat /\ T # {} /\ n + 1 \in T /\ T \subseteq 1 .. n + 1
    BY <1>4, <1>n
<1>9. k \in T /\ \A i \in T : k <= i
    BY <1>5, <1>8, MinIs
<1>10. k \in 1 .. n + 1
    BY <1>8, <1>9
<1>11. \A i \in 1 .. n : L[i].time \in Int /\ (i < k => L[i].time < ticks - before(i))
    <2>1. ASSUME NEW i \in 1 .. n PROVE L[i].time \in Int /\ (i < k => L[i].time < ticks - before(i))
        <3>1. L[i].time \in Int
            BY <1>2, <1>n, CalloutTypes
        <3>2. i < k => i \notin T
            BY <1>9, <1>10
        <3>3. i < k => ~(L[i].time >= ticks - before(i))
            BY <1>4, <1>n, <3>2
        <3>4. before(i) \in Int
            BY <1>7
        <3> QED
            BY <3>1, <3>3, <3>4
    <2> QED
        BY <2>1
<1>12. \A i \in 0 .. n : i < k => Until(L, i) < ticks
    <2> DEFINE U == {i \in Nat : i <= n /\ i < k => Until(L, i) < ticks}
    <2>1. 0 \in U
        <3>1. Until(L, 0) = 0
            BY <1>2, UntilStep
        <3> QED
            BY <1>3, <3>1
    <2>2. ASSUME NEW i \in U PROVE i + 1 \in U
        <3>1. PICK j \in Nat : j = i + 1
            OBVIOUS
        <3>2. ASSUME j <= n, j < k PROVE Until(L, j) < ticks
            <4>1. j \in 1 .. n /\ j - 1 = i /\ i <= n /\ i < k /\ i \in 0 .. Len(L)
                BY <1>n, <1>10, <3>1, <3>2
            <4>2. Until(L, i) < ticks /\ Until(L, i) \in Int
                BY <1>2, <4>1, UntilStep
            <4>3. Until(L, j) = Until(L, j - 1) + Ticks(L[j])
                BY <1>2, <1>n, <4>1, UntilStep
            <4>4. before(j) = Until(L, i) /\ L[j].time \in Int /\ L[j].time < ticks - before(j)
                BY <1>7, <1>11, <3>2, <4>1
            <4> QED
                BY <4>1, <4>2, <4>3, <4>4 DEF Ticks
        <3> QED
            BY <3>1, <3>2
    <2> HIDE DEF U
    <2>3. 0 .. n \subseteq U
        BY <2>1, <2>2, InductionTo
    <2> QED
        BY <2>3 DEF U
<1>13. PICK u \in Int : u = ticks - before(k) /\ u > 0 /\ Until(L, k - 1) + u = ticks
    <2>1. k - 1 \in 0 .. n /\ k - 1 < k
        BY <1>10
    <2>2. Until(L, k - 1) < ticks /\ before(k) = Until(L, k - 1) /\ before(k) \in Int
        BY <1>7, <1>10, <1>12, <2>1
    <2> QED
        BY <2>2
<1>14. PICK e : e = [fun |-> f, time |-> u, left |-> ticks]
    OBVIOUS
<1>15. e \in Callouts /\ e.time = u /\ e.left = ticks
    BY <1>14 DEF Callouts
<1>16. k <= n => L[k].time >= e.time
    BY <1>4, <1>9, <1>10, <1>13, <1>15, <1>n
<1>17. calltodo' = Inserted(L, k, e)
    BY <1>6, <1>13, <1>14
<1>18. /\ Inserted(L, k, e) \in Seq(Callouts) /\ DueFirst(Inserted(L, k, e))
       /\ Exact(Inserted(L, k, e))
    BY <1>2, <1>3, <1>10, <1>13, <1>15, <1>16, <1>n, InsertedExact
<1> QED
    BY <1>17, <1>18 DEF CalloutInv

\* untimeout: the ticks of the entry that is taken out go to the next one
LEMMA UntimeoutInv == ASSUME NEW f \in Funs, CalloutInv, CalloutUntimeout(f) PROVE CalloutInv'
<1>1. PICK L : L = calltodo
    OBVIOUS
<1>2. L \in Seq(Callouts) /\ DueFirst(L) /\ Exact(L)
    BY <1>1 DEF CalloutInv
<1>n. PICK n \in Nat : n = Len(L) /\ DOMAIN L = 1 .. n
    BY <1>2
<1>3. PICK k : k = SelectInSeq(L, LAMBDA e : e.fun = f)
    OBVIOUS
<1>4. k \in 1 .. n
    <2>1. PICK T : T = {i \in 1 .. Len(L) : L[i].fun = f}
        OBVIOUS
    <2>2. k = IF T # {} THEN Min(T) ELSE 0
        BY <1>3, <2>1 DEF SelectInSeq
    <2>3. T \subseteq Nat /\ T \subseteq 1 .. n
        BY <1>n, <2>1
    <2>4. k > 0
        BY <1>1, <1>3 DEF CalloutUntimeout
    <2>5. T # {}
        BY <2>2, <2>4
    <2>6. Min(T) \in T
        BY <2>3, <2>5, MinIs
    <2> QED
        BY <2>2, <2>3, <2>5, <2>6
<1>5. PICK K : K = IF k < Len(L) /\ L[k].time > 0 THEN [L EXCEPT ![k + 1].time = @ + L[k].time] ELSE L
    OBVIOUS
<1>6. PICK M : M = RemoveAt(K, k)
    OBVIOUS
<1>7. calltodo' = M
    BY <1>1, <1>3, <1>5, <1>6 DEF CalloutUntimeout
<1>8. \A i \in 1 .. n : L[i] \in Callouts /\ L[i].time \in Int /\ L[i].left \in Int /\ Ticks(L[i]) \in Nat
    BY <1>2, <1>n, CalloutTypes
<1>9. /\ K \in Seq(Callouts) /\ Len(K) = n
      /\ \A i \in 1 .. n : /\ K[i].left = L[i].left
                           /\ K[i].time = IF i = k + 1 THEN L[i].time + Ticks(L[k]) ELSE L[i].time
    <2>1. CASE ~(k < n /\ L[k].time > 0)
        <3>1. K = L
            BY <1>5, <1>n, <2>1
        <3>2. ASSUME NEW i \in 1 .. n, i = k + 1 PROVE L[i].time = L[i].time + Ticks(L[k])
            <4>1. Ticks(L[k]) = 0
                BY <1>4, <2>1, <3>2 DEF Ticks
            <4> QED
                BY <1>8, <4>1
        <3> QED
            BY <1>2, <1>n, <3>1, <3>2
    <2>2. CASE k < n /\ L[k].time > 0
        <3>1. K = [L EXCEPT ![k + 1].time = L[k + 1].time + L[k].time]
            BY <1>5, <1>n, <2>2
        <3>2. PICK m \in 1 .. n : m = k + 1
            BY <1>4, <2>2
        <3>3. PICK t \in Int : t = L[m].time + L[k].time
            BY <1>4, <1>8
        <3>4. PICK r : r = [L[m] EXCEPT !.time = t]
            OBVIOUS
        <3>5. r \in Callouts /\ r.time = t /\ r.left = L[m].left
            BY <1>8, <3>4 DEF Callouts
        <3>6. K = [L EXCEPT ![m] = r]
            BY <3>1, <3>2, <3>3, <3>4
        <3>7. K \in Seq(Callouts) /\ Len(K) = n /\ \A i \in 1 .. n : K[i] = IF i = m THEN r ELSE L[i]
            BY <1>2, <1>n, <3>5, <3>6
        <3>8. Ticks(L[k]) = L[k].time
            BY <2>2 DEF Ticks
        <3> QED
            BY <3>2, <3>3, <3>5, <3>7, <3>8
    <2> QED
        BY <2>1, <2>2
<1>10. PICK m \in Nat : m = n - 1
    BY <1>4
<1>11. /\ M \in Seq(Callouts) /\ Len(M) = m
       /\ \A i \in 1 .. m : M[i] = IF i < k THEN K[i] ELSE K[i + 1]
    <2>1. PICK A : A = SubSeq(K, 1, k - 1)
        OBVIOUS
    <2>2. PICK B : B = SubSeq(K, k + 1, Len(K))
        OBVIOUS
    <2>3. A \in Seq(Callouts) /\ Len(A) = k - 1 /\ \A i \in 1 .. k - 1 : A[i] = K[i]
        BY <1>4, <1>9, <2>1
    <2>4. B \in Seq(Callouts) /\ Len(B) = n - k /\ \A i \in 1 .. n - k : B[i] = K[k + i]
        BY <1>4, <1>9, <2>2
    <2>5. M = A \o B
        BY <1>6, <2>1, <2>2 DEF RemoveAt
    <2>6. A \in Seq(Callouts) /\ B \in Seq(Callouts)
        BY <2>3, <2>4
    <2>7. M \in Seq(Callouts) /\ Len(M) = Len(A) + Len(B)
        BY <2>5, <2>6
    <2>8. Len(M) = m
        BY <1>4, <1>10, <2>3, <2>4, <2>7
    <2>9. ASSUME NEW i \in 1 .. m PROVE M[i] = IF i < k THEN K[i] ELSE K[i + 1]
        <3>1. CASE i < k
            BY <1>4, <2>3, <2>5, <2>6, <3>1
        <3>2. CASE ~(i < k)
            <4>1. PICK j : j = i - (k - 1)
                OBVIOUS
            <4>2. j \in 1 .. n - k /\ k + j = i + 1
                BY <1>4, <1>10, <3>2, <4>1
            <4>3. M[i] = B[j]
                BY <1>4, <1>10, <2>3, <2>4, <2>5, <2>6, <3>2, <4>1
            <4>4. B[j] = K[k + j]
                BY <2>4, <4>2
            <4> QED
                BY <3>2, <4>2, <4>3, <4>4
        <3> QED
            BY <3>1, <3>2
    <2> QED
        BY <2>7, <2>8, <2>9
<1>12. \A i \in 1 .. m : /\ M[i].left = IF i < k THEN L[i].left ELSE L[i + 1].left
                         /\ M[i].time = IF i < k THEN L[i].time
                                        ELSE IF i = k THEN L[i + 1].time + Ticks(L[k])
                                        ELSE L[i + 1].time
    <2>1. ASSUME NEW i \in 1 .. m
          PROVE  /\ M[i].left = IF i < k THEN L[i].left ELSE L[i + 1].left
                 /\ M[i].time = IF i < k THEN L[i].time
                                ELSE IF i = k THEN L[i + 1].time + Ticks(L[k])
                                ELSE L[i + 1].time
        <3>1. CASE i < k
            <4>1. i \in 1 .. n /\ i # k + 1 /\ M[i] = K[i]
                BY <1>4, <1>10, <1>11, <3>1
            <4> QED
                BY <1>9, <3>1, <4>1
        <3>2. CASE ~(i < k)
            <4>1. PICK j : j = i + 1
                OBVIOUS
            <4>2. j \in 1 .. n /\ (j = k + 1 <=> i = k) /\ M[i] = K[j]
                BY <1>4, <1>10, <1>11, <3>2, <4>1
            <4> QED
                BY <1>9, <3>2, <4>1, <4>2
        <3> QED
            BY <3>1, <3>2
    <2> QED
        BY <2>1
<1>13. DueFirst(M)
    <2>1. ASSUME NEW i \in 1 .. m, NEW j \in 1 .. m, i < j, M[i].time > 0 PROVE M[j].time >= 0
        <3>1. PICK x, y : x = i + 1 /\ y = j + 1
            OBVIOUS
        <3>2. x \in 1 .. n /\ y \in 1 .. n /\ i \in 1 .. n /\ j \in 1 .. n /\ x < y
            BY <1>10, <2>1, <3>1
        <3>3. \A a, b \in 1 .. n : a < b /\ L[a].time > 0 => L[b].time >= 0
            BY <1>2, <1>n DEF DueFirst
        <3>4. CASE j < k
            <4>1. M[i].time = L[i].time /\ M[j].time = L[j].time
                BY <1>4, <1>12, <2>1, <3>4
            <4> QED
                BY <2>1, <3>2, <3>3, <4>1
        <3>5. CASE i < k /\ j >= k
            <4>1. L[i].time > 0
                BY <1>12, <2>1, <3>5
            <4>2. L[y].time >= 0
                BY <2>1, <3>1, <3>2, <3>3, <4>1
            <4>3. M[j].time = L[y].time \/ M[j].time = L[y].time + Ticks(L[k])
                BY <1>4, <1>12, <3>1, <3>5
            <4> QED
                BY <1>4, <1>8, <3>2, <4>2, <4>3
        <3>6. CASE i = k
            <4>1. M[i].time = L[x].time + Ticks(L[k])
                BY <1>12, <3>1, <3>6
            <4>2. L[x].time > 0 \/ L[k].time > 0
                BY <1>4, <1>8, <2>1, <3>2, <4>1 DEF Ticks
            <4>3. L[y].time >= 0
                BY <1>4, <2>1, <3>1, <3>2, <3>3, <3>6, <4>2
            <4>4. M[j].time = L[y].time
                BY <1>4, <1>12, <2>1, <3>1, <3>6
            <4> QED
                BY <4>3, <4>4
        <3>7. CASE i > k
            <4>1. M[i].time = L[x].time /\ M[j].time = L[y].time
                BY <1>4, <1>12, <2>1, <3>1, <3>7
            <4> QED
                BY <2>1, <3>2, <3>3, <4>1
        <3> QED
            BY <1>4, <3>4, <3>5, <3>6, <3>7
    <2>2. DOMAIN M = 1 .. m
        BY <1>11
    <2> QED
        BY <2>1, <2>2 DEF DueFirst
\* The entries before k
<1>14. \A i \in 0 .. k - 1 : Until(M, i) = Until(L, i) /\ Until(L, i) \in Int
    <2>1. PICK l \in Nat : l = k - 1
        BY <1>4
    <2>2. \A i \in 1 .. l : Ticks(M[0 + i]) = Ticks(L[0 + i])
        <3>1. ASSUME NEW i \in 1 .. l PROVE Ticks(M[0 + i]) = Ticks(L[0 + i])
            <4>1. 0 + i = i /\ i \in 1 .. m /\ i < k
                BY <1>4, <1>10, <2>1
            <4>2. M[i].time = L[i].time
                BY <1>12, <4>1
            <4> QED
                BY <4>1, <4>2 DEF Ticks
        <3> QED
            BY <3>1
    <2>3. 0 \in 0 .. Len(L) /\ 0 \in 0 .. Len(M) /\ 0 + l <= Len(L) /\ 0 + l <= Len(M)
        BY <1>4, <1>10, <1>11, <1>n, <2>1
    <2>4. Until(M, 0) = Until(L, 0) + 0
        BY <1>2, <1>11, UntilStep
    <2>5. Shifted(L, 0, M, 0, l, 0)
        BY <2>2, <2>3, <2>4 DEF Shifted
    <2>6. \A i \in 0 .. l : Until(M, 0 + i) = Until(L, 0 + i) + 0
        BY <1>2, <1>11, <2>5, UntilSame
    <2>7. ASSUME NEW i \in 0 .. l PROVE Until(M, i) = Until(L, i) /\ Until(L, i) \in Int
        <3>1. 0 + i = i /\ i \in 0 .. Len(L)
            BY <1>4, <1>n, <2>1
        <3>2. Until(L, i) \in Int
            BY <1>2, <3>1, UntilStep
        <3> QED
            BY <2>6, <3>1, <3>2
    <2> QED
        BY <2>1, <2>7
\* Those behind it
<1>15. \A i \in k .. m : Until(M, i) = Until(L, i + 1)
    <2>1. SUFFICES ASSUME k <= m PROVE \A i \in k .. m : Until(M, i) = Until(L, i + 1)
        BY <1>4
    <2>2. PICK l : l = k + 1
        OBVIOUS
    <2>3. Until(M, k) = Until(L, l)
        <3>1. l \in 1 .. n /\ l - 1 = k /\ k \in 1 .. m /\ k - 1 \in 0 .. k - 1
            BY <1>4, <1>10, <2>1, <2>2
        <3>2. Until(M, k) = Until(M, k - 1) + Ticks(M[k])
            BY <1>11, <3>1, UntilStep
        <3>3. Until(L, k) = Until(L, k - 1) + Ticks(L[k])
            BY <1>2, <1>4, <1>n, UntilStep
        <3>4. Until(L, l) = Until(L, k) + Ticks(L[l])
            BY <1>2, <1>n, <3>1, UntilStep
        <3>5. Until(M, k - 1) = Until(L, k - 1) /\ Until(L, k - 1) \in Int
            BY <1>14, <3>1
        <3>6. M[k].time = L[l].time + Ticks(L[k])
            BY <1>12, <2>2, <3>1
        <3>7. Ticks(M[k]) = Ticks(L[l]) + Ticks(L[k])
            <4>1. CASE L[k].time > 0
                <5>0. k \in DOMAIN L /\ l \in DOMAIN L /\ k < l
                    BY <1>4, <1>n, <2>2, <3>1
                <5>1. L[l].time >= 0 /\ L[l].time \in Int /\ L[k].time \in Int
                    <6>1. L[l].time >= 0
                        BY <1>2, <4>1, <5>0 DEF DueFirst
                    <6> QED
                        BY <1>4, <1>8, <3>1, <6>1
                <5>2. Ticks(L[k]) = L[k].time /\ Ticks(L[l]) = L[l].time
                    BY <4>1, <5>1 DEF Ticks
                <5>3. M[k].time > 0
                    BY <3>6, <4>1, <5>1, <5>2
                <5> QED
                    BY <3>6, <5>2, <5>3 DEF Ticks
            <4>2. CASE ~(L[k].time > 0)
                <5>1. Ticks(L[k]) = 0
                    BY <4>2 DEF Ticks
                <5>2. L[l].time \in Int /\ M[k].time = L[l].time
                    BY <1>8, <3>1, <3>6, <5>1
                <5>3. Ticks(M[k]) = Ticks(L[l]) /\ Ticks(L[l]) \in Nat
                    BY <1>8, <3>1, <5>2 DEF Ticks
                <5> QED
                    BY <5>1, <5>3
            <4> QED
                BY <4>1, <4>2
        <3>8. Ticks(L[k]) \in Nat /\ Ticks(L[l]) \in Nat
            BY <1>4, <1>8, <3>1
        <3> QED
            BY <3>2, <3>3, <3>4, <3>5, <3>7, <3>8
    <2>4. PICK q \in Nat : q = m - k
        <3>1. m - k \in Nat
            BY <1>4, <2>1
        <3> QED
            BY <3>1
    <2>5. \A i \in 1 .. q : Ticks(M[k + i]) = Ticks(L[l + i])
        <3>1. ASSUME NEW i \in 1 .. q PROVE Ticks(M[k + i]) = Ticks(L[l + i])
            <4>1. PICK j : j = k + i
                OBVIOUS
            <4>2. j \in 1 .. m /\ j > k /\ j + 1 = l + i
                BY <1>4, <2>2, <2>4, <4>1
            <4>3. M[j].time = L[l + i].time
                BY <1>4, <1>12, <4>2
            <4> QED
                BY <4>1, <4>3 DEF Ticks
        <3> QED
            BY <3>1
    <2>6. l \in 0 .. Len(L) /\ k \in 0 .. Len(M) /\ l + q <= Len(L) /\ k + q <= Len(M)
        BY <1>4, <1>10, <1>11, <1>n, <2>1, <2>2, <2>4
    <2>7. Until(M, k) = Until(L, l) + 0
        <3>1. Until(L, l) \in Int
            BY <1>2, <2>6, UntilStep
        <3> QED
            BY <2>3, <3>1
    <2>8. Shifted(L, l, M, k, q, 0)
        BY <2>5, <2>6, <2>7 DEF Shifted
    <2>9. \A i \in 0 .. q : Until(M, k + i) = Until(L, l + i) + 0
        BY <1>2, <1>11, <2>8, UntilSame
    <2>10. ASSUME NEW i \in k .. m PROVE Until(M, i) = Until(L, i + 1)
        <3>1. PICK j : j = i - k
            OBVIOUS
        <3>2. j \in 0 .. q /\ l + j = i + 1 /\ k + j = i /\ i + 1 \in 0 .. Len(L)
            BY <1>4, <1>10, <1>n, <2>2, <2>4, <3>1
        <3>3. Until(L, i + 1) \in Int
            BY <1>2, <3>2, UntilStep
        <3> QED
            BY <2>9, <3>2, <3>3
    <2> QED
        BY <2>10
<1>16. Exact(M)
    <2>1. ASSUME NEW i \in 1 .. m PROVE Until(M, i) = IF M[i].left > 0 THEN M[i].left ELSE 0
        <3>1. CASE i < k
            <4>1. i \in 1 .. n /\ M[i].left = L[i].left /\ i \in 0 .. k - 1
                BY <1>4, <1>10, <1>12, <3>1
            <4>2. Until(L, i) = IF L[i].left > 0 THEN L[i].left ELSE 0
                BY <1>2, <1>n, <4>1, ExactAt
            <4> QED
                BY <1>14, <4>1, <4>2
        <3>2. CASE ~(i < k)
            <4>1. PICK j : j = i + 1
                OBVIOUS
            <4>2. j \in 1 .. n /\ i \in k .. m /\ M[i].left = L[j].left
                BY <1>4, <1>10, <1>12, <3>2, <4>1
            <4>3. Until(L, j) = IF L[j].left > 0 THEN L[j].left ELSE 0
                BY <1>2, <1>n, <4>2, ExactAt
            <4> QED
                BY <1>15, <4>1, <4>2, <4>3
        <3> QED
            BY <3>1, <3>2
    <2>2. DOMAIN M = 1 .. m
        BY <1>11
    <2> QED
        BY <2>1, <2>2 DEF Exact
<1> QED
    BY <1>7, <1>11, <1>13, <1>16 DEF CalloutInv

\* Every step of the clock and of its callers keeps CalloutInv
LEMMA CalloutInvNext == CalloutInv /\ [CalloutNext]_calltodo => CalloutInv'
<1> SUFFICES ASSUME CalloutInv, [CalloutNext]_calltodo PROVE CalloutInv'
    OBVIOUS
<1>1. CASE UNCHANGED calltodo
    BY <1>1 DEF CalloutInv
<1>2. ASSUME NEW f \in Funs, CalloutUntimeout(f) PROVE CalloutInv'
    BY <1>2, UntimeoutInv
<1>3. ASSUME NEW f \in Funs, NEW t \in 0 .. MaxTicks, CalloutTimeout(f, t) PROVE CalloutInv'
    <2>1. t \in Int
        OBVIOUS
    <2> QED
        BY <1>3, <2>1, TimeoutInv
<1> QED
    BY <1>1, <1>2, <1>3, ClockInv, TimeinInv DEF CalloutNext

\* Each entry of the list of timeouts is due exactly when its ticks have passed, whatever
\* timeout has put in front of it and untimeout taken from there, and however late timein
\* is: it never calls a function before its time.
THEOREM TimesExactHolds == CalloutInit /\ [][CalloutNext]_calltodo => []TimesExact
<1>1. CalloutInit => CalloutInv
    <2>1. ASSUME calltodo = <<>> PROVE calltodo \in Seq(Callouts) /\ DOMAIN calltodo = {}
        BY <2>1
    <2> QED
        BY <2>1 DEF CalloutInit, CalloutInv, DueFirst, Exact
<1>2. CalloutInv => TimesExact
    BY DEF CalloutInv, Exact, TimesExact
<1> QED
    BY <1>1, <1>2, CalloutInvNext, PTL
=============================================================================
