------------------------------ MODULE RpcProofs ------------------------------
(***************************************************************************)
(* A client takes no answer but its own; no buffer is written while a      *)
(* datagram refers to it; a call that is in the cache of duplicates is not *)
(* done again.  For any number of clients, nfsds, handles and retries, and *)
(* for any size of the queues and of the cache.                            *)
(***************************************************************************)
EXTENDS Rpc, SequenceTheorems, FiniteSetTheorems, TLAPS

Answers  == [xid : Nat, ok : BOOLEAN]
Requests == [kind : {"call"}, h : Handles, xid : Nat, ref : BOOLEAN]
Replies  == [kind : {"reply"}, s : Servers, h : Handles, xid : Nat, ok : BOOLEAN, ref : BOOLEAN]
Mail     == Requests \cup Replies

ClientStates == [at : {"idle", "again", "buf", "lbolt", "recv", "reply"}, h : Handles \cup {0},
                 xid : Nat, stries : Int, rtries : Nat, got : Answers]
HandleStates == [inuse : BOOLEAN, busy : BOOLEAN, wanted : BOOLEAN, timedout : BOOLEAN,
                 buf : Nat, rcv : Seq(Replies)]
NfsdStates   == [at : {"idle", "vop", "send"}, req : Requests \cup {Call(0, 0, FALSE)},
                 xid : Nat, dup : BOOLEAN, ok : BOOLEAN, busy : BOOLEAN, wanted : BOOLEAN,
                 buf : Answers]

Typed == /\ out \subseteq Mail /\ net \subseteq Mail /\ so \in Seq(Requests)
         /\ cku \in [Handles -> HandleStates] /\ cl \in [Clients -> ClientStates]
         /\ ud \in [Servers -> NfsdStates]
         /\ ops \in Seq({"write", "remove"}) /\ there \in BOOLEAN
         /\ log \in Seq([xid : Nat, ran : BOOLEAN, ok : BOOLEAN])

\* A client in a call has a handle of its own
HasHandle(p) == cl[p].at # "idle" => /\ cl[p].h \in Handles /\ cku[cl[p].h].inuse
                                     /\ cl[p].xid \in 1 .. Len(ops) /\ cl[p].got = NoReply
HandlesApart == \A p, q \in Clients :
                   cl[p].at # "idle" /\ cl[q].at # "idle" /\ cl[p].h = cl[q].h => p = q

\* The transaction id in its buffer is that of its call
SentItsCall(p) == cl[p].at \in {"recv", "reply"} => cku[cl[p].h].buf = cl[p].xid

\* Something an nfsd did, or nothing
Done(x, ok) == \E i \in DOMAIN log : log[i].xid = x /\ log[i].ok = ok
Said(r) == r = NoReply \/ Done(r.xid, r.ok)

\* What is sent back was done
Honest(m) == m.kind = "reply" /\ ~m.ref => Said([xid |-> m.xid, ok |-> m.ok])
Serving(s) == /\ Said(ud[s].buf)
              /\ ud[s].at = "send" => Done(ud[s].xid, ud[s].ok)
              /\ ud[s].at # "idle" => ud[s].req \in Requests
MailHonest == \A m \in out \cup net : Honest(m)
SocketsHonest == \A h \in Handles : \A i \in DOMAIN cku[h].rcv : Honest(cku[h].rcv[i])
AllHonest == MailHonest /\ SocketsHonest /\ \A s \in Servers : Serving(s)

ReplyInv == /\ Typed
            /\ \A p \in Clients : HasHandle(p) /\ SentItsCall(p)
            /\ HandlesApart /\ AllHonest /\ RightReply

-------------------------------------------------------------------------------
(* What a turn of a client leaves as it is                                 *)

\* The replies in a socket are some of those that were there
Fewer(new, old) == \A i \in DOMAIN new : \E j \in DOMAIN old : new[i] = old[j]

\* The nfsds are what they were, but for their buffers being busy or wanted
NfsdsKept == /\ ud' \in [Servers -> NfsdStates]
             /\ \A s \in Servers : /\ ud'[s].at = ud[s].at /\ ud'[s].req = ud[s].req
                                   /\ ud'[s].xid = ud[s].xid /\ ud'[s].ok = ud[s].ok
                                   /\ ud'[s].buf = ud[s].buf

\* buffree of the replies in a socket leaves the nfsds at what they are doing.
LEMMA FreeRepliesKept ==
    ASSUME Typed, NEW M, ud' = FreeReplies(M)
    PROVE  NfsdsKept
<1>1. ASSUME NEW s \in Servers
      PROVE  /\ ud'[s] \in NfsdStates
             /\ ud'[s].at = ud[s].at /\ ud'[s].req = ud[s].req
             /\ ud'[s].xid = ud[s].xid /\ ud'[s].ok = ud[s].ok
             /\ ud'[s].buf = ud[s].buf
  <2>1. ud[s] \in NfsdStates
    BY DEF Typed
  <2>2. ud'[s] = ud[s] \/ ud'[s] = [ud[s] EXCEPT !.busy = FALSE, !.wanted = FALSE]
    BY DEF FreeReplies
  <2> QED BY <2>1, <2>2 DEF NfsdStates
<1>2. ud' \in [Servers -> NfsdStates]
  BY <1>1 DEF FreeReplies
<1> QED BY <1>1, <1>2 DEF NfsdsKept

\* So does a turn that does not touch them.
LEMMA NfsdsSame ==
    ASSUME Typed, UNCHANGED ud
    PROVE  NfsdsKept
BY DEF Typed, NfsdsKept

\* Nothing but client p and handle h changes; no other client has h
Alters(p, h) ==
    /\ cl' \in [Clients -> ClientStates] /\ \A q \in Clients \ {p} : cl'[q] = cl[q]
    /\ cku' \in [Handles -> HandleStates] /\ \A g \in Handles \ {h} : cku'[g] = cku[g]
    /\ \A q \in Clients \ {p} : cl[q].at # "idle" => cl[q].h # h
    /\ Fewer(cku'[h].rcv, cku[h].rcv)
    /\ cl'[p].at # "idle" => cl'[p].h = h

Calling == /\ out' \subseteq Mail /\ so' \in Seq(Requests)
           /\ \A m \in out' : m \in out \/ m.kind = "call"
           /\ ops' \in Seq({"write", "remove"}) /\ Len(ops') >= Len(ops)
           /\ UNCHANGED <<net, there, log>>

\* A turn of client p with its handle h keeps all that does not speak of p and h.
LEMMA ClientKeeps ==
    ASSUME ReplyInv, NEW p \in Clients, NEW h \in Handles, Alters(p, h), Calling, NfsdsKept,
           HasHandle(p)', SentItsCall(p)',
           cl'[p].got # NoReply =>
               cl'[p].got.xid = cl'[p].xid /\ Done(cl'[p].got.xid, cl'[p].got.ok)
    PROVE  ReplyInv'
<1>1. Typed'
  BY DEF ReplyInv, Typed, Alters, Calling, NfsdsKept
<1>2. \A x, ok : Done(x, ok)' <=> Done(x, ok)
  BY DEF Done, Calling
<1>3. \A r : Said(r)' <=> Said(r)
  BY <1>2 DEF Said
<1>4. ASSUME NEW q \in Clients \ {p} PROVE HasHandle(q)' /\ SentItsCall(q)'
  <2>1. cl'[q] = cl[q] /\ HasHandle(q) /\ SentItsCall(q)
    BY DEF Alters, ReplyInv
  <2>2. CASE cl[q].at = "idle"
    BY <2>1, <2>2 DEF HasHandle, SentItsCall
  <2>3. CASE cl[q].at # "idle"
    <3>1. cl[q].h \in Handles /\ cl[q].h # h /\ cku'[cl[q].h] = cku[cl[q].h]
      BY <2>1, <2>3 DEF HasHandle, Alters
    <3>2. cl[q].xid \in 1 .. Len(ops')
      <4>1. Len(ops) \in Nat /\ Len(ops') \in Nat
        BY LenProperties DEF ReplyInv, Typed, Calling
      <4> QED BY <2>1, <2>3, <4>1 DEF HasHandle, Calling
    <3> QED BY <2>1, <2>3, <3>1, <3>2 DEF HasHandle, SentItsCall
  <2> QED BY <2>2, <2>3
<1>5. HandlesApart'
  <2> SUFFICES ASSUME NEW a \in Clients, NEW b \in Clients, a # b, cl'[a].at # "idle",
                      cl'[b].at # "idle", cl'[a].h = cl'[b].h
               PROVE  FALSE
    BY DEF HandlesApart
  <2>1. CASE a # p /\ b # p
    BY <2>1 DEF Alters, ReplyInv, HandlesApart
  <2>2. CASE a = p
    BY <2>2 DEF Alters
  <2>3. CASE b = p
    BY <2>3 DEF Alters
  <2> QED BY <2>1, <2>2, <2>3
<1>6. AllHonest'
  <2>1. MailHonest'
    BY <1>3 DEF ReplyInv, AllHonest, MailHonest, Honest, Calling
  <2>2. SocketsHonest'
    <3> SUFFICES ASSUME NEW g \in Handles, NEW i \in DOMAIN cku'[g].rcv
                 PROVE  Honest(cku[g].rcv[i])'
      BY DEF SocketsHonest
    <3>1. PICK j \in DOMAIN cku[g].rcv : cku'[g].rcv[i] = cku[g].rcv[j]
      BY DEF Alters, Fewer
    <3>2. Honest(cku[g].rcv[j])
      BY DEF ReplyInv, AllHonest, SocketsHonest
    <3> QED BY <1>3, <3>1, <3>2 DEF Honest
  <2>3. \A s \in Servers : Serving(s)'
    BY <1>2, <1>3 DEF ReplyInv, AllHonest, Serving, NfsdsKept
  <2> QED BY <2>1, <2>2, <2>3 DEF AllHonest
<1>7. RightReply'
  <2>1. ASSUME NEW q \in Clients, cl'[q].got # NoReply
        PROVE  cl'[q].got.xid = cl'[q].xid /\ Done(cl'[q].got.xid, cl'[q].got.ok)
    <3>1. CASE q = p
      BY <2>1, <3>1
    <3>2. CASE q # p
      BY <2>1, <3>2 DEF Alters, ReplyInv, RightReply, Done
    <3> QED BY <3>1, <3>2
  <2>2. log' = log
    BY DEF Calling
  <2> QED BY <2>1, <2>2 DEF RightReply, Done
<1> QED BY <1>1, <1>4, <1>5, <1>6, <1>7 DEF ReplyInv

\* Handle h of a client in a call, and the others, are in the state k
OnlyHandle(k, h) ==
    /\ k \in [Handles -> HandleStates] /\ \A g \in Handles \ {h} : k[g] = cku[g]
    /\ k[h].inuse /\ Fewer(k[h].rcv, cku[h].rcv)

\* Nothing is sent and no call begins
Silent == UNCHANGED <<out, net, so, there, log>>

\* A turn that neither calls nor does anything at the server leaves what is known of calls.
LEMMA SilentCalling ==
    ASSUME Typed, Silent, UNCHANGED ops
    PROVE  Calling
<1>1. Len(ops) \in Nat
  BY LenProperties DEF Typed
<1> QED BY <1>1 DEF Typed, Silent, Calling

\* A client that is not idle has a handle in use, which no other client has.
LEMMA InCall ==
    ASSUME ReplyInv, NEW p \in Clients, cl[p].at # "idle"
    PROVE  /\ cl[p].h \in Handles /\ cku[cl[p].h].inuse /\ cl[p].xid \in 1 .. Len(ops)
           /\ cl[p].got = NoReply /\ cl[p] \in ClientStates
           /\ cku[cl[p].h] \in HandleStates
           /\ \A q \in Clients \ {p} : cl[q].at # "idle" => cl[q].h # cl[p].h
BY DEF ReplyInv, Typed, HasHandle, HandlesApart

\* A client goes on in its call
LEMMA GoesOnKeeps ==
    ASSUME ReplyInv, NEW p \in Clients, cl[p].at # "idle", NEW c \in ClientStates,
           c.at # "idle", c.h = cl[p].h, c.xid = cl[p].xid, c.got = cl[p].got,
           cl' = [cl EXCEPT ![p] = c], OnlyHandle(cku', cl[p].h), Calling, UNCHANGED ops,
           c.at \in {"recv", "reply"} => cku'[cl[p].h].buf = c.xid,
           NfsdsKept
    PROVE  ReplyInv'
<1> DEFINE h == cl[p].h
<1>1. h \in Handles /\ cl'[p] = c
  BY InCall DEF ReplyInv, Typed
<1>2. Alters(p, h)
  BY <1>1, InCall DEF Alters, OnlyHandle, ReplyInv, Typed
<1>3. HasHandle(p)' /\ SentItsCall(p)'
  BY <1>1, InCall DEF HasHandle, SentItsCall, OnlyHandle
<1>4. cl'[p].got = NoReply
  BY <1>1, InCall
<1> QED BY <1>1, <1>2, <1>3, <1>4, ClientKeeps

\* A call ends without an answer or with the right one
LEMMA FinishKeeps ==
    ASSUME ReplyInv, NEW p \in Clients, cl[p].at # "idle", NEW k, OnlyHandle(k, cl[p].h),
           NEW r \in Answers, Finish(p, k, r), Silent, UNCHANGED ops, NfsdsKept,
           r # NoReply => r.xid = cl[p].xid /\ Done(r.xid, r.ok)
    PROVE  ReplyInv'
<1> DEFINE h == cl[p].h
           c == [cl[p] EXCEPT !.at = "idle", !.got = r]
<1>1. /\ h \in Handles /\ cl[p] \in ClientStates /\ cl' = [cl EXCEPT ![p] = c]
      /\ cku' = [k EXCEPT ![h].inuse = FALSE]
  BY InCall DEF Finish
<1>2. c \in ClientStates /\ c.at = "idle" /\ c.xid = cl[p].xid /\ c.got = r
  BY <1>1 DEF ClientStates
<1>3. cl'[p] = c /\ cl' \in [Clients -> ClientStates] /\ \A q \in Clients \ {p} : cl'[q] = cl[q]
  BY <1>1, <1>2 DEF ReplyInv, Typed
<1>4. k[h] \in HandleStates
  BY <1>1 DEF OnlyHandle
<1>5. [k[h] EXCEPT !.inuse = FALSE] \in HandleStates /\ cku'[h].rcv = k[h].rcv
  BY <1>1, <1>4 DEF HandleStates, OnlyHandle
<1>6. Alters(p, h)
  <2>1. cku' \in [Handles -> HandleStates] /\ \A g \in Handles \ {h} : cku'[g] = cku[g]
    BY <1>1, <1>5 DEF OnlyHandle
  <2> QED BY <1>2, <1>3, <1>5, <2>1, InCall DEF Alters, OnlyHandle
<1>7. HasHandle(p)' /\ SentItsCall(p)'
  BY <1>2, <1>3 DEF HasHandle, SentItsCall
<1>8. Calling
  BY SilentCalling DEF ReplyInv
<1> QED BY <1>1, <1>2, <1>3, <1>6, <1>7, <1>8, ClientKeeps

\* A try has failed: the next one, a new call, or none
LEMMA FailedKeeps ==
    ASSUME ReplyInv, NEW p \in Clients, cl[p].at # "idle", NEW k, OnlyHandle(k, cl[p].h),
           NEW next \in {"again", "lbolt"}, Failed(p, k, next), Silent, NfsdsKept
    PROVE  ReplyInv'
<1> DEFINE h == cl[p].h
<1>1. /\ h \in Handles /\ cl[p] \in ClientStates /\ cl[p].got = NoReply
      /\ cl[p].xid \in 1 .. Len(ops)
  BY InCall
<1>2. CASE cl[p].stries > 1
  <2> DEFINE c == [cl[p] EXCEPT !.at = next, !.stries = cl[p].stries - 1]
  <2>1. /\ cl' = [cl EXCEPT ![p] = c] /\ UNCHANGED ops /\ cku' = k
        /\ c \in ClientStates /\ c.at = next /\ c.h = h /\ c.xid = cl[p].xid
        /\ c.got = cl[p].got
    <3>1. /\ cl' = [cl EXCEPT ![p].at = next, ![p].stries = cl[p].stries - 1]
          /\ UNCHANGED ops /\ cku' = k
      BY <1>2 DEF Failed
    <3>2. cl' = [cl EXCEPT ![p] = c]
      BY <3>1 DEF ReplyInv, Typed
    <3>3. cl[p].stries - 1 \in Int
      BY <1>1 DEF ClientStates
    <3> QED BY <1>1, <3>1, <3>2, <3>3 DEF ClientStates
  <2>2. Calling
    BY <2>1, SilentCalling DEF ReplyInv
  <2> HIDE DEF c
  <2> QED BY <1>1, <2>1, <2>2, GoesOnKeeps
<1>3. CASE ~(cl[p].stries > 1) /\ Finish(p, k, NoReply) /\ UNCHANGED ops
  <2>1. NoReply \in Answers
    BY DEF NoReply, Answers
  <2> QED BY <1>3, <2>1, FinishKeeps
<1>4. CASE /\ ops' = Append(ops, ops[cl[p].xid]) /\ cku' = k
           /\ cl' = [cl EXCEPT ![p].at = "again", ![p].xid = Len(ops) + 1,
                               ![p].stries = Retrys]
  <2>1. Len(ops) \in Nat /\ ops[cl[p].xid] \in {"write", "remove"}
    BY <1>1, LenProperties, ElementOfSeq DEF ReplyInv, Typed
  <2>2. ops' \in Seq({"write", "remove"}) /\ Len(ops') = Len(ops) + 1
    BY <1>4, <2>1, AppendProperties DEF ReplyInv, Typed
  <2>3. Calling
    BY <2>1, <2>2 DEF Calling, Silent, ReplyInv, Typed
  <2>4. /\ cl'[p] = [cl[p] EXCEPT !.at = "again", !.xid = Len(ops) + 1, !.stries = Retrys]
        /\ \A q \in Clients \ {p} : cl'[q] = cl[q]
    BY <1>4 DEF ReplyInv, Typed
  <2>5. /\ cl'[p] \in ClientStates /\ cl'[p].at = "again" /\ cl'[p].h = h
        /\ cl'[p].xid = Len(ops) + 1 /\ cl'[p].got = NoReply
    <3>1. Retrys \in Int /\ Len(ops) + 1 \in Nat
      BY <2>1, RpcAssumption
    <3> HIDE DEF h
    <3> QED BY <1>1, <2>4, <3>1 DEF h, ClientStates
  <2>6. cl' \in [Clients -> ClientStates]
    BY <1>4, <2>5 DEF ReplyInv, Typed
  <2>7. Alters(p, h)
    BY <1>4, <2>4, <2>5, <2>6, InCall DEF Alters, OnlyHandle
  <2>8. HasHandle(p)' /\ SentItsCall(p)'
    BY <1>1, <1>4, <2>1, <2>2, <2>5 DEF HasHandle, SentItsCall, OnlyHandle
  <2> QED BY <1>1, <2>3, <2>5, <2>7, <2>8, ClientKeeps
<1> QED BY <1>2, <1>3, <1>4 DEF Failed

-------------------------------------------------------------------------------
(* The turns of a client                                                   *)

\* Part of what was in the socket is read
LEMMA FewerParts ==
    ASSUME NEW c \in Seq(Replies), NEW n \in Nat
    PROVE  /\ Fewer(<<>>, c) /\ <<>> \in Seq(Replies) /\ Fewer(c, c)
           /\ n <= Len(c) => /\ SubSeq(c, n + 1, Len(c)) \in Seq(Replies)
                             /\ Fewer(SubSeq(c, n + 1, Len(c)), c)
<1>1. Fewer(<<>>, c) /\ <<>> \in Seq(Replies) /\ Fewer(c, c)
  BY DEF Fewer
<1>2. ASSUME n <= Len(c)
      PROVE  /\ SubSeq(c, n + 1, Len(c)) \in Seq(Replies)
             /\ Fewer(SubSeq(c, n + 1, Len(c)), c)
  <2>1. Len(c) \in Nat /\ DOMAIN c = 1 .. Len(c)
    BY LenProperties
  <2>2. \A i \in n + 1 .. Len(c) : c[i] \in Replies
    BY <2>1, ElementOfSeq
  <2>3. SubSeq(c, n + 1, Len(c)) \in Seq(Replies)
    BY <2>1, <2>2, SubSeqProperties
  <2>4. Fewer(SubSeq(c, n + 1, Len(c)), c)
    BY <1>2, <2>1 DEF Fewer
  <2> QED BY <2>3, <2>4
<1> QED BY <1>1, <1>2

\* The handle of a client with other flags, another transaction id, or fewer replies
LEMMA HandleAltered ==
    ASSUME ReplyInv, NEW p \in Clients, cl[p].at # "idle", NEW x \in HandleStates,
           x.inuse, Fewer(x.rcv, cku[cl[p].h].rcv), NEW k, k = [cku EXCEPT ![cl[p].h] = x]
    PROVE  OnlyHandle(k, cl[p].h)
BY InCall DEF OnlyHandle, ReplyInv, Typed

\* A turn that does not touch the handles changes at most the caller's.
LEMMA SameHandles ==
    ASSUME ReplyInv, NEW p \in Clients, cl[p].at # "idle"
    PROVE  OnlyHandle(cku, cl[p].h)
BY InCall DEF OnlyHandle, Fewer, ReplyInv, Typed

\* clget finds a handle that is free: no client in a call has it.
LEMMA StartKeeps ==
    ASSUME ReplyInv, NEW p \in Clients, NEW op \in {"write", "remove"}, Start(p, op)
    PROVE  ReplyInv'
<1>1. PICK h \in Handles :
          /\ ~cku[h].inuse /\ cku' = [cku EXCEPT ![h].inuse = TRUE]
          /\ cl' = [cl EXCEPT ![p] = [at |-> "again", h |-> h, xid |-> Len(ops) + 1,
                                      stries |-> Retrys, rtries |-> 0, got |-> NoReply]]
  BY DEF Start
<1>2. Len(ops) \in Nat /\ Retrys \in Int
  BY LenProperties, RpcAssumption DEF ReplyInv, Typed
<1>3. ops' \in Seq({"write", "remove"}) /\ Len(ops') = Len(ops) + 1
  BY <1>2, AppendProperties DEF Start, ReplyInv, Typed
<1>4. Calling
  BY <1>2, <1>3 DEF Start, Calling, ReplyInv, Typed
<1>5. /\ cl'[p] \in ClientStates /\ cl'[p].at = "again" /\ cl'[p].h = h
      /\ cl'[p].xid = Len(ops) + 1 /\ cl'[p].got = NoReply
  BY <1>1, <1>2 DEF ReplyInv, Typed, ClientStates, NoReply, Answers
<1>6. cku'[h] \in HandleStates /\ cku'[h].inuse /\ cku'[h].rcv = cku[h].rcv
  BY <1>1 DEF ReplyInv, Typed, HandleStates
<1>7. \A q \in Clients \ {p} : cl[q].at # "idle" => cl[q].h # h
  BY <1>1 DEF ReplyInv, HasHandle
<1>8. /\ cl' \in [Clients -> ClientStates] /\ \A q \in Clients \ {p} : cl'[q] = cl[q]
      /\ cku' \in [Handles -> HandleStates] /\ \A g \in Handles \ {h} : cku'[g] = cku[g]
  BY <1>1, <1>5, <1>6 DEF ReplyInv, Typed
<1>9. Alters(p, h)
  BY <1>5, <1>6, <1>7, <1>8 DEF Alters, Fewer
<1>10. HasHandle(p)' /\ SentItsCall(p)'
  BY <1>2, <1>3, <1>5, <1>6 DEF HasHandle, SentItsCall
<1>11. NfsdsKept
  BY NfsdsSame DEF Start, ReplyInv
<1> QED BY <1>4, <1>5, <1>9, <1>10, <1>11, ClientKeeps

\* The client waits for its buffer, or goes on after it, or after lbolt
LEMMA WaitKeeps ==
    ASSUME ReplyInv, NEW p \in Clients,
           WaitForBuffer(p) \/ FlushReplies(p) \/ Lbolt(p) \/ Answered(p)
    PROVE  ReplyInv'
<1> DEFINE h == cl[p].h
<1>1. /\ cl[p].at # "idle" /\ Silent /\ UNCHANGED ops
  BY DEF WaitForBuffer, FlushReplies, Lbolt, Answered, Woke, Silent
<1>2. h \in Handles /\ cku[h] \in HandleStates /\ cku[h].inuse /\ cl[p] \in ClientStates
  BY <1>1, InCall
<1>3. PICK a \in {"buf", "again", "recv"} :
          /\ cl' = [cl EXCEPT ![p].at = a]
          /\ a = "recv" => cl[p].at = "reply" /\ UNCHANGED cku
  BY DEF WaitForBuffer, FlushReplies, Lbolt, Answered, Woke
<1> DEFINE c == [cl[p] EXCEPT !.at = a]
<1>4. /\ cl' = [cl EXCEPT ![p] = c] /\ c \in ClientStates /\ c.at = a /\ c.h = h
      /\ c.xid = cl[p].xid /\ c.got = cl[p].got
  BY <1>2, <1>3 DEF ClientStates
<1>5. OnlyHandle(cku', h)
  <2>1. CASE UNCHANGED cku
    BY <1>1, <2>1, SameHandles
  <2>2. CASE WaitForBuffer(p)
    <3> DEFINE x == [cku[h] EXCEPT !.wanted = TRUE]
    <3>1. x \in HandleStates /\ x.inuse /\ x.rcv = cku[h].rcv
      BY <1>2 DEF HandleStates
    <3>2. Fewer(x.rcv, cku[h].rcv)
      BY <3>1 DEF Fewer
    <3>3. cku' = [cku EXCEPT ![h] = x]
      BY <2>2 DEF WaitForBuffer
    <3> QED BY <1>1, <3>1, <3>2, <3>3, HandleAltered
  <2>3. CASE FlushReplies(p)
    <3> DEFINE x == [cku[h] EXCEPT !.rcv = <<>>]
    <3>0. <<>> \in Seq(Replies)
      OBVIOUS
    <3>1. x \in HandleStates /\ x.inuse /\ x.rcv = <<>>
      BY <1>2, <3>0 DEF HandleStates
    <3>2. Fewer(x.rcv, cku[h].rcv)
      BY <3>1 DEF Fewer
    <3>3. cku' = [cku EXCEPT ![h] = x]
      BY <2>3 DEF FlushReplies
    <3> QED BY <1>1, <3>1, <3>2, <3>3, HandleAltered
  <2> QED BY <2>1, <2>2, <2>3 DEF WaitForBuffer, FlushReplies, Lbolt, Answered
<1>6. NfsdsKept
  BY FreeRepliesKept, NfsdsSame DEF WaitForBuffer, FlushReplies, Lbolt, Answered, ReplyInv
<1>7. Calling
  BY <1>1, SilentCalling DEF ReplyInv
<1>8. a = "recv" => cku'[h].buf = cl[p].xid
  BY <1>3 DEF ReplyInv, SentItsCall
<1> HIDE DEF c
<1> QED BY <1>1, <1>3, <1>4, <1>5, <1>6, <1>7, <1>8, GoesOnKeeps

\* The request that is sent, or fails to be, has the transaction id of the call.
LEMMA SendKeeps ==
    ASSUME ReplyInv, NEW p \in Clients, Send(p)
    PROVE  ReplyInv'
<1> DEFINE h == cl[p].h
           m == Call(h, cl[p].xid, TRUE)
           fits == route = "wire" \/ Len(so) < QMax
           x == [cku[h] EXCEPT !.busy = fits, !.buf = cl[p].xid]
           c == [cl[p] EXCEPT !.at = "recv", !.rtries = RECVTRIES]
<1>1. cl[p].at # "idle"
  BY DEF Send
<1>2. h \in Handles /\ cku[h] \in HandleStates /\ cku[h].inuse /\ cl[p] \in ClientStates
  BY <1>1, InCall
<1>3. /\ cku' = [cku EXCEPT ![h].busy = fits, ![h].buf = cl[p].xid]
      /\ cl' = [cl EXCEPT ![p].at = "recv", ![p].rtries = RECVTRIES]
      /\ out' = IF route = "wire" THEN out \cup {m} ELSE out
      /\ so' = IF route = "loop" /\ fits THEN Append(so, m) ELSE so
      /\ UNCHANGED <<ops, net, ud, there, log>>
  BY DEF Send
<1>4. m \in Requests
  BY <1>2 DEF Requests, Call, ClientStates
<1>5. Calling
  <2>1. Append(so, m) \in Seq(Requests)
    BY <1>4, AppendProperties DEF ReplyInv, Typed
  <2>2. Len(ops) \in Nat
    BY LenProperties DEF ReplyInv, Typed
  <2>3. m.kind = "call" /\ m \in Mail
    BY <1>4 DEF Requests, Mail
  <2> HIDE DEF m, fits
  <2> QED BY <1>3, <2>1, <2>2, <2>3 DEF Calling, ReplyInv, Typed
<1>6. /\ c \in ClientStates /\ c.at = "recv" /\ c.h = h /\ c.xid = cl[p].xid
      /\ c.got = cl[p].got
  BY <1>2 DEF ClientStates, RECVTRIES
<1>7. cl' = [cl EXCEPT ![p] = c]
  BY <1>3 DEF ReplyInv, Typed
<1>8. cku' = [cku EXCEPT ![h] = x]
  <2> HIDE DEF fits
  <2> QED BY <1>2, <1>3 DEF ReplyInv, Typed
<1>9. x \in HandleStates /\ x.inuse /\ x.rcv = cku[h].rcv /\ x.buf = cl[p].xid
  <2>1. fits \in BOOLEAN /\ cl[p].xid \in Nat
    BY <1>2 DEF ClientStates
  <2> HIDE DEF fits
  <2> QED BY <1>2, <2>1 DEF HandleStates
<1>10. OnlyHandle(cku', h)
  <2>1. Fewer(x.rcv, cku[h].rcv)
    BY <1>9 DEF Fewer
  <2> HIDE DEF x
  <2> QED BY <1>1, <1>8, <1>9, <2>1, HandleAltered
<1>11. cku'[h].buf = cl[p].xid
  <2> HIDE DEF x
  <2> QED BY <1>2, <1>8, <1>9 DEF ReplyInv, Typed
<1>12. NfsdsKept
  BY <1>3, NfsdsSame DEF ReplyInv
<1> HIDE DEF c, x
<1> QED BY <1>1, <1>3, <1>5, <1>6, <1>7, <1>10, <1>11, <1>12, GoesOnKeeps

\* What a datagram says was done
LEMMA SaysSaid ==
    ASSUME ReplyInv, NEW m \in Replies, Honest(m)
    PROVE  Says(m) \in Answers /\ Said(Says(m))
<1>1. CASE m.ref
  <2>1. m.s \in Servers /\ Says(m) = ud[m.s].buf
    BY <1>1 DEF Replies, Says
  <2> QED BY <2>1 DEF ReplyInv, Typed, NfsdStates, AllHonest, Serving
<1>2. CASE ~m.ref
  BY <1>2 DEF Says, Replies, Answers, Honest
<1> QED BY <1>1, <1>2

\* And so for the replies in the socket of a client
LEMMA SaysDone ==
    ASSUME ReplyInv, NEW h \in Handles, NEW i \in DOMAIN cku[h].rcv
    PROVE  LET r == Says(cku[h].rcv[i]) IN
           r \in Answers /\ (r # NoReply => Done(r.xid, r.ok))
<1>1. cku[h].rcv \in Seq(Replies)
  BY DEF ReplyInv, Typed, HandleStates
<1>2. cku[h].rcv[i] \in Replies /\ Honest(cku[h].rcv[i])
  BY <1>1, ElementOfSeq, LenProperties DEF ReplyInv, AllHonest, SocketsHonest
<1> QED BY <1>2, SaysSaid DEF Said

\* A good reply has the transaction id of the buffer, which is that of the call.
LEMMA AcceptKeeps ==
    ASSUME ReplyInv, NEW p \in Clients, Accept(p)
    PROVE  ReplyInv'
<1> DEFINE h == cl[p].h
           x == [cku[h] EXCEPT !.rcv = <<>>]
           k == [cku EXCEPT ![h].rcv = <<>>]
<1>1. cl[p].at = "recv" /\ cl[p].at # "idle" /\ Silent /\ UNCHANGED ops
  BY DEF Accept, Silent
<1>2. /\ h \in Handles /\ cku[h] \in HandleStates /\ cku[h].inuse
      /\ cku[h].buf = cl[p].xid /\ cl[p].xid \in 1 .. Len(ops)
  BY <1>1, InCall DEF ReplyInv, SentItsCall
<1>3. PICK i \in Match(h) : Finish(p, k, Says(cku[h].rcv[i]))
  BY DEF Accept
<1> DEFINE r == Says(cku[h].rcv[i])
<1>4. i \in DOMAIN cku[h].rcv /\ r.xid = cku[h].buf
  BY <1>3 DEF Match
<1>5. r \in Answers /\ (r # NoReply => Done(r.xid, r.ok))
  BY <1>2, <1>4, SaysDone
<1>6. OnlyHandle(k, h)
  <2>0. <<>> \in Seq(Replies)
    OBVIOUS
  <2>1. x \in HandleStates /\ x.inuse /\ x.rcv = <<>>
    BY <1>2, <2>0 DEF HandleStates
  <2>2. Fewer(x.rcv, cku[h].rcv)
    BY <2>1 DEF Fewer
  <2>3. k = [cku EXCEPT ![h] = x]
    OBVIOUS
  <2> HIDE DEF x, k
  <2> QED BY <1>1, <2>1, <2>2, <2>3, HandleAltered
<1>7. NfsdsKept
  BY FreeRepliesKept DEF Accept, ReplyInv
<1> HIDE DEF r, k
<1> QED BY <1>1, <1>2, <1>3, <1>4, <1>5, <1>6, <1>7, FinishKeeps DEF r

\* A try fails: nothing could be sent, too many other replies, a timeout
LEMMA FailKeeps ==
    ASSUME ReplyInv, NEW p \in Clients, CantSend(p) \/ CantRecv(p) \/ TimedOut(p)
    PROVE  ReplyInv'
<1> DEFINE h == cl[p].h
<1>1. cl[p].at # "idle" /\ Silent
  BY DEF CantSend, CantRecv, TimedOut, Woke, Silent
<1>2. /\ h \in Handles /\ cku[h] \in HandleStates /\ cku[h].inuse /\ cl[p] \in ClientStates
  BY <1>1, InCall
<1>3. NfsdsKept
  BY FreeRepliesKept, NfsdsSame DEF CantSend, CantRecv, TimedOut, ReplyInv
<1>4. CASE CantSend(p)
  <2> DEFINE x == [cku[h] EXCEPT !.buf = cl[p].xid]
             k == [cku EXCEPT ![h].buf = cl[p].xid]
  <2>1. cl[p].xid \in Nat
    BY <1>2 DEF ClientStates
  <2>2. x \in HandleStates /\ x.inuse /\ x.rcv = cku[h].rcv /\ k = [cku EXCEPT ![h] = x]
    BY <1>2, <2>1 DEF HandleStates
  <2>3. Fewer(x.rcv, cku[h].rcv)
    BY <2>2 DEF Fewer
  <2>4. Failed(p, k, "lbolt")
    BY <1>4 DEF CantSend
  <2> HIDE DEF x, k
  <2>5. OnlyHandle(k, h)
    BY <1>1, <2>2, <2>3, HandleAltered
  <2> QED BY <1>1, <1>3, <2>4, <2>5, FailedKeeps
<1>5. CASE CantRecv(p)
  <2> DEFINE n == cl[p].rtries
             x == [cku[h] EXCEPT !.rcv = SubSeq(cku[h].rcv, n + 1, Len(cku[h].rcv))]
             k == [cku EXCEPT ![h].rcv = SubSeq(@, n + 1, Len(@))]
  <2>1. n \in Nat /\ n <= Len(cku[h].rcv) /\ cku[h].rcv \in Seq(Replies)
    <3>1. n \in Nat /\ cku[h].rcv \in Seq(Replies)
      BY <1>2 DEF ClientStates, HandleStates
    <3> QED BY <1>5, <3>1, LenProperties DEF CantRecv
  <2>2. /\ SubSeq(cku[h].rcv, n + 1, Len(cku[h].rcv)) \in Seq(Replies)
        /\ Fewer(SubSeq(cku[h].rcv, n + 1, Len(cku[h].rcv)), cku[h].rcv)
    <3> HIDE DEF n
    <3> QED BY <2>1, FewerParts
  <2>3. k = [cku EXCEPT ![h] = x]
    OBVIOUS
  <2>4. /\ x \in HandleStates /\ x.inuse
        /\ x.rcv = SubSeq(cku[h].rcv, n + 1, Len(cku[h].rcv))
    <3> HIDE DEF n
    <3> QED BY <1>2, <2>2 DEF HandleStates
  <2>5. Failed(p, k, "again")
    BY <1>5 DEF CantRecv
  <2> HIDE DEF x, k, n
  <2>6. OnlyHandle(k, h)
    BY <1>1, <2>2, <2>3, <2>4, HandleAltered
  <2> QED BY <1>1, <1>3, <2>5, <2>6, FailedKeeps
<1>6. CASE TimedOut(p)
  <2> DEFINE x == [cku[h] EXCEPT !.timedout = FALSE]
             k == [cku EXCEPT ![h].timedout = FALSE]
  <2>1. x \in HandleStates /\ x.inuse /\ x.rcv = cku[h].rcv /\ k = [cku EXCEPT ![h] = x]
    BY <1>2 DEF HandleStates
  <2>2. Fewer(x.rcv, cku[h].rcv)
    BY <2>1 DEF Fewer
  <2>3. Failed(p, k, "again")
    BY <1>6 DEF TimedOut
  <2> HIDE DEF x, k
  <2>4. OnlyHandle(k, h)
    BY <1>1, <2>1, <2>2, HandleAltered
  <2> QED BY <1>1, <1>3, <2>3, <2>4, FailedKeeps
<1> QED BY <1>4, <1>5, <1>6

\* The socket is empty, and the client sleeps
LEMMA WaitForReplyKeeps ==
    ASSUME ReplyInv, NEW p \in Clients, WaitForReply(p)
    PROVE  ReplyInv'
<1> DEFINE h == cl[p].h
           x == [cku[h] EXCEPT !.rcv = <<>>]
           c == [cl[p] EXCEPT !.at = "reply", !.rtries = cl[p].rtries - Len(cku[h].rcv)]
<1>1. cl[p].at = "recv" /\ cl[p].at # "idle" /\ Silent /\ UNCHANGED ops
  BY DEF WaitForReply, Silent
<1>2. /\ h \in Handles /\ cku[h] \in HandleStates /\ cku[h].inuse
      /\ cku[h].buf = cl[p].xid /\ cl[p] \in ClientStates
  BY <1>1, InCall DEF ReplyInv, SentItsCall
<1>3. /\ cku' = [cku EXCEPT ![h].rcv = <<>>] /\ Len(cku[h].rcv) < cl[p].rtries
      /\ cl' = [cl EXCEPT ![p].at = "reply", ![p].rtries = @ - Len(cku[h].rcv)]
  BY DEF WaitForReply
<1>4. cl[p].rtries - Len(cku[h].rcv) \in Nat
  <2>1. Len(cku[h].rcv) \in Nat /\ cl[p].rtries \in Nat
    BY <1>2, LenProperties DEF HandleStates, ClientStates
  <2>2. Len(cku[h].rcv) < cl[p].rtries
    BY <1>3
  <2>3. \A a, b \in Nat : a < b => b - a \in Nat
    OBVIOUS
  <2> QED BY <2>1, <2>2, <2>3
<1>5. c \in ClientStates /\ c.at = "reply" /\ c.h = h /\ c.xid = cl[p].xid /\ c.got = cl[p].got
  BY <1>2, <1>4 DEF ClientStates
<1>6. cl' = [cl EXCEPT ![p] = c]
  BY <1>3 DEF ReplyInv, Typed
<1>7. x \in HandleStates /\ x.inuse /\ x.rcv = <<>> /\ x.buf = cl[p].xid
  <2>1. <<>> \in Seq(Replies)
    OBVIOUS
  <2> QED BY <1>2, <2>1 DEF HandleStates
<1>8. Fewer(x.rcv, cku[h].rcv)
  BY <1>7 DEF Fewer
<1>9. cku' = [cku EXCEPT ![h] = x]
  BY <1>3
<1>10. NfsdsKept
  BY FreeRepliesKept DEF WaitForReply, ReplyInv
<1>11. Calling
  BY <1>1, SilentCalling DEF ReplyInv
<1> HIDE DEF x, c
<1>12. OnlyHandle(cku', h)
  BY <1>1, <1>7, <1>8, <1>9, HandleAltered
<1>13. cku'[h].buf = cl[p].xid
  BY <1>2, <1>7, <1>9 DEF ReplyInv, Typed
<1> QED BY <1>1, <1>5, <1>6, <1>10, <1>11, <1>12, <1>13, GoesOnKeeps

\* ckuwakeup only sets a flag of the handle.
LEMMA TimeoutKeeps ==
    ASSUME ReplyInv, NEW p \in Clients, Timeout(p)
    PROVE  ReplyInv'
<1> DEFINE h == cl[p].h
           x == [cku[h] EXCEPT !.timedout = TRUE]
<1>1. /\ cl[p].at = "reply" /\ cl[p].at # "idle" /\ Silent /\ UNCHANGED <<ops, ud, cl>>
      /\ cku' = [cku EXCEPT ![h] = x]
  BY DEF Timeout, Silent
<1>2. /\ h \in Handles /\ cku[h] \in HandleStates /\ cku[h].inuse
      /\ cku[h].buf = cl[p].xid /\ cl[p] \in ClientStates
  BY <1>1, InCall DEF ReplyInv, SentItsCall
<1>3. x \in HandleStates /\ x.inuse /\ x.rcv = cku[h].rcv /\ x.buf = cl[p].xid
  BY <1>2 DEF HandleStates
<1>4. Fewer(x.rcv, cku[h].rcv)
  BY <1>3 DEF Fewer
<1> HIDE DEF x
<1>5. OnlyHandle(cku', h) /\ cku'[h].buf = cl[p].xid
  BY <1>1, <1>2, <1>3, <1>4, HandleAltered DEF ReplyInv, Typed
<1>6. cl' = [cl EXCEPT ![p] = cl[p]]
  BY <1>1 DEF ReplyInv, Typed
<1>7. Calling /\ NfsdsKept
  BY <1>1, SilentCalling, NfsdsSame DEF ReplyInv
<1> QED BY <1>1, <1>2, <1>5, <1>6, <1>7, GoesOnKeeps

-------------------------------------------------------------------------------
(* The wire and the nfsds                                                  *)

\* The clients and what is in their buffers stay as they are
LEMMA MailKeeps ==
    ASSUME ReplyInv, UNCHANGED <<cl, ops>>, Typed', AllHonest',
           \A h \in Handles : cku'[h].inuse = cku[h].inuse /\ cku'[h].buf = cku[h].buf,
           \A x, ok : Done(x, ok) => Done(x, ok)'
    PROVE  ReplyInv'
<1>1. \A p \in Clients : HasHandle(p)' /\ SentItsCall(p)'
  BY DEF ReplyInv, HasHandle, SentItsCall
<1>2. HandlesApart'
  BY DEF ReplyInv, HandlesApart
<1>3. RightReply'
  <2> SUFFICES ASSUME NEW p \in Clients, cl'[p].got # NoReply
               PROVE  cl'[p].got.xid = cl'[p].xid /\ Done(cl[p].got.xid, cl[p].got.ok)'
    BY DEF RightReply, Done
  <2>1. cl[p].got.xid = cl[p].xid /\ Done(cl[p].got.xid, cl[p].got.ok)
    BY DEF ReplyInv, RightReply, Done
  <2> QED BY <2>1
<1> QED BY <1>1, <1>2, <1>3 DEF ReplyInv

\* buffree of a request leaves the handle in use, its transaction id and its socket.
LEMMA FreeCallKept ==
    ASSUME Typed, NEW m \in Requests
    PROVE  /\ FreeCall(m) \in [Handles -> HandleStates]
           /\ \A h \in Handles : /\ FreeCall(m)[h].inuse = cku[h].inuse
                                 /\ FreeCall(m)[h].buf = cku[h].buf
                                 /\ FreeCall(m)[h].rcv = cku[h].rcv
<1>1. CASE ~m.ref
  BY <1>1 DEF FreeCall, Typed
<1>2. CASE m.ref
  <2> DEFINE x == [cku[m.h] EXCEPT !.busy = FALSE, !.wanted = FALSE]
  <2>1. m.h \in Handles /\ cku[m.h] \in HandleStates
    BY DEF Requests, Typed
  <2>2. x \in HandleStates /\ x.inuse = cku[m.h].inuse /\ x.buf = cku[m.h].buf /\ x.rcv = cku[m.h].rcv
    BY <2>1 DEF HandleStates
  <2>3. FreeCall(m) = [cku EXCEPT ![m.h] = x]
    BY <1>2, <2>1 DEF FreeCall, Typed
  <2> HIDE DEF x
  <2> QED BY <2>1, <2>2, <2>3 DEF Typed
<1> QED BY <1>1, <1>2

\* What a request says is a transaction id, also when it refers to the buffer.
LEMMA XidNat ==
    ASSUME Typed, NEW m \in Requests
    PROVE  XidOf(m) \in Nat
BY DEF Typed, Requests, XidOf, HandleStates

\* The nfsds serve what they served, and what they sent was done
LEMMA ServingKept ==
    ASSUME ReplyInv, NfsdsKept, UNCHANGED log
    PROVE  \A s \in Servers : Serving(s)'
BY DEF ReplyInv, AllHonest, Serving, Said, Done, NfsdsKept

\* The driver sends what the buffer of the nfsd says, which was done.
LEMMA TransmitKeeps ==
    ASSUME ReplyInv, NEW m \in out, Transmit(m)
    PROVE  ReplyInv'
<1>1. /\ out' = out \ {m} /\ UNCHANGED <<ops, so, cl, there, log>>
      /\ \A x, ok : Done(x, ok)' <=> Done(x, ok)
  BY DEF Transmit, Done
<1>2. m \in Mail /\ Honest(m)
  BY DEF ReplyInv, Typed, AllHonest, MailHonest
<1>3. CASE m.kind = "call"
  <2> DEFINE n == Call(m.h, XidOf(m), FALSE)
  <2>1. m \in Requests
    BY <1>2, <1>3 DEF Mail, Requests, Replies
  <2>2. net' = net \cup {n} /\ cku' = FreeCall(m) /\ UNCHANGED ud
    BY <1>3 DEF Transmit
  <2>3. n \in Mail /\ n.kind = "call"
    BY <2>1, XidNat DEF ReplyInv, Mail, Requests, Call
  <2> HIDE DEF n
  <2>4. /\ cku' \in [Handles -> HandleStates]
        /\ \A h \in Handles : /\ cku'[h].inuse = cku[h].inuse
                              /\ cku'[h].buf = cku[h].buf /\ cku'[h].rcv = cku[h].rcv
    BY <2>1, <2>2, FreeCallKept DEF ReplyInv
  <2>5. Typed'
    BY <1>1, <2>2, <2>3, <2>4 DEF ReplyInv, Typed
  <2>6. AllHonest'
    <3>1. MailHonest'
      BY <1>1, <2>2, <2>3 DEF ReplyInv, AllHonest, MailHonest, Honest, Said
    <3>2. SocketsHonest'
      BY <1>1, <2>4 DEF ReplyInv, AllHonest, SocketsHonest, Honest, Said
    <3>3. NfsdsKept
      BY <2>2, NfsdsSame DEF ReplyInv
    <3> QED BY <1>1, <3>1, <3>2, <3>3, ServingKept DEF AllHonest
  <2> QED BY <1>1, <2>4, <2>5, <2>6, MailKeeps
<1>4. CASE m.kind # "call"
  <2> DEFINE n == Reply(m.s, m.h, Says(m).xid, Says(m).ok, FALSE)
  <2>1. m \in Replies
    BY <1>2, <1>4 DEF Mail, Requests, Replies
  <2>2. net' = net \cup {n} /\ ud' = FreeReplies({m}) /\ UNCHANGED cku
    BY <1>4 DEF Transmit
  <2>3. Says(m) \in Answers /\ Said(Says(m))
    BY <1>2, <2>1, SaysSaid
  <2>4. n \in Mail /\ ~n.ref /\ [xid |-> n.xid, ok |-> n.ok] = Says(m)
    BY <2>1, <2>3 DEF Mail, Replies, Reply, Answers
  <2> HIDE DEF n
  <2>5. NfsdsKept
    BY <2>2, FreeRepliesKept DEF ReplyInv
  <2>6. Typed'
    BY <1>1, <2>2, <2>4, <2>5 DEF ReplyInv, Typed, NfsdsKept
  <2>7. AllHonest'
    <3>1. MailHonest'
      BY <1>1, <2>2, <2>3, <2>4 DEF ReplyInv, AllHonest, MailHonest, Honest, Said
    <3>2. SocketsHonest'
      BY <1>1, <2>2 DEF ReplyInv, AllHonest, SocketsHonest, Honest, Said
    <3> QED BY <1>1, <2>5, <3>1, <3>2, ServingKept DEF AllHonest
  <2> QED BY <1>1, <2>2, <2>6, <2>7, MailKeeps
<1> QED BY <1>3, <1>4

\* A reply comes to the socket of handle h
LEMMA ReplyComes ==
    ASSUME ReplyInv, NEW h \in Handles, NEW m \in Replies,
           NEW k \in [Handles -> HandleStates], \A g \in Handles : /\ k[g].inuse = cku[g].inuse
                                                                   /\ k[g].buf = cku[g].buf
                                                                   /\ k[g].rcv = cku[g].rcv,
           cku' = [k EXCEPT ![h].rcv = Append(@, m)],
           \A x, ok : Done(x, ok) => Done(x, ok)', Honest(m)'
    PROVE  /\ cku' \in [Handles -> HandleStates] /\ SocketsHonest'
           /\ \A g \in Handles : cku'[g].inuse = cku[g].inuse /\ cku'[g].buf = cku[g].buf
<1> DEFINE c == cku[h].rcv
           x == [k[h] EXCEPT !.rcv = Append(c, m)]
<1>1. c \in Seq(Replies) /\ k[h] \in HandleStates
  BY DEF ReplyInv, Typed, HandleStates
<1>2. /\ Append(c, m) \in Seq(Replies)
      /\ \A i \in DOMAIN Append(c, m) :
            Append(c, m)[i] = m \/ (i \in DOMAIN c /\ Append(c, m)[i] = c[i])
  <2> HIDE DEF c
  <2> QED BY <1>1
<1> HIDE DEF c
<1>3. /\ x \in HandleStates /\ x.inuse = cku[h].inuse /\ x.buf = cku[h].buf
      /\ x.rcv = Append(c, m)
  BY <1>1, <1>2 DEF HandleStates
<1>4. cku' = [k EXCEPT ![h] = x]
  BY DEF c
<1> HIDE DEF x
<1>5. /\ cku' \in [Handles -> HandleStates]
      /\ \A g \in Handles : cku'[g].inuse = cku[g].inuse /\ cku'[g].buf = cku[g].buf
  BY <1>3, <1>4
<1>6. SocketsHonest'
  <2> SUFFICES ASSUME NEW g \in Handles, NEW i \in DOMAIN cku'[g].rcv
               PROVE  Honest(cku[g].rcv[i])'
    BY DEF SocketsHonest
  <2>1. CASE g = h /\ cku'[g].rcv[i] = m
    BY <2>1 DEF Honest
  <2>2. CASE ~(g = h /\ cku'[g].rcv[i] = m)
    <3>1. i \in DOMAIN cku[g].rcv /\ cku'[g].rcv[i] = cku[g].rcv[i]
      BY <1>2, <1>3, <1>4, <2>2 DEF c
    <3>2. Honest(cku[g].rcv[i])
      BY <3>1 DEF ReplyInv, AllHonest, SocketsHonest
    <3> QED BY <3>1, <3>2 DEF Honest, Said
  <2> QED BY <2>1, <2>2
<1> QED BY <1>5, <1>6

\* udp_input puts an honest reply into a socket.
LEMMA DeliverKeeps ==
    ASSUME ReplyInv, NEW m \in net, Deliver(m)
    PROVE  ReplyInv'
<1>1. /\ net' = net \ {m} /\ UNCHANGED <<ops, out, cl, ud, there, log>>
      /\ \A x, ok : Done(x, ok)' <=> Done(x, ok)
  BY DEF Deliver, Done
<1>2. m \in Mail /\ Honest(m)
  BY DEF ReplyInv, Typed, AllHonest, MailHonest
<1>3. MailHonest' /\ \A s \in Servers : Serving(s)'
  <2>1. NfsdsKept
    BY <1>1, NfsdsSame DEF ReplyInv
  <2> QED BY <1>1, <2>1, ServingKept DEF ReplyInv, AllHonest, MailHonest, Honest, Said
<1>4. CASE m.kind = "call"
  <2>1. m \in Requests
    BY <1>2, <1>4 DEF Mail, Requests, Replies
  <2>2. so' \in Seq(Requests) /\ UNCHANGED cku
    <3>1. so \in Seq(Requests) /\ Append(so, m) \in Seq(Requests)
      BY <2>1, AppendProperties DEF ReplyInv, Typed
    <3>2. (so' = so \/ so' = Append(so, m)) /\ UNCHANGED cku
      BY <1>4 DEF Deliver
    <3> QED BY <3>1, <3>2
  <2>3. Typed'
    BY <1>1, <2>2 DEF ReplyInv, Typed
  <2>4. SocketsHonest'
    BY <1>1, <2>2 DEF ReplyInv, AllHonest, SocketsHonest, Honest, Said
  <2> QED BY <1>1, <1>3, <2>2, <2>3, <2>4, MailKeeps DEF AllHonest
<1>5. CASE m.kind # "call"
  <2>1. m \in Replies /\ m.h \in Handles
    BY <1>2, <1>5 DEF Mail, Requests, Replies
  <2>2. cku' = [cku EXCEPT ![m.h].rcv = Append(@, m)] /\ UNCHANGED so
    BY <1>5 DEF Deliver
  <2>3. Honest(m)'
    BY <1>1, <1>2 DEF Honest, Said
  <2>4. /\ cku' \in [Handles -> HandleStates] /\ SocketsHonest'
        /\ \A g \in Handles : cku'[g].inuse = cku[g].inuse /\ cku'[g].buf = cku[g].buf
    <3>1. cku \in [Handles -> HandleStates]
      BY DEF ReplyInv, Typed
    <3> QED BY <1>1, <2>1, <2>2, <2>3, <3>1, ReplyComes
  <2>5. Typed'
    BY <1>1, <2>2, <2>4 DEF ReplyInv, Typed
  <2> QED BY <1>1, <1>3, <2>4, <2>5, MailKeeps DEF AllHonest
<1> QED BY <1>4, <1>5

\* An nfsd takes a request from the socket
LEMMA RecvKeeps ==
    ASSUME ReplyInv, NEW s \in Servers, Recv(s)
    PROVE  ReplyInv'
<1> DEFINE m == Head(so)
           d == ops[XidOf(m)] = "write" /\ Dup(XidOf(m))
           u == [ud[s] EXCEPT !.at = "vop", !.req = m, !.xid = XidOf(m), !.dup = d]
<1>1. /\ so # <<>> /\ so' = Tail(so)
      /\ ud' = [ud EXCEPT ![s].at = "vop", ![s].req = m, ![s].xid = XidOf(m), ![s].dup = d]
      /\ UNCHANGED <<ops, out, net, cku, cl, there, log>>
  BY DEF Recv
<1>2. m \in Requests /\ so' \in Seq(Requests)
  BY <1>1, HeadTailProperties DEF ReplyInv, Typed
<1>3. XidOf(m) \in Nat
  BY <1>2, XidNat DEF ReplyInv
<1>4. d \in BOOLEAN
  OBVIOUS
<1> HIDE DEF m, d
<1>5. ud[s] \in NfsdStates
  BY DEF ReplyInv, Typed
<1>6. u \in NfsdStates /\ u.at = "vop" /\ u.req \in Requests /\ u.buf = ud[s].buf
  BY <1>2, <1>3, <1>4, <1>5 DEF NfsdStates
<1>7. ud' = [ud EXCEPT ![s] = u]
  BY <1>1 DEF ReplyInv, Typed
<1> HIDE DEF u
<1>8. Typed'
  <2>1. ud' \in [Servers -> NfsdStates]
    BY <1>6, <1>7 DEF ReplyInv, Typed
  <2>2. Typed
    BY DEF ReplyInv
  <2> QED BY <1>1, <1>2, <2>1, <2>2 DEF Typed
<1>9. \A x, ok : Done(x, ok)' <=> Done(x, ok)
  BY <1>1 DEF Done
<1>10. MailHonest' /\ SocketsHonest'
  BY <1>1, <1>9 DEF ReplyInv, AllHonest, MailHonest, SocketsHonest, Honest, Said
<1>11. ASSUME NEW r \in Servers PROVE Serving(r)'
  <2>1. Serving(r)
    BY DEF ReplyInv, AllHonest
  <2>2. ud'[r] = IF r = s THEN u ELSE ud[r]
    BY <1>7 DEF ReplyInv, Typed
  <2> QED BY <1>5, <1>6, <1>9, <2>1, <2>2 DEF Serving, Said
<1> QED BY <1>1, <1>8, <1>9, <1>10, <1>11, MailKeeps DEF AllHonest

\* An nfsd replies with something it did, or fails to
LEMMA ReplyKeeps ==
    ASSUME ReplyInv, NEW s \in Servers, ud[s].req \in Requests, NEW x \in Nat,
           NEW ok \in BOOLEAN, NEW k \in [Handles -> HandleStates],
           \A g \in Handles : /\ k[g].inuse = cku[g].inuse /\ k[g].buf = cku[g].buf
                              /\ k[g].rcv = cku[g].rcv,
           NEW W, SendReply(s, ud, x, ok, k, W), UNCHANGED <<ops, net, so, cl>>,
           there' \in BOOLEAN, log' \in Seq([xid : Nat, ran : BOOLEAN, ok : BOOLEAN]),
           \A y, o : Done(y, o) => Done(y, o)', Done(x, ok)'
    PROVE  ReplyInv'
<1> DEFINE u == ud'[s]
<1>0. PICK h \in Handles : h = ud[s].req.h
  BY DEF Requests
<1>1. ud[s] \in NfsdStates /\ ud \in [Servers -> NfsdStates]
  BY DEF ReplyInv, Typed
<1>2. PICK b \in BOOLEAN :
          ud' = [ud EXCEPT ![s].at = "idle", ![s].busy = b, ![s].buf = [xid |-> x, ok |-> ok]]
  <2> DEFINE sent == [ud EXCEPT ![s].at = "idle", ![s].busy = TRUE,
                                ![s].buf = [xid |-> x, ok |-> ok]]
  <2>1. ud' = sent \/ ud' = [sent EXCEPT ![s].busy = FALSE]
    BY DEF SendReply
  <2>2. CASE ud' = sent
    BY <2>2
  <2>3. CASE ud' = [sent EXCEPT ![s].busy = FALSE]
    <3>1. ud' = [ud EXCEPT ![s].at = "idle", ![s].busy = FALSE,
                           ![s].buf = [xid |-> x, ok |-> ok]]
      BY <1>1, <2>3 DEF NfsdStates
    <3> QED BY <3>1
  <2> QED BY <2>1, <2>2, <2>3
<1>3. /\ u \in NfsdStates /\ u.at = "idle" /\ u.buf = [xid |-> x, ok |-> ok]
      /\ \A r \in Servers \ {s} : ud'[r] = ud[r]
  <2>1. u = [ud[s] EXCEPT !.at = "idle", !.busy = b, !.buf = [xid |-> x, ok |-> ok]]
    BY <1>1, <1>2
  <2>2. [xid |-> x, ok |-> ok] \in Answers
    BY DEF Answers
  <2> QED BY <1>1, <1>2, <2>1, <2>2 DEF NfsdStates
<1>4. ud' \in [Servers -> NfsdStates]
  <2> HIDE DEF u
  <2> QED BY <1>1, <1>2, <1>3 DEF u
<1>5. PICK m \in Replies : m = Reply(s, h, x, ok, TRUE) /\ m.ref
  <2>1. Reply(s, h, x, ok, TRUE) \in Replies /\ Reply(s, h, x, ok, TRUE).ref
    BY DEF Reply, Replies
  <2> QED BY <2>1
<1>6. Honest(m)'
  BY <1>5 DEF Honest
<1> HIDE DEF u
<1>7. out' \in {out, out \cup {m}} /\ (cku' = k \/ cku' = [k EXCEPT ![h].rcv = Append(@, m)])
  BY <1>0, <1>5 DEF SendReply
<1>8. /\ cku' \in [Handles -> HandleStates] /\ SocketsHonest'
      /\ \A g \in Handles : cku'[g].inuse = cku[g].inuse /\ cku'[g].buf = cku[g].buf
  <2>1. CASE cku' = k
    BY <2>1 DEF ReplyInv, AllHonest, SocketsHonest, Honest, Said
  <2>2. CASE cku' = [k EXCEPT ![h].rcv = Append(@, m)]
    BY <1>6, <2>2, ReplyComes
  <2> QED BY <1>7, <2>1, <2>2
<1>9. Typed'
  <2>1. out' \subseteq Mail
    BY <1>5, <1>7 DEF ReplyInv, Typed, Mail
  <2> QED BY <1>4, <1>8, <2>1 DEF ReplyInv, Typed
<1>10. MailHonest'
  BY <1>6, <1>7 DEF ReplyInv, AllHonest, MailHonest, Honest, Said
<1>11. ASSUME NEW r \in Servers PROVE Serving(r)'
  <2>1. CASE r = s
    BY <1>3, <2>1 DEF Serving, Said, u
  <2>2. CASE r # s
    BY <1>3, <2>2 DEF ReplyInv, AllHonest, Serving, Said
  <2> QED BY <2>1, <2>2
<1> QED BY <1>8, <1>9, <1>10, <1>11, MailKeeps DEF AllHonest

\* An nfsd whose buffer is free sends the reply that it kept.
LEMMA SendNowKeeps ==
    ASSUME ReplyInv, NEW s \in Servers, SendNow(s)
    PROVE  ReplyInv'
<1>1. /\ ud[s].at = "send" /\ SendReply(s, ud, ud[s].xid, ud[s].ok, cku, {})
      /\ UNCHANGED <<ops, net, so, cl, there, log>>
  BY DEF SendNow
<1>2. /\ ud[s].req \in Requests /\ Done(ud[s].xid, ud[s].ok)
      /\ ud[s].xid \in Nat /\ ud[s].ok \in BOOLEAN
  BY <1>1 DEF ReplyInv, Typed, NfsdStates, AllHonest, Serving
<1>3. /\ cku \in [Handles -> HandleStates] /\ there \in BOOLEAN
      /\ log \in Seq([xid : Nat, ran : BOOLEAN, ok : BOOLEAN])
  BY DEF ReplyInv, Typed
<1>4. \A y, o : Done(y, o)' <=> Done(y, o)
  BY <1>1 DEF Done
<1> QED BY <1>1, <1>2, <1>3, <1>4, ReplyKeeps

\* A call was done, and the nfsd replies or waits for its buffer
LEMMA ServedKeeps ==
    ASSUME ReplyInv, NEW s \in Servers, Served(s)
    PROVE  ReplyInv'
<1>1. ud[s].at = "vop" /\ UNCHANGED <<ops, net, so, cl>>
  BY DEF Served
<1>2. ud[s] \in NfsdStates /\ ud[s].req \in Requests /\ ud[s].xid \in Nat
  BY <1>1 DEF ReplyInv, Typed, NfsdStates, AllHonest, Serving
<1>3. PICK x \in Nat : x = ud[s].xid
  BY <1>2
<1>4. PICK ran \in BOOLEAN : ran = IF ops[x] = "write" THEN ~ud[s].dup ELSE there
  BY DEF ReplyInv, Typed
<1>5. PICK ok \in BOOLEAN : ok = (ops[x] = "write" \/ there \/ Dup(x))
  OBVIOUS
<1>6. PICK k \in [Handles -> HandleStates] :
         /\ k = FreeCall(ud[s].req)
         /\ \A g \in Handles : /\ k[g].inuse = cku[g].inuse /\ k[g].buf = cku[g].buf
                               /\ k[g].rcv = cku[g].rcv
  BY <1>2, FreeCallKept DEF ReplyInv
<1>7. PICK e \in [xid : Nat, ran : BOOLEAN, ok : BOOLEAN] :
         e = [xid |-> x, ran |-> ran, ok |-> ok] /\ e.xid = x /\ e.ok = ok
  <2> DEFINE done == [xid |-> x, ran |-> ran, ok |-> ok]
  <2>1. done \in [xid : Nat, ran : BOOLEAN, ok : BOOLEAN] /\ done.xid = x /\ done.ok = ok
    OBVIOUS
  <2> QED BY <2>1
<1> PICK W : W = FreeCallWakes(ud[s].req)
  OBVIOUS
<1>8. /\ log' = Append(log, e) /\ there' = (there /\ ops[x] = "write")
      /\ \/ /\ ud' = [ud EXCEPT ![s].at = "send", ![s].ok = ok, ![s].wanted = TRUE]
            /\ cku' = k /\ UNCHANGED out
         \/ SendReply(s, ud, x, ok, k, W)
  BY <1>3, <1>4, <1>5, <1>6, <1>7 DEF Served
<1>9. there' \in BOOLEAN
  BY <1>8
<1>10. /\ log' \in Seq([xid : Nat, ran : BOOLEAN, ok : BOOLEAN])
       /\ Len(log) \in Nat /\ DOMAIN log = 1 .. Len(log) /\ DOMAIN log' = 1 .. Len(log) + 1
       /\ log'[Len(log) + 1] = e /\ \A i \in 1 .. Len(log) : log'[i] = log[i]
  BY <1>8 DEF ReplyInv, Typed
<1>11. /\ \A y, o : Done(y, o) => Done(y, o)'
       /\ Done(x, ok)'
  <2>1. Len(log) + 1 \in DOMAIN log'
    BY <1>10
  <2> QED BY <1>7, <1>10, <2>1 DEF Done
<1>12. CASE SendReply(s, ud, x, ok, k, W)
  BY <1>1, <1>2, <1>6, <1>9, <1>10, <1>11, <1>12, ReplyKeeps
<1>13. CASE /\ ud' = [ud EXCEPT ![s].at = "send", ![s].ok = ok, ![s].wanted = TRUE]
            /\ cku' = k /\ UNCHANGED out
  <2>1. PICK u \in NfsdStates :
           /\ u = [ud[s] EXCEPT !.at = "send", !.ok = ok, !.wanted = TRUE]
           /\ u.at = "send" /\ u.req = ud[s].req /\ u.xid = x /\ u.ok = ok /\ u.buf = ud[s].buf
    <3> DEFINE v == [ud[s] EXCEPT !.at = "send", !.ok = ok, !.wanted = TRUE]
    <3>1. /\ v \in NfsdStates /\ v.at = "send" /\ v.req = ud[s].req
          /\ v.xid = x /\ v.ok = ok /\ v.buf = ud[s].buf
      BY <1>2, <1>3 DEF NfsdStates
    <3> QED BY <3>1
  <2>2. ud' = [ud EXCEPT ![s] = u]
    BY <1>13, <2>1 DEF ReplyInv, Typed
  <2>3. Typed'
    <3>1. ud' \in [Servers -> NfsdStates]
      BY <2>2 DEF ReplyInv, Typed
    <3> QED BY <1>1, <1>9, <1>10, <1>13, <3>1 DEF ReplyInv, Typed
  <2>4. MailHonest' /\ SocketsHonest'
    BY <1>1, <1>6, <1>11, <1>13
       DEF ReplyInv, AllHonest, MailHonest, SocketsHonest, Honest, Said
  <2>5. ASSUME NEW r \in Servers PROVE Serving(r)'
    <3>1. Serving(r)
      BY DEF ReplyInv, AllHonest
    <3>2. ud'[r] = IF r = s THEN u ELSE ud[r]
      BY <2>2 DEF ReplyInv, Typed
    <3> QED BY <1>2, <1>11, <2>1, <3>1, <3>2 DEF Serving, Said
  <2> QED BY <1>1, <1>6, <1>11, <1>13, <2>3, <2>4, <2>5, MailKeeps DEF AllHonest
<1> QED BY <1>8, <1>12, <1>13

\* wakeup and the queues of the drivers are of no account
LEMMA SameKeeps ==
    ASSUME ReplyInv, UNCHANGED <<out, net, so, cku, cl, ud, ops, there, log>>
    PROVE  ReplyInv'
BY DEF ReplyInv, Typed, HasHandle, SentItsCall, HandlesApart, AllHonest, MailHonest,
   SocketsHonest, Honest, Said, Done, Serving, RightReply

-------------------------------------------------------------------------------
(* The theorem                                                             *)

\* The invariant holds at first: nobody calls, and nothing was sent.
LEMMA ReplyInvInit == RpcInit => ReplyInv
<1> SUFFICES ASSUME RpcInit PROVE ReplyInv
  OBVIOUS
<1>1. \A p \in Clients : cl[p] \in ClientStates /\ cl[p].at = "idle" /\ cl[p].got = NoReply
  <2>1. NoReply \in Answers
    BY DEF NoReply, Answers
  <2>2. TAKE p \in Clients
  <2>3. cl[p] = [at |-> "idle", h |-> 0, xid |-> 0, stries |-> 0, rtries |-> 0, got |-> NoReply]
    BY DEF RpcInit
  <2>4. \A none \in Answers :
           [at |-> "idle", h |-> 0, xid |-> 0, stries |-> 0, rtries |-> 0, got |-> none]
             \in ClientStates
    BY DEF ClientStates
  <2> QED BY <2>1, <2>3, <2>4
<1>2. \A h \in Handles : cku[h] \in HandleStates /\ cku[h].rcv = <<>>
  <2>1. <<>> \in Seq(Replies)
    OBVIOUS
  <2> QED BY <2>1 DEF RpcInit, HandleStates
<1>3. \A s \in Servers : ud[s] \in NfsdStates /\ ud[s].at = "idle" /\ ud[s].buf = NoReply
  BY DEF RpcInit, NfsdStates, NoReply, Answers
<1>4. Typed
  <2>1. /\ ops \in Seq({"write", "remove"}) /\ so \in Seq(Requests)
        /\ log \in Seq([xid : Nat, ran : BOOLEAN, ok : BOOLEAN])
    BY DEF RpcInit
  <2>2. /\ cku \in [Handles -> HandleStates] /\ cl \in [Clients -> ClientStates]
        /\ ud \in [Servers -> NfsdStates]
    BY <1>1, <1>2, <1>3 DEF RpcInit
  <2> QED BY <2>1, <2>2 DEF RpcInit, Typed
<1>5. AllHonest
  BY <1>2, <1>3 DEF RpcInit, AllHonest, MailHonest, SocketsHonest, Serving, Said
<1> QED BY <1>1, <1>4, <1>5 DEF ReplyInv, HasHandle, SentItsCall, HandlesApart, RightReply

\* Every step keeps the invariant.
LEMMA ReplyInvNext == ReplyInv /\ [RpcNext]_<<rpcVars, wchan>> => ReplyInv'
<1> SUFFICES ASSUME ReplyInv, [RpcNext]_<<rpcVars, wchan>> PROVE ReplyInv'
  OBVIOUS
<1>1. ASSUME NEW p \in Clients, NEW op \in {"write", "remove"}, Start(p, op) PROVE ReplyInv'
  BY <1>1, StartKeeps
<1>2. ASSUME NEW p \in Clients, ClientTurn(p) PROVE ReplyInv'
  BY <1>2, WaitKeeps, SendKeeps, FailKeeps, AcceptKeeps, WaitForReplyKeeps DEF ClientTurn
<1>3. ASSUME NEW p \in Clients, Tick(p) PROVE ReplyInv'
  BY <1>3, SameKeeps DEF Tick, rpcVars
<1>4. ASSUME NEW p \in Clients, Timeout(p) PROVE ReplyInv'
  BY <1>4, TimeoutKeeps
<1>5. ASSUME NEW m \in out, Transmit(m) PROVE ReplyInv'
  BY <1>5, TransmitKeeps
<1>6. ASSUME NEW m \in net, Deliver(m) PROVE ReplyInv'
  BY <1>6, DeliverKeeps
<1>7. ASSUME NEW s \in Servers, Recv(s) \/ Served(s) \/ SendNow(s) PROVE ReplyInv'
  BY <1>7, RecvKeeps, ServedKeeps, SendNowKeeps
<1>8. CASE UNCHANGED <<rpcVars, wchan>>
  BY <1>8, SameKeeps DEF rpcVars
<1> QED BY <1>1, <1>2, <1>3, <1>4, <1>5, <1>6, <1>7, <1>8 DEF RpcNext

\* A client accepts only what an nfsd did for its own call: not a late reply to an earlier
\* call of its handle, nor one that was read before the buffer had the new transaction id.
THEOREM RightReplies == RpcSpec => []RightReply
<1>1. ReplyInv => RightReply
  BY DEF ReplyInv
<1> QED BY <1>1, ReplyInvInit, ReplyInvNext, PTL DEF RpcSpec

-------------------------------------------------------------------------------
(* The buffers that datagrams refer to                                       *)


\* m refers to the buffer of the handle h, or of the nfsd s
IsCall(m, h)  == m.kind = "call" /\ m.ref /\ m.h = h
IsReply(m, s) == m.kind = "reply" /\ m.ref /\ m.s = s

\* The requests that wait in the socket of the nfsds, and that an nfsd works on
Queued(i, h) == so[i].ref /\ so[i].h = h
Doing(s, h)  == ud[s].at = "vop" /\ ud[s].req.ref /\ ud[s].req.h = h
\* The replies in the sockets of the clients
Came(h, i, s) == cku[h].rcv[i].ref /\ cku[h].rcv[i].s = s

\* Over the loopback interface nothing waits for a driver; what was on the wire is a copy
Ways ==
    /\ route \in {"loop", "wire"}
    /\ route = "loop" => out = {} /\ net = {}
    /\ \A m \in net : ~m.ref
    /\ route = "wire" => /\ \A i \in DOMAIN so : ~so[i].ref
                         /\ \A s \in Servers : ~ud[s].req.ref
                         /\ \A h \in Handles : \A i \in DOMAIN cku[h].rcv : ~cku[h].rcv[i].ref

\* One datagram at a time refers to the buffer of a handle
OneCall ==
    \A h \in Handles :
        /\ \A i, j \in DOMAIN so : Queued(i, h) /\ Queued(j, h) => i = j
        /\ \A s, t \in Servers : Doing(s, h) /\ Doing(t, h) => s = t
        /\ \A i \in DOMAIN so, s \in Servers : ~(Queued(i, h) /\ Doing(s, h))

\* It is busy while one does, and says what the datagram says
CallHeld(h) ==
    /\ cku[h].busy <=> \/ \E m \in out : IsCall(m, h)
                       \/ \E i \in DOMAIN so : Queued(i, h)
                       \/ \E s \in Servers : Doing(s, h)
    /\ \A m \in out : IsCall(m, h) => m.xid = cku[h].buf
    /\ \A i \in DOMAIN so : Queued(i, h) => so[i].xid = cku[h].buf
    /\ \A s \in Servers : Doing(s, h) => ud[s].req.xid = cku[h].buf
CallsHeld == \A h \in Handles : CallHeld(h)

\* One datagram at a time refers to the buffer of an nfsd
OneOf(s) ==
    /\ \A m, n \in out : IsReply(m, s) /\ IsReply(n, s) => m = n
    /\ \A g, h \in Handles : \A i \in DOMAIN cku[g].rcv, j \in DOMAIN cku[h].rcv :
          Came(g, i, s) /\ Came(h, j, s) => g = h /\ i = j
OneReply == \A s \in Servers : OneOf(s)

\* It is busy while one does, and says what the datagram says
Word(m) == [xid |-> m.xid, ok |-> m.ok]
ReplyHeld(s) ==
    /\ ud[s].busy <=> \/ \E m \in out : IsReply(m, s)
                      \/ \E h \in Handles : \E i \in DOMAIN cku[h].rcv : Came(h, i, s)
    /\ \A m \in out : IsReply(m, s) => Word(m) = ud[s].buf
    /\ \A h \in Handles : \A i \in DOMAIN cku[h].rcv : Came(h, i, s) => Word(cku[h].rcv[i]) = ud[s].buf
RepliesHeld == \A s \in Servers : ReplyHeld(s)

\* An nfsd that waits for its buffer sleeps as long as it is busy
SendersWait ==
    \A s \in Servers : ud[s].at = "send" /\ ud[s].busy => ud[s].wanted /\ wchan[s] = Ud(s)

CallInv  == OneCall /\ CallsHeld
ReplInv  == OneReply /\ RepliesHeld /\ SendersWait
BufferInv == ReplyInv /\ Ways /\ CallInv /\ ReplInv

\* What refers to the buffers
LEMMA BufferInvOwned == BufferInv => BuffersOwned
<1> SUFFICES ASSUME BufferInv PROVE BuffersOwned
  OBVIOUS
<1>0. so \in Seq(Requests) /\ out \subseteq Mail /\ \A h \in Handles : cku[h].rcv \in Seq(Replies)
  BY DEF BufferInv, ReplyInv, Typed, HandleStates
<1>1. ASSUME NEW h \in Handles
      PROVE  (cku[h].busy <=> CallRefs(h) # {}) /\ \A m \in CallRefs(h) : m.xid = cku[h].buf
  <2>1. /\ DOMAIN so = 1 .. Len(so) /\ ToSet(so) = {so[i] : i \in DOMAIN so}
        /\ \A i \in DOMAIN so : so[i].kind = "call"
    <3>1. \A i \in DOMAIN so : so[i] \in Requests
      BY <1>0, ElementOfSeq, LenProperties
    <3>2. ToSet(so) = {so[i] : i \in DOMAIN so}
      BY DEF ToSet
    <3> QED BY <1>0, <3>1, <3>2, LenProperties DEF Requests
  <2>2. \A s \in Servers : ud[s].at = "vop" => ud[s].req.kind = "call"
    BY DEF BufferInv, ReplyInv, AllHonest, Serving, Requests
  <2>3. \A m : m \in CallRefs(h) <=> \/ m \in out /\ IsCall(m, h)
                                     \/ \E i \in DOMAIN so : m = so[i] /\ Queued(i, h)
                                     \/ \E s \in Servers : m = ud[s].req /\ Doing(s, h)
    BY <2>1, <2>2 DEF CallRefs, IsCall, Queued, Doing
  <2>4. CallRefs(h) # {} <=> \E m : m \in CallRefs(h)
    OBVIOUS
  <2> HIDE DEF CallRefs
  <2> QED BY <2>3, <2>4 DEF BufferInv, CallInv, CallsHeld, CallHeld
<1>2. ASSUME NEW s \in Servers
      PROVE  /\ ud[s].busy <=> ReplyRefs(s) # {}
             /\ \A m \in ReplyRefs(s) : [xid |-> m.xid, ok |-> m.ok] = ud[s].buf
  <2>1. \A h \in Handles : \A i \in DOMAIN cku[h].rcv : cku[h].rcv[i].kind = "reply"
    <3> SUFFICES ASSUME NEW h \in Handles, NEW i \in DOMAIN cku[h].rcv
                 PROVE  cku[h].rcv[i].kind = "reply"
      OBVIOUS
    <3>1. cku[h].rcv[i] \in Replies
      BY <1>0, ElementOfSeq, LenProperties
    <3> QED BY <3>1 DEF Replies
  <2>2. \A m : m \in ReplyRefs(s) <=>
                   \/ m \in out /\ IsReply(m, s)
                   \/ \E h \in Handles : \E i \in DOMAIN cku[h].rcv :
                         m = cku[h].rcv[i] /\ Came(h, i, s)
    BY <2>1 DEF ReplyRefs, IsReply, Came, ToSet
  <2>3. ReplyRefs(s) # {} <=> \E m : m \in ReplyRefs(s)
    OBVIOUS
  <2> HIDE DEF ReplyRefs
  <2> QED BY <2>2, <2>3 DEF BufferInv, ReplInv, RepliesHeld, ReplyHeld, Word
<1> QED BY <1>1, <1>2 DEF BuffersOwned

-------------------------------------------------------------------------------
\* A turn that leaves the requests and the handles' buffers
CallsKept ==
    /\ \A m : m.kind = "call" => (m \in out' <=> m \in out)
    /\ \A i : i \in DOMAIN so' /\ so'[i].ref <=> i \in DOMAIN so /\ so[i].ref
    /\ \A i \in DOMAIN so' : so'[i].ref => so'[i] = so[i]
    /\ \A s \in Servers : (ud'[s].at = "vop" <=> ud[s].at = "vop") /\ ud'[s].req = ud[s].req
    /\ \A h \in Handles : /\ cku'[h].busy = cku[h].busy
                          /\ cku[h].busy => cku'[h].buf = cku[h].buf

\* What a step leaves to the handle h
CallSame(h) ==
    /\ cku'[h].busy <=> cku[h].busy
    /\ cku[h].busy => cku'[h].buf = cku[h].buf
    /\ \A m : m \in out' /\ IsCall(m, h) <=> m \in out /\ IsCall(m, h)
    /\ \A i : i \in DOMAIN so' /\ Queued(i, h)' <=> i \in DOMAIN so /\ Queued(i, h)
    /\ \A i : i \in DOMAIN so' /\ Queued(i, h)' => so'[i].xid = so[i].xid
    /\ \A s \in Servers : (Doing(s, h)' <=> Doing(s, h)) /\ (Doing(s, h) => ud'[s].req = ud[s].req)

\* A handle that a step leaves is held by the datagram that held it
LEMMA CallHeldSame ==
    ASSUME NEW h \in Handles, CallHeld(h), CallSame(h)
    PROVE  CallHeld(h)'
<1>1. CallHeld(h)' <=>
          /\ cku'[h].busy <=> \/ \E m : m \in out' /\ IsCall(m, h)
                              \/ \E i : i \in DOMAIN so' /\ Queued(i, h)'
                              \/ \E s \in Servers : Doing(s, h)'
          /\ \A m : m \in out' /\ IsCall(m, h) => m.xid = cku'[h].buf
          /\ \A i : i \in DOMAIN so' /\ Queued(i, h)' => so'[i].xid = cku'[h].buf
          /\ \A s \in Servers : Doing(s, h)' => ud'[s].req.xid = cku'[h].buf
  BY DEF CallHeld, IsCall
<1> QED BY <1>1 DEF CallHeld, CallSame

\* The datagram that refers to the buffer of h is freed
LEMMA CallGone ==
    ASSUME CallInv, NEW h \in Handles, ~cku'[h].busy, \A m \in out' : ~IsCall(m, h),
           \A i \in DOMAIN so' : ~Queued(i, h)', \A s \in Servers : ~Doing(s, h)',
           \A g \in Handles \ {h} : CallSame(g)
    PROVE  CallInv'
<1>1. ASSUME NEW g \in Handles PROVE CallHeld(g)'
  <2>1. CASE g = h
    BY <2>1 DEF CallHeld, IsCall
  <2>2. CASE g # h
    BY <2>2, CallHeldSame DEF CallInv, CallsHeld
  <2> QED BY <2>1, <2>2
<1>2. OneCall'
  <2> SUFFICES ASSUME NEW g \in Handles
               PROVE  /\ \A i, j \in DOMAIN so' : Queued(i, g)' /\ Queued(j, g)' => i = j
                      /\ \A s, t \in Servers : Doing(s, g)' /\ Doing(t, g)' => s = t
                      /\ \A i \in DOMAIN so', s \in Servers : ~(Queued(i, g)' /\ Doing(s, g)')
    BY DEF OneCall
  <2>1. CASE g = h
    BY <2>1
  <2>2. CASE g # h
    <3>1. CallSame(g)
      BY <2>2
    <3>2. /\ \A i, j \in DOMAIN so : Queued(i, g) /\ Queued(j, g) => i = j
          /\ \A s, t \in Servers : Doing(s, g) /\ Doing(t, g) => s = t
          /\ \A i \in DOMAIN so, s \in Servers : ~(Queued(i, g) /\ Doing(s, g))
      BY DEF CallInv, OneCall
    <3> QED BY <3>1, <3>2 DEF CallSame
  <2> QED BY <2>1, <2>2
<1> QED BY <1>1, <1>2 DEF CallInv, CallsHeld

\* A step that moves no request keeps what is said of them
LEMMA CallsKeptKeeps ==
    ASSUME CallInv, CallsKept
    PROVE  CallInv'
<1>1. /\ \A m, h : m \in out' /\ IsCall(m, h) <=> m \in out /\ IsCall(m, h)
      /\ \A i, h : i \in DOMAIN so' /\ Queued(i, h)' <=> i \in DOMAIN so /\ Queued(i, h)
      /\ \A i, h : i \in DOMAIN so' /\ Queued(i, h)' => so'[i].xid = so[i].xid
      /\ \A h : \A s \in Servers : (Doing(s, h)' <=> Doing(s, h)) /\ ud'[s].req = ud[s].req
  BY DEF CallsKept, IsCall, Queued, Doing
<1>2. OneCall'
  BY <1>1 DEF CallInv, OneCall
<1>3. ASSUME NEW h \in Handles PROVE CallHeld(h)'
  <2>1. cku'[h].busy = cku[h].busy /\ (cku[h].busy => cku'[h].buf = cku[h].buf)
    BY DEF CallsKept
  <2>2. CallHeld(h)
    BY DEF CallInv, CallsHeld
  <2> QED BY <1>1, <2>1, <2>2, CallHeldSame DEF CallSame
<1> QED BY <1>2, <1>3 DEF CallInv, CallsHeld

\* The request goes out: the buffer was free
LEMMA SendCalls ==
    ASSUME BufferInv, NEW p \in Clients, Send(p), ReplyInv'
    PROVE  CallInv'
<1>0. cl[p].at = "again" /\ cl[p].at # "idle"
  BY DEF Send
<1> PICK h \in Handles : h = cl[p].h
  BY <1>0, InCall DEF BufferInv
<1> DEFINE m == Call(h, cl[p].xid, TRUE)
<1> PICK fits \in BOOLEAN : fits = (route = "wire" \/ Len(so) < QMax)
  OBVIOUS
<1>1. /\ ~cku[h].busy /\ UNCHANGED ud
      /\ cku' = [cku EXCEPT ![h].busy = fits, ![h].buf = cl[p].xid]
      /\ out' = IF route = "wire" THEN out \cup {m} ELSE out
      /\ so' = IF route = "loop" /\ fits THEN Append(so, m) ELSE so
  BY DEF Send
<1>2. cku \in [Handles -> HandleStates] /\ so \in Seq(Requests)
  BY DEF BufferInv, ReplyInv, Typed
<1>3. /\ cku'[h].busy = fits /\ cku'[h].buf = cl[p].xid
      /\ \A g \in Handles \ {h} : cku'[g] = cku[g]
  <2>1. cku[h] \in HandleStates
    BY <1>2
  <2>2. cku'[h] = [cku[h] EXCEPT !.busy = fits, !.buf = cl[p].xid]
    BY <1>1, <1>2
  <2> QED BY <1>1, <1>2, <2>1, <2>2 DEF HandleStates
<1>4. m.kind = "call" /\ m.ref /\ m.h = h /\ m.xid = cl[p].xid
  BY DEF Call
<1>5. /\ \A n \in out : ~IsCall(n, h)
      /\ \A i \in DOMAIN so : ~Queued(i, h)
      /\ \A s \in Servers : ~Doing(s, h)
  BY <1>1, <1>2 DEF BufferInv, CallInv, CallsHeld, CallHeld
<1> HIDE DEF m
<1>6. CASE route = "wire"
  <2>1. fits /\ out' = out \cup {m} /\ so' = so
    BY <1>1, <1>6
  <2>2. /\ \A i, g : Queued(i, g)' <=> Queued(i, g)
        /\ \A s, g : Doing(s, g)' <=> Doing(s, g)
    BY <1>1, <2>1 DEF Queued, Doing
  <2>3. OneCall'
    BY <1>1, <2>1, <2>2 DEF BufferInv, CallInv, OneCall
  <2>4. CallsHeld'
    <3> SUFFICES ASSUME NEW g \in Handles PROVE CallHeld(g)'
      BY DEF CallsHeld
    <3>0. CallHeld(g)
      BY DEF BufferInv, CallInv, CallsHeld
    <3>1. CASE g = h
      BY <1>1, <1>3, <1>4, <1>5, <2>1, <2>2, <3>1 DEF CallHeld, IsCall
    <3>2. CASE g # h
      <4>1. ~IsCall(m, g) /\ cku'[g] = cku[g]
        BY <1>3, <1>4, <3>2 DEF IsCall
      <4>2. \A n : n \in out' /\ IsCall(n, g) <=> n \in out /\ IsCall(n, g)
        BY <2>1, <4>1
      <4> QED BY <1>1, <2>1, <2>2, <3>0, <4>1, <4>2, CallHeldSame DEF CallSame
    <3> QED BY <3>1, <3>2
  <2> QED BY <2>3, <2>4 DEF CallInv
<1>7. CASE route = "loop" /\ fits
  <2>1. out' = out /\ so' = Append(so, m)
    BY <1>1, <1>7 
  <2>2. /\ Len(so) \in Nat /\ DOMAIN so = 1 .. Len(so) /\ DOMAIN so' = 1 .. Len(so) + 1
        /\ so'[Len(so) + 1] = m /\ \A i \in DOMAIN so : so'[i] = so[i]
    <3>1. m \in Requests
      <4>1. so' \in Seq(Requests) /\ so' = Append(so, m)
        BY <2>1 DEF ReplyInv, Typed
      <4>2. cl[p].xid \in Nat
        BY <1>0, InCall DEF BufferInv, ClientStates
      <4> QED BY <1>2, <4>2 DEF Requests, Call, m
    <3> QED BY <1>2, <2>1, <3>1
  <2> PICK last : last = Len(so) + 1
    OBVIOUS
  <2>3. /\ last \notin DOMAIN so /\ DOMAIN so' = DOMAIN so \cup {last} /\ so'[last] = m
        /\ Queued(last, h)' /\ so'[last].xid = cl[p].xid
        /\ \A g : g # h => ~Queued(last, g)'
        /\ \A i \in DOMAIN so : \A g : Queued(i, g)' <=> Queued(i, g)
        /\ \A s, g : Doing(s, g)' <=> Doing(s, g)
    <3>1. last \notin DOMAIN so /\ DOMAIN so' = DOMAIN so \cup {last} /\ so'[last] = m
      BY <2>2
    <3> QED BY <1>1, <1>4, <2>2, <3>1 DEF Queued, Doing
  <2>4. OneCall'
    <3> SUFFICES ASSUME NEW g \in Handles
                 PROVE  /\ \A i, j \in DOMAIN so' : Queued(i, g)' /\ Queued(j, g)' => i = j
                        /\ \A s, t \in Servers : Doing(s, g)' /\ Doing(t, g)' => s = t
                        /\ \A i \in DOMAIN so', s \in Servers : ~(Queued(i, g)' /\ Doing(s, g)')
      BY DEF OneCall
    <3> QED BY <1>5, <2>3 DEF BufferInv, CallInv, OneCall
  <2>5. CallsHeld'
    <3> SUFFICES ASSUME NEW g \in Handles PROVE CallHeld(g)'
      BY DEF CallsHeld
    <3>0. CallHeld(g)
      BY DEF BufferInv, CallInv, CallsHeld
    <3>1. CASE g = h
      BY <1>1, <1>3, <1>5, <1>7, <2>1, <2>3, <3>1 DEF CallHeld, IsCall
    <3>2. CASE g # h
      <4>1. cku'[g] = cku[g]
        BY <1>3, <3>2
      <4>2. /\ \A i : i \in DOMAIN so' /\ Queued(i, g)' <=> i \in DOMAIN so /\ Queued(i, g)
            /\ \A i : i \in DOMAIN so' /\ Queued(i, g)' => so'[i].xid = so[i].xid
        BY <2>2, <2>3, <3>2
      <4> QED BY <1>1, <2>1, <2>3, <3>0, <4>1, <4>2, CallHeldSame DEF CallSame
    <3> QED BY <3>1, <3>2
  <2> QED BY <2>4, <2>5 DEF CallInv
<1>8. CASE route = "loop" /\ ~fits
  <2>1. cku[h].busy = FALSE /\ out' = out /\ so' = so /\ ud' = ud
    BY <1>1, <1>2, <1>8 DEF HandleStates
  <2>2. CallsKept
    BY <1>1, <1>3, <1>8, <2>1 DEF CallsKept
  <2> QED BY <2>2, CallsKeptKeeps DEF BufferInv
<1> QED BY <1>6, <1>7, <1>8 DEF BufferInv, Ways

\* The driver frees what it has sent
LEMMA TransmitCalls ==
    ASSUME BufferInv, NEW m \in out, Transmit(m)
    PROVE  CallInv'
<1>1. out' = out \ {m} /\ so' = so /\ m \in Mail /\ route = "wire"
  BY DEF Transmit, BufferInv, ReplyInv, Typed, Ways
<1>2. CASE m.kind # "call"
  <2>1. NfsdsKept /\ cku' = cku
    BY <1>2, FreeRepliesKept DEF Transmit, BufferInv, ReplyInv
  <2>2. CallsKept
    BY <1>1, <1>2, <2>1 DEF CallsKept, NfsdsKept
  <2> QED BY <2>2, CallsKeptKeeps DEF BufferInv
<1>3. CASE m.kind = "call"
  <2>1. m \in Requests /\ cku' = FreeCall(m) /\ ud' = ud
    BY <1>1, <1>3 DEF Transmit, Mail, Requests, Replies
  <2>2. /\ \A g \in Handles : CallHeld(g)
        /\ \A i \in DOMAIN so : ~so[i].ref
        /\ \A s \in Servers : ~ud[s].req.ref
        /\ \A i, g : Queued(i, g)' <=> Queued(i, g)
        /\ \A s, g : Doing(s, g)' <=> Doing(s, g)
    BY <1>1, <2>1 DEF BufferInv, CallInv, CallsHeld, Ways, Queued, Doing
  <2>3. CASE ~m.ref
    <3>1. cku' = cku
      BY <2>1, <2>3 DEF FreeCall
    <3>2. \A g \in Handles : CallSame(g)
      BY <1>1, <2>1, <2>2, <2>3, <3>1 DEF CallSame, IsCall
    <3>3. OneCall'
      BY <1>1, <2>2 DEF BufferInv, CallInv, OneCall
    <3> QED BY <2>2, <3>2, <3>3, CallHeldSame DEF CallInv, CallsHeld
  <2>4. CASE m.ref
    <3> PICK h \in Handles : h = m.h
      BY <2>1 DEF Requests
    <3>1. /\ ~cku'[h].busy
          /\ \A g \in Handles \ {h} : cku'[g] = cku[g]
      <4>1. cku \in [Handles -> HandleStates] /\ cku[h] \in HandleStates
        BY DEF BufferInv, ReplyInv, Typed
      <4>2. cku' = [cku EXCEPT ![h].busy = FALSE, ![h].wanted = FALSE]
        BY <2>1, <2>4 DEF FreeCall
      <4>3. cku'[h] = [cku[h] EXCEPT !.busy = FALSE, !.wanted = FALSE]
        BY <4>1, <4>2
      <4> QED BY <4>1, <4>2, <4>3 DEF HandleStates
    <3>2. ASSUME NEW n \in out', IsCall(n, h) PROVE FALSE
      <4>1. n \in out /\ n # m
        BY <1>1, <3>2
      <4>2. n \in Requests
        BY <3>2, <4>1 DEF BufferInv, ReplyInv, Typed, Mail, Requests, Replies, IsCall
      <4>3. IsCall(m, h)
        BY <1>3, <2>4 DEF IsCall
      <4>4. n.xid = cku[h].buf /\ m.xid = cku[h].buf
        BY <2>2, <3>2, <4>1, <4>3 DEF CallHeld
      <4>5. n.kind = m.kind /\ n.ref = m.ref /\ n.h = m.h /\ n.xid = m.xid
        BY <3>2, <4>2, <4>3, <4>4, <2>1 DEF IsCall, Requests
      <4> QED BY <2>1, <4>1, <4>2, <4>5 DEF Requests
    <3>3. \A g \in Handles \ {h} : CallSame(g)
      BY <1>1, <2>1, <2>2, <3>1 DEF CallSame, IsCall
    <3>4. (\A i \in DOMAIN so' : ~Queued(i, h)') /\ \A s \in Servers : ~Doing(s, h)'
      BY <1>1, <2>2 DEF Queued, Doing
    <3> QED BY <3>1, <3>2, <3>3, <3>4, CallGone DEF BufferInv
  <2> QED BY <2>3, <2>4
<1> QED BY <1>2, <1>3

\* A request that comes from the wire is a copy
LEMMA DeliverCalls ==
    ASSUME BufferInv, NEW m \in net, Deliver(m)
    PROVE  CallInv'
<1>1. m \in Mail /\ ~m.ref /\ out' = out /\ ud' = ud
  BY DEF Deliver, BufferInv, ReplyInv, Typed, Ways
<1>2. CASE m.kind = "call"
  <2>1. m \in Requests /\ so \in Seq(Requests) /\ cku' = cku
    BY <1>1, <1>2 DEF Deliver, Mail, Requests, Replies, BufferInv, ReplyInv, Typed
  <2>2. so' = so \/ so' = Append(so, m)
    BY <1>2 DEF Deliver
  <2>3. /\ \A i : i \in DOMAIN so' /\ so'[i].ref <=> i \in DOMAIN so /\ so[i].ref
        /\ \A i \in DOMAIN so' : so'[i].ref => so'[i] = so[i]
    <3>1. CASE so' = so
      BY <3>1
    <3>2. CASE so' = Append(so, m)
      <4>1. /\ Len(so) \in Nat /\ DOMAIN so = 1 .. Len(so) /\ DOMAIN so' = 1 .. Len(so) + 1
            /\ so'[Len(so) + 1] = m /\ \A i \in DOMAIN so : so'[i] = so[i]
        BY <2>1, <3>2
      <4> QED BY <1>1, <4>1
    <3> QED BY <2>2, <3>1, <3>2
  <2>4. CallsKept
    BY <1>1, <2>1, <2>3 DEF CallsKept
  <2> QED BY <2>4, CallsKeptKeeps DEF BufferInv
<1>3. CASE m.kind # "call"
  <2>1. so' = so /\ cku' = [cku EXCEPT ![m.h].rcv = Append(@, m)]
    BY <1>3 DEF Deliver
  <2>2. \A h \in Handles : cku'[h].busy = cku[h].busy /\ cku'[h].buf = cku[h].buf
    <3>1. cku \in [Handles -> HandleStates]
      BY DEF BufferInv, ReplyInv, Typed
    <3>2. ASSUME NEW h \in Handles PROVE cku'[h].busy = cku[h].busy /\ cku'[h].buf = cku[h].buf
      <4>1. cku[h] \in HandleStates
        BY <3>1
      <4>2. cku'[h] = cku[h] \/ cku'[h] = [cku[h] EXCEPT !.rcv = Append(cku[h].rcv, m)]
        BY <2>1, <3>1
      <4> QED BY <4>1, <4>2 DEF HandleStates
    <3> QED BY <3>2
  <2>3. CallsKept
    BY <1>1, <2>1, <2>2 DEF CallsKept
  <2> QED BY <2>3, CallsKeptKeeps DEF BufferInv
<1> QED BY <1>2, <1>3

\* A request goes from the socket to the nfsd
LEMMA RecvCalls ==
    ASSUME BufferInv, NEW s \in Servers, Recv(s)
    PROVE  CallInv'
<1>1. /\ so \in Seq(Requests) /\ so # <<>> /\ so' = Tail(so) /\ ud[s].at = "idle"
      /\ out' = out /\ cku' = cku
  BY DEF Recv, BufferInv, ReplyInv, Typed
<1>2. /\ Len(so) \in Nat /\ DOMAIN so = 1 .. Len(so) /\ DOMAIN so' = 1 .. Len(so) - 1
      /\ Len(so) # 0 /\ Head(so) = so[1] /\ \A i \in DOMAIN so' : so'[i] = so[i + 1]
  BY <1>1
<1>3. /\ ud'[s].at = "vop" /\ ud'[s].req = so[1]
      /\ \A t \in Servers \ {s} : ud'[t] = ud[t]
  <2>1. ud \in [Servers -> NfsdStates] /\ ud[s] \in NfsdStates
    BY DEF BufferInv, ReplyInv, Typed
  <2>2. ud' = [ud EXCEPT ![s].at = "vop", ![s].req = Head(so), ![s].xid = XidOf(Head(so)),
                         ![s].dup = ops[XidOf(Head(so))] = "write" /\ Dup(XidOf(Head(so)))]
    BY DEF Recv
  <2>3. ud'[s] = [ud[s] EXCEPT !.at = "vop", !.req = Head(so), !.xid = XidOf(Head(so)),
                               !.dup = ops[XidOf(Head(so))] = "write" /\ Dup(XidOf(Head(so)))]
    BY <2>1, <2>2
  <2> QED BY <1>2, <2>1, <2>2, <2>3 DEF NfsdStates
<1>4. /\ 1 \in DOMAIN so
      /\ \A i \in DOMAIN so' : i + 1 \in DOMAIN so /\ i + 1 # 1
      /\ \A i \in DOMAIN so : i # 1 => i - 1 \in DOMAIN so' /\ (i - 1) + 1 = i
      /\ \A i, j \in DOMAIN so' : i + 1 = j + 1 => i = j
  BY <1>2
<1>5. /\ \A i \in DOMAIN so' : \A h : Queued(i, h)' <=> Queued(i + 1, h)
      /\ \A h : Doing(s, h)' <=> Queued(1, h)
      /\ \A h : ~Doing(s, h)
      /\ \A t \in Servers \ {s} : \A h : Doing(t, h)' <=> Doing(t, h)
  BY <1>1, <1>2, <1>3 DEF Queued, Doing
<1>6. OneCall'
  <2> SUFFICES ASSUME NEW h \in Handles
               PROVE  /\ \A i, j \in DOMAIN so' : Queued(i, h)' /\ Queued(j, h)' => i = j
                      /\ \A r, t \in Servers : Doing(r, h)' /\ Doing(t, h)' => r = t
                      /\ \A i \in DOMAIN so', t \in Servers : ~(Queued(i, h)' /\ Doing(t, h)')
    BY DEF OneCall
  <2>1. /\ \A i, j \in DOMAIN so : Queued(i, h) /\ Queued(j, h) => i = j
        /\ \A r, t \in Servers : Doing(r, h) /\ Doing(t, h) => r = t
        /\ \A i \in DOMAIN so, t \in Servers : ~(Queued(i, h) /\ Doing(t, h))
    BY DEF BufferInv, CallInv, OneCall
  <2>2. \A i, j \in DOMAIN so' : Queued(i, h)' /\ Queued(j, h)' => i = j
    BY <1>4, <1>5, <2>1
  <2>3. \A r, t \in Servers : Doing(r, h)' /\ Doing(t, h)' => r = t
    BY <1>4, <1>5, <2>1
  <2>4. \A i \in DOMAIN so', t \in Servers : ~(Queued(i, h)' /\ Doing(t, h)')
    BY <1>4, <1>5, <2>1
  <2> QED BY <2>2, <2>3, <2>4
<1>7. ASSUME NEW h \in Handles PROVE CallHeld(h)'
  <2>1. CallHeld(h) /\ cku'[h] = cku[h]
    BY <1>1 DEF BufferInv, CallInv, CallsHeld
  <2>2. (\E i \in DOMAIN so' : Queued(i, h)') \/ (\E t \in Servers : Doing(t, h)')
           <=> (\E i \in DOMAIN so : Queued(i, h)) \/ (\E t \in Servers : Doing(t, h))
    BY <1>4, <1>5
  <2>3. /\ \A i \in DOMAIN so' : Queued(i, h)' => so'[i].xid = cku'[h].buf
        /\ \A t \in Servers : Doing(t, h)' => ud'[t].req.xid = cku'[h].buf
    <3>1. \A i \in DOMAIN so : Queued(i, h) => so[i].xid = cku'[h].buf
      BY <2>1 DEF CallHeld
    <3>2. \A t \in Servers : Doing(t, h) => ud[t].req.xid = cku'[h].buf
      BY <2>1 DEF CallHeld
    <3>3. \A i \in DOMAIN so' : Queued(i, h)' => so'[i].xid = cku'[h].buf
      BY <1>2, <1>4, <1>5, <3>1
    <3>4. ASSUME NEW t \in Servers, Doing(t, h)' PROVE ud'[t].req.xid = cku'[h].buf
      <4>1. CASE t = s
        BY <1>3, <1>4, <1>5, <3>1, <3>4, <4>1
      <4>2. CASE t # s
        BY <1>3, <1>5, <3>2, <3>4, <4>2
      <4> QED BY <4>1, <4>2
    <3> QED BY <3>3, <3>4
  <2>4. cku'[h].busy <=> \/ \E m \in out' : IsCall(m, h)
                         \/ \E i \in DOMAIN so' : Queued(i, h)'
                         \/ \E t \in Servers : Doing(t, h)'
    BY <1>1, <2>1, <2>2 DEF CallHeld
  <2>5. \A m \in out' : IsCall(m, h) => m.xid = cku'[h].buf
    BY <1>1, <2>1 DEF CallHeld
  <2> QED BY <2>3, <2>4, <2>5 DEF CallHeld, IsCall
<1> QED BY <1>6, <1>7 DEF CallInv, CallsHeld

\* What svckudp_send leaves to the requests
LEMMA SentParts ==
    ASSUME Typed, NEW s \in Servers, NEW x, NEW ok, NEW k \in [Handles -> HandleStates], NEW W,
           SendReply(s, ud, x, ok, k, W)
    PROVE  /\ \A m : m.kind = "call" => (m \in out' <=> m \in out)
           /\ ud'[s].at = "idle" /\ ud'[s].req = ud[s].req
           /\ \A t \in Servers \ {s} : ud'[t] = ud[t]
           /\ \A g \in Handles : cku'[g].busy = k[g].busy /\ cku'[g].buf = k[g].buf
<1> DEFINE h == ud[s].req.h
           m == Reply(s, h, x, ok, TRUE)
<1>1. out' \in {out, out \cup {m}} /\ m.kind = "reply"
  BY DEF SendReply, Reply
<1>2. \A n : n.kind = "call" => (n \in out' <=> n \in out)
  <2> HIDE DEF m
  <2> QED BY <1>1
<1>3. PICK b \in BOOLEAN :
          ud' = [ud EXCEPT ![s].at = "idle", ![s].busy = b, ![s].buf = [xid |-> x, ok |-> ok]]
  <2> DEFINE sent == [ud EXCEPT ![s].at = "idle", ![s].busy = TRUE,
                                ![s].buf = [xid |-> x, ok |-> ok]]
  <2>1. ud' = sent \/ ud' = [sent EXCEPT ![s].busy = FALSE]
    BY DEF SendReply
  <2>2. CASE ud' = sent
    BY <2>2
  <2>3. CASE ud' = [sent EXCEPT ![s].busy = FALSE]
    <3>1. ud' = [ud EXCEPT ![s].at = "idle", ![s].busy = FALSE,
                           ![s].buf = [xid |-> x, ok |-> ok]]
      BY <2>3 DEF Typed, NfsdStates
    <3> QED BY <3>1
  <2> QED BY <2>1, <2>2, <2>3
<1>4. /\ ud'[s].at = "idle" /\ ud'[s].req = ud[s].req
      /\ \A t \in Servers \ {s} : ud'[t] = ud[t]
  <2>1. ud'[s] = [ud[s] EXCEPT !.at = "idle", !.busy = b, !.buf = [xid |-> x, ok |-> ok]]
    BY <1>3 DEF Typed
  <2> QED BY <1>3, <2>1 DEF Typed, NfsdStates
<1>5. ASSUME NEW g \in Handles PROVE cku'[g].busy = k[g].busy /\ cku'[g].buf = k[g].buf
  <2>1. cku' = k \/ cku' = [k EXCEPT ![h].rcv = Append(@, m)]
    BY DEF SendReply
  <2>2. cku'[g] = k[g] \/ cku'[g] = [k[g] EXCEPT !.rcv = Append(k[g].rcv, m)]
    <3> HIDE DEF m
    <3> QED BY <2>1
  <2>3. k[g] \in HandleStates
    OBVIOUS
  <2> HIDE DEF m
  <2> QED BY <2>2, <2>3 DEF HandleStates
<1> QED BY <1>2, <1>4, <1>5

\* A call was done: its request is freed
LEMMA ServedCalls ==
    ASSUME BufferInv, NEW s \in Servers, Served(s)
    PROVE  CallInv'
<1>1. /\ ud[s].at = "vop" /\ so' = so /\ so \in Seq(Requests) /\ Typed
      /\ cku \in [Handles -> HandleStates] /\ ud \in [Servers -> NfsdStates]
      /\ ud[s] \in NfsdStates /\ ud[s].req \in Requests
  BY DEF Served, BufferInv, ReplyInv, Typed, AllHonest, Serving
<1> PICK k \in [Handles -> HandleStates] : k = FreeCall(ud[s].req)
  BY <1>1, FreeCallKept
<1> PICK ok \in BOOLEAN : ok = (ops[ud[s].xid] = "write" \/ there \/ Dup(ud[s].xid))
  OBVIOUS
<1> PICK W : W = FreeCallWakes(ud[s].req)
  OBVIOUS
<1>2. \/ /\ ud' = [ud EXCEPT ![s].at = "send", ![s].ok = ok, ![s].wanted = TRUE]
         /\ cku' = k /\ out' = out
      \/ SendReply(s, ud, ud[s].xid, ok, k, W)
  BY DEF Served
<1>3. /\ \A m : m.kind = "call" => (m \in out' <=> m \in out)
      /\ ud'[s].at # "vop" /\ ud'[s].req = ud[s].req
      /\ \A t \in Servers \ {s} : ud'[t] = ud[t]
      /\ \A g \in Handles : cku'[g].busy = k[g].busy /\ cku'[g].buf = k[g].buf
  <2>1. CASE SendReply(s, ud, ud[s].xid, ok, k, W)
    <3>1. ud'[s].at = "idle" => ud'[s].at # "vop"
      OBVIOUS
    <3> QED BY <1>1, <2>1, <3>1, SentParts
  <2>2. CASE /\ ud' = [ud EXCEPT ![s].at = "send", ![s].ok = ok, ![s].wanted = TRUE]
             /\ cku' = k /\ out' = out
    <3>1. ud'[s] = [ud[s] EXCEPT !.at = "send", !.ok = ok, !.wanted = TRUE]
      BY <1>1, <2>2
    <3> QED BY <1>1, <2>2, <3>1 DEF NfsdStates
  <2> QED BY <1>2, <2>1, <2>2
<1>4. /\ \A m, g : m \in out' /\ IsCall(m, g) <=> m \in out /\ IsCall(m, g)
      /\ \A i, g : (Queued(i, g)' <=> Queued(i, g)) /\ so'[i].xid = so[i].xid
      /\ \A g : \A t \in Servers : Doing(t, g)' <=> Doing(t, g) /\ t # s
      /\ \A t \in Servers : ud'[t].req = ud[t].req
  BY <1>1, <1>3 DEF IsCall, Queued, Doing
<1>5. CASE ~ud[s].req.ref
  <2>1. k = cku /\ \A g : ~Doing(s, g)
    BY <1>5 DEF FreeCall, Doing
  <2>2. \A g \in Handles : CallSame(g)
    BY <1>1, <1>3, <1>4, <2>1 DEF CallSame
  <2>3. OneCall'
    BY <1>1, <1>4 DEF BufferInv, CallInv, OneCall
  <2> QED BY <2>2, <2>3, CallHeldSame DEF BufferInv, CallInv, CallsHeld
<1>6. CASE ud[s].req.ref
  <2> PICK h \in Handles : h = ud[s].req.h
    BY <1>1 DEF Requests
  <2>1. /\ ~cku'[h].busy
        /\ \A g \in Handles \ {h} : cku'[g].busy = cku[g].busy /\ cku'[g].buf = cku[g].buf
    <3>1. k = [cku EXCEPT ![h].busy = FALSE, ![h].wanted = FALSE]
      BY <1>6 DEF FreeCall
    <3>2. k[h] = [cku[h] EXCEPT !.busy = FALSE, !.wanted = FALSE] /\ cku[h] \in HandleStates
      BY <1>1, <3>1
    <3>3. ~k[h].busy
      BY <3>2 DEF HandleStates
    <3> QED BY <1>1, <1>3, <3>1, <3>3
  <2>2. Doing(s, h) /\ \A g : g # h => ~Doing(s, g)
    BY <1>1, <1>6 DEF Doing
  <2>3. \A i \in DOMAIN so' : ~Queued(i, h)'
    BY <1>1, <1>4, <2>2 DEF BufferInv, CallInv, OneCall
  <2>4. \A t \in Servers : ~Doing(t, h)'
    BY <1>4, <2>2 DEF BufferInv, CallInv, OneCall
  <2>5. \A m \in out' : ~IsCall(m, h)
    <3>1. out = {}
      BY <1>6 DEF BufferInv, Ways
    <3> QED BY <1>4, <3>1
  <2>6. \A g \in Handles \ {h} : CallSame(g)
    BY <1>1, <1>4, <2>1, <2>2 DEF CallSame
  <2> QED BY <2>1, <2>3, <2>4, <2>5, <2>6, CallGone DEF BufferInv
<1> QED BY <1>5, <1>6

\* The reply goes out later
LEMMA SendNowCalls ==
    ASSUME BufferInv, NEW s \in Servers, SendNow(s)
    PROVE  CallInv'
<1>1. /\ ud[s].at = "send" /\ so' = so /\ Typed /\ cku \in [Handles -> HandleStates]
      /\ SendReply(s, ud, ud[s].xid, ud[s].ok, cku, {})
  BY DEF SendNow, BufferInv, ReplyInv, Typed
<1>2. /\ \A m : m.kind = "call" => (m \in out' <=> m \in out)
      /\ ud'[s].at = "idle" /\ ud'[s].req = ud[s].req
      /\ \A t \in Servers \ {s} : ud'[t] = ud[t]
      /\ \A g \in Handles : cku'[g].busy = cku[g].busy /\ cku'[g].buf = cku[g].buf
  BY <1>1, SentParts
<1>3. CallsKept
  BY <1>1, <1>2 DEF CallsKept
<1> QED BY <1>3, CallsKeptKeeps DEF BufferInv

-------------------------------------------------------------------------------
(* What a turn of a client does to its handle and to the nfsds             *)

\* The first n replies of the socket of h are freed, or none
Reads(h, n) ==
    /\ n \in 0 .. Len(cku[h].rcv)
    /\ \A g \in Handles \ {h} : cku'[g] = cku[g]
    /\ cku'[h].busy = cku[h].busy /\ (cku[h].busy => cku'[h].buf = cku[h].buf)
    /\ DOMAIN cku'[h].rcv = 1 .. Len(cku[h].rcv) - n
    /\ \A i \in DOMAIN cku'[h].rcv : cku'[h].rcv[i] = cku[h].rcv[i + n]
    /\ ud' = FreeReplies({cku[h].rcv[i] : i \in 1 .. n})
    /\ \A s \in Servers :
          wchan'[s] = IF wchan[s] \in FreeRepliesWakes({cku[h].rcv[i] : i \in 1 .. n})
                      THEN NoChan ELSE wchan[s]

\* The handle becomes y, and may be given back
Becomes(h, y) == \E k : /\ k = [cku EXCEPT ![h] = y]
                        /\ cku' = k \/ cku' = [k EXCEPT ![h].inuse = FALSE]

\* A turn without a read changes one handle
LEMMA BecomesParts ==
    ASSUME cku \in [Handles -> HandleStates], NEW h \in Handles, NEW y \in HandleStates,
           Becomes(h, y)
    PROVE  /\ \A g \in Handles \ {h} : cku'[g] = cku[g]
           /\ cku'[h].busy = y.busy /\ cku'[h].buf = y.buf /\ cku'[h].rcv = y.rcv
<1>1. PICK k : /\ k = [cku EXCEPT ![h] = y]
               /\ cku' = k \/ cku' = [k EXCEPT ![h].inuse = FALSE]
  BY DEF Becomes
<1>2. k[h] = y /\ k \in [Handles -> HandleStates] /\ \A g \in Handles \ {h} : k[g] = cku[g]
  BY <1>1
<1>3. CASE cku' = k
  BY <1>2, <1>3
<1>4. CASE cku' = [k EXCEPT ![h].inuse = FALSE]
  <2>1. cku'[h] = [y EXCEPT !.inuse = FALSE] /\ \A g \in Handles \ {h} : cku'[g] = cku[g]
    BY <1>2, <1>4
  <2> QED BY <2>1 DEF HandleStates
<1> QED BY <1>1, <1>3, <1>4

\* A call that failed gives its handle back
LEMMA FailedBecomes ==
    ASSUME NEW p, NEW h, h = cl[p].h, NEW y, NEW k, k = [cku EXCEPT ![h] = y],
           \/ \E next : Failed(p, k, next)
           \/ \E r : Finish(p, k, r)
    PROVE  Becomes(h, y)
BY DEF Failed, Finish, Becomes

\* Nothing is read
LEMMA ReadsNone ==
    ASSUME Typed, NEW h \in Handles, NEW y \in HandleStates, Becomes(h, y),
           y.busy = cku[h].busy, cku[h].busy => y.buf = cku[h].buf, y.rcv = cku[h].rcv,
           ud' = ud, \A s \in Servers : wchan'[s] = wchan[s]
    PROVE  Reads(h, 0)
<1> DEFINE c == cku[h].rcv
<1>1. c \in Seq(Replies) /\ cku \in [Handles -> HandleStates]
  BY DEF Typed, HandleStates
<1>2. Len(c) \in Nat /\ DOMAIN c = 1 .. Len(c)
  BY <1>1, LenProperties
<1>3. {c[i] : i \in 1 .. 0} = {}
  OBVIOUS
<1>4. FreeReplies({}) = ud /\ FreeRepliesWakes({}) = {}
  BY DEF FreeReplies, FreeRepliesWakes, Typed
<1>5. /\ \A g \in Handles \ {h} : cku'[g] = cku[g]
      /\ cku'[h].busy = y.busy /\ cku'[h].buf = y.buf /\ cku'[h].rcv = c
  BY <1>1, BecomesParts
<1>6. /\ 0 \in 0 .. Len(c) /\ DOMAIN cku'[h].rcv = 1 .. Len(c) - 0
      /\ \A i \in DOMAIN cku'[h].rcv : cku'[h].rcv[i] = c[i + 0]
  BY <1>2, <1>5
<1> QED BY <1>3, <1>4, <1>5, <1>6 DEF Reads

\* The first n are, and freed
LEMMA ReadsSome ==
    ASSUME Typed, NEW h \in Handles, NEW y \in HandleStates, Becomes(h, y),
           y.busy = cku[h].busy, y.buf = cku[h].buf,
           NEW n \in 0 .. Len(cku[h].rcv), NEW M, M = {cku[h].rcv[i] : i \in 1 .. n},
           DOMAIN y.rcv = 1 .. Len(cku[h].rcv) - n,
           \A i \in DOMAIN y.rcv : y.rcv[i] = cku[h].rcv[i + n],
           ud' = FreeReplies(M),
           \A s \in Servers : wchan'[s] = IF wchan[s] \in FreeRepliesWakes(M)
                                          THEN NoChan ELSE wchan[s]
    PROVE  Reads(h, n)
<1>1. /\ \A g \in Handles \ {h} : cku'[g] = cku[g]
      /\ cku'[h].busy = y.busy /\ cku'[h].buf = y.buf /\ cku'[h].rcv = y.rcv
  BY BecomesParts DEF Typed
<1>2. /\ DOMAIN cku'[h].rcv = 1 .. Len(cku[h].rcv) - n
      /\ \A i \in DOMAIN cku'[h].rcv : cku'[h].rcv[i] = cku[h].rcv[i + n]
  BY <1>1
<1> QED BY <1>1, <1>2 DEF Reads

\* All of them are
LEMMA ReadsAll ==
    ASSUME Typed, NEW h \in Handles, NEW y \in HandleStates, Becomes(h, y),
           y.busy = cku[h].busy, y.buf = cku[h].buf, y.rcv = <<>>,
           ud' = FreeReplies(ToSet(cku[h].rcv)),
           \A s \in Servers : wchan'[s] = IF wchan[s] \in FreeRepliesWakes(ToSet(cku[h].rcv))
                                          THEN NoChan ELSE wchan[s]
    PROVE  \E n \in Nat : Reads(h, n)
<1>1. cku[h].rcv \in Seq(Replies)
  BY DEF Typed, HandleStates
<1> PICK n : n = Len(cku[h].rcv)
  OBVIOUS
<1>2. n \in Nat /\ n \in 0 .. Len(cku[h].rcv) /\ DOMAIN cku[h].rcv = 1 .. n
  BY <1>1
<1>3. ToSet(cku[h].rcv) = {cku[h].rcv[i] : i \in 1 .. n}
  BY <1>2 DEF ToSet
<1>4. DOMAIN y.rcv = {} /\ 1 .. Len(cku[h].rcv) - n = {}
  BY <1>2
<1>5. Reads(h, n)
  BY <1>2, <1>3, <1>4, ReadsSome
<1> QED BY <1>2, <1>5

\* Some of them are
LEMMA ReadsFirst ==
    ASSUME Typed, NEW h \in Handles, NEW y \in HandleStates, Becomes(h, y),
           y.busy = cku[h].busy, y.buf = cku[h].buf, NEW n \in 0 .. Len(cku[h].rcv),
           y.rcv = SubSeq(cku[h].rcv, n + 1, Len(cku[h].rcv)),
           NEW M, M = ToSet(SubSeq(cku[h].rcv, 1, n)), ud' = FreeReplies(M),
           \A s \in Servers : wchan'[s] = IF wchan[s] \in FreeRepliesWakes(M)
                                          THEN NoChan ELSE wchan[s]
    PROVE  Reads(h, n)
<1> PICK c \in Seq(Replies) : c = cku[h].rcv
  BY DEF Typed, HandleStates
<1>1. Len(c) \in Nat /\ n \in 0 .. Len(c)
  OBVIOUS
<1>2. /\ DOMAIN SubSeq(c, 1, n) = 1 .. n
      /\ \A i \in 1 .. n : SubSeq(c, 1, n)[i] = c[i]
  BY <1>1
<1>3. ToSet(SubSeq(c, 1, n)) = {c[i] : i \in 1 .. n}
  BY <1>2 DEF ToSet
<1>4. /\ DOMAIN SubSeq(c, n + 1, Len(c)) = 1 .. Len(c) - n
      /\ \A i \in 1 .. Len(c) - n : SubSeq(c, n + 1, Len(c))[i] = c[i + n]
  BY <1>1
<1>5. /\ DOMAIN y.rcv = 1 .. Len(cku[h].rcv) - n
      /\ \A i \in DOMAIN y.rcv : y.rcv[i] = cku[h].rcv[i + n]
  BY <1>4
<1>6. M = {cku[h].rcv[i] : i \in 1 .. n}
  BY <1>3
<1> QED BY <1>5, <1>6, ReadsSome

\* A wakeup, also of a client that goes to sleep, seen from the nfsds
LEMMA WakesServers ==
    ASSUME NEW p \in Clients, NEW C, Wakeup(C) \/ \E d : Sleep(p, d, C)
    PROVE  \A s \in Servers : wchan'[s] = IF wchan[s] \in C THEN NoChan ELSE wchan[s]
<1>1. \A s \in Servers : s \in Procs /\ s # p
  BY RpcAssumption
<1> QED BY <1>1 DEF Wakeup, Sleep, Woken

\* Every turn of a client but Send
LEMMA TurnReads ==
    ASSUME ReplyInv, NEW p \in Clients, ClientTurn(p), ~Send(p)
    PROVE  \E h \in Handles, n \in Nat : Reads(h, n)
<1>1. cl[p].at # "idle"
  BY DEF ClientTurn, FlushReplies, WaitForBuffer, CantSend, Lbolt, Accept, CantRecv,
     WaitForReply, TimedOut, Woke, Answered
<1> PICK h \in Handles : h = cl[p].h
  BY <1>1, InCall
<1> PICK c \in Seq(Replies) : c = cku[h].rcv
  BY DEF ReplyInv, Typed, HandleStates
<1>2. /\ Typed /\ cku \in [Handles -> HandleStates] /\ cku[h] \in HandleStates
      /\ cl[p].xid \in Nat /\ cl[p].rtries \in Nat
  BY DEF ReplyInv, Typed, ClientStates
<1>3. Len(c) \in Nat /\ Len(c) \in 0 .. Len(c) /\ <<>> \in Seq(Replies)
  OBVIOUS
<1>6. \A y : cku' = [cku EXCEPT ![h] = y] => Becomes(h, y)
  BY DEF Becomes
<1>7. cku' = cku => Becomes(h, cku[h])
  BY <1>2 DEF Becomes
<1>8. CASE FlushReplies(p)
  <2> PICK y : y = [cku[h] EXCEPT !.rcv = <<>>]
    OBVIOUS
  <2>1. y \in HandleStates /\ y.busy = cku[h].busy /\ y.buf = cku[h].buf /\ y.rcv = <<>>
    BY <1>2, <1>3 DEF HandleStates
  <2>2. Becomes(h, y) /\ ud' = FreeReplies(ToSet(c)) /\ Wakeup(FreeRepliesWakes(ToSet(c)))
    BY <1>6, <1>8 DEF FlushReplies
  <2>5. \A s \in Servers : wchan'[s] = IF wchan[s] \in FreeRepliesWakes(ToSet(cku[h].rcv))
                                      THEN NoChan ELSE wchan[s]
    BY <2>2, WakesServers
  <2> QED BY <1>2, <2>1, <2>2, <2>5, ReadsAll
<1>9. CASE WaitForBuffer(p)
  <2> PICK y : y = [cku[h] EXCEPT !.wanted = TRUE]
    OBVIOUS
  <2>1. y \in HandleStates /\ y.busy = cku[h].busy /\ y.buf = cku[h].buf /\ y.rcv = cku[h].rcv
    BY <1>2 DEF HandleStates
  <2>2. Becomes(h, y) /\ ud' = ud /\ Sleep(p, OutBuf(h), {})
    BY <1>6, <1>9 DEF WaitForBuffer
  <2>3. \A s \in Servers : wchan'[s] = wchan[s]
    <3> PICK C : C = {}
      OBVIOUS
    <3>1. \E d : Sleep(p, d, C)
      BY <2>2
    <3>2. \A s \in Servers : wchan'[s] = IF wchan[s] \in C THEN NoChan ELSE wchan[s]
      BY <3>1, WakesServers
    <3> QED BY <3>2
  <2> QED BY <1>2, <2>1, <2>2, <2>3, ReadsNone
<1>10. CASE CantSend(p)
  <2> PICK y : y = [cku[h] EXCEPT !.buf = cl[p].xid]
    OBVIOUS
  <2>1. y \in HandleStates /\ y.busy = cku[h].busy /\ y.rcv = cku[h].rcv /\ ~cku[h].busy
    BY <1>2, <1>10 DEF HandleStates, CantSend
  <2>2. ud' = ud /\ wchan' = wchan /\ Failed(p, [cku EXCEPT ![h].buf = cl[p].xid], "lbolt")
    BY <1>10 DEF CantSend
  <2>3. Becomes(h, y)
    <3>1. [cku EXCEPT ![h].buf = cl[p].xid] = [cku EXCEPT ![h] = y]
      OBVIOUS
    <3> QED BY <2>2, <3>1, FailedBecomes
  <2> QED BY <1>2, <2>1, <2>2, <2>3, ReadsNone
<1>11. CASE Accept(p)
  <2> PICK y : y = [cku[h] EXCEPT !.rcv = <<>>]
    OBVIOUS
  <2>1. y \in HandleStates /\ y.busy = cku[h].busy /\ y.buf = cku[h].buf /\ y.rcv = <<>>
    BY <1>2, <1>3 DEF HandleStates
  <2>2. /\ ud' = FreeReplies(ToSet(c)) /\ Wakeup(FreeRepliesWakes(ToSet(c)))
        /\ \E r : Finish(p, [cku EXCEPT ![h].rcv = <<>>], r)
    BY <1>11 DEF Accept
  <2>3. Becomes(h, y)
    <3>1. [cku EXCEPT ![h].rcv = <<>>] = [cku EXCEPT ![h] = y]
      OBVIOUS
    <3> QED BY <2>2, <3>1, FailedBecomes
  <2>5. \A s \in Servers : wchan'[s] = IF wchan[s] \in FreeRepliesWakes(ToSet(cku[h].rcv))
                                      THEN NoChan ELSE wchan[s]
    BY <2>2, WakesServers
  <2> QED BY <1>2, <2>1, <2>2, <2>3, <2>5, ReadsAll
<1>12. CASE CantRecv(p)
  <2> PICK n \in Nat : n = cl[p].rtries
    BY <1>2
  <2>1. /\ Failed(p, [cku EXCEPT ![h].rcv = SubSeq(c, n + 1, Len(c))], "again") /\ n \in 0 .. Len(c)
        /\ ud' = FreeReplies(ToSet(SubSeq(c, 1, n)))
        /\ Wakeup(FreeRepliesWakes(ToSet(SubSeq(c, 1, n))))
    <3>1. Failed(p, [cku EXCEPT ![h].rcv = SubSeq(@, n + 1, Len(@))], "again")
      BY <1>12 DEF CantRecv
    <3>2. [cku EXCEPT ![h].rcv = SubSeq(@, n + 1, Len(@))]
            = [cku EXCEPT ![h].rcv = SubSeq(c, n + 1, Len(c))]
      OBVIOUS
    <3>3. n <= Len(c) /\ n >= 0
      BY <1>3, <1>12 DEF CantRecv
    <3> QED BY <1>3, <1>12, <3>1, <3>2, <3>3 DEF CantRecv
  <2> PICK y : y = [cku[h] EXCEPT !.rcv = SubSeq(c, n + 1, Len(c))]
    OBVIOUS
  <2>2. /\ y \in HandleStates /\ y.busy = cku[h].busy /\ y.buf = cku[h].buf
        /\ y.rcv = SubSeq(c, n + 1, Len(c))
    <3>1. SubSeq(c, n + 1, Len(c)) \in Seq(Replies)
      BY <2>1, FewerParts
    <3> QED BY <1>2, <3>1 DEF HandleStates
  <2>3. Becomes(h, y)
    <3>1. [cku EXCEPT ![h].rcv = SubSeq(c, n + 1, Len(c))] = [cku EXCEPT ![h] = y]
      OBVIOUS
    <3> QED BY <2>1, <3>1, FailedBecomes
  <2>4. \A s \in Servers : wchan'[s] = IF wchan[s] \in FreeRepliesWakes(ToSet(SubSeq(c, 1, n)))
                                      THEN NoChan ELSE wchan[s]
    BY <2>1, WakesServers
  <2>5. Reads(h, n)
    <3> PICK M : M = ToSet(SubSeq(cku[h].rcv, 1, n))
      OBVIOUS
    <3>1. n \in 0 .. Len(cku[h].rcv) /\ y.rcv = SubSeq(cku[h].rcv, n + 1, Len(cku[h].rcv))
      BY <2>1, <2>2
    <3>2. /\ ud' = FreeReplies(M)
          /\ \A s \in Servers : wchan'[s] = IF wchan[s] \in FreeRepliesWakes(M)
                                            THEN NoChan ELSE wchan[s]
      BY <2>1, <2>4
    <3> QED BY <1>2, <2>2, <2>3, <3>1, <3>2, ReadsFirst
  <2> QED BY <2>5
<1>13. CASE WaitForReply(p)
  <2> PICK y : y = [cku[h] EXCEPT !.rcv = <<>>]
    OBVIOUS
  <2>1. y \in HandleStates /\ y.busy = cku[h].busy /\ y.buf = cku[h].buf /\ y.rcv = <<>>
    BY <1>2, <1>3 DEF HandleStates
  <2>2. /\ Becomes(h, y) /\ ud' = FreeReplies(ToSet(c))
        /\ Sleep(p, Reading(h), FreeRepliesWakes(ToSet(c)))
    BY <1>6, <1>13 DEF WaitForReply
  <2>5. \A s \in Servers : wchan'[s] = IF wchan[s] \in FreeRepliesWakes(ToSet(cku[h].rcv))
                                      THEN NoChan ELSE wchan[s]
    BY <2>2, WakesServers
  <2> QED BY <1>2, <2>1, <2>2, <2>5, ReadsAll
<1>14. CASE TimedOut(p)
  <2> PICK y : y = [cku[h] EXCEPT !.timedout = FALSE]
    OBVIOUS
  <2>1. y \in HandleStates /\ y.busy = cku[h].busy /\ y.buf = cku[h].buf /\ y.rcv = cku[h].rcv
    BY <1>2 DEF HandleStates
  <2>2. ud' = ud /\ wchan' = wchan /\ Failed(p, [cku EXCEPT ![h].timedout = FALSE], "again")
    BY <1>14 DEF TimedOut
  <2>3. Becomes(h, y)
    <3>1. [cku EXCEPT ![h].timedout = FALSE] = [cku EXCEPT ![h] = y]
      OBVIOUS
    <3> QED BY <2>2, <3>1, FailedBecomes
  <2> QED BY <1>2, <2>1, <2>2, <2>3, ReadsNone
<1>15. CASE Lbolt(p) \/ Answered(p)
  <2>1. ud' = ud /\ wchan' = wchan /\ cku' = cku
    BY <1>15 DEF Lbolt, Answered
  <2> QED BY <1>2, <1>7, <2>1, ReadsNone
<1> QED BY <1>8, <1>9, <1>10, <1>11, <1>12, <1>13, <1>14, <1>15 DEF ClientTurn

\* A client frees replies, or waits, or fails
LEMMA ClientCalls ==
    ASSUME BufferInv, NEW h \in Handles, NEW n \in Nat, Reads(h, n), UNCHANGED <<out, so>>
    PROVE  CallInv'
<1>1. NfsdsKept
  BY FreeRepliesKept DEF Reads, BufferInv, ReplyInv
<1>2. CallsKept
  BY <1>1 DEF CallsKept, Reads, NfsdsKept
<1> QED BY <1>2, CallsKeptKeeps DEF BufferInv

-------------------------------------------------------------------------------
(* The buffers of the nfsds                                                *)

\* What a step leaves to the replies that are under way
RepliesKept ==
    /\ \A m : m.kind = "reply" => (m \in out' <=> m \in out)
    /\ \A h \in Handles : \A i : i \in DOMAIN cku'[h].rcv /\ cku'[h].rcv[i].ref
                                <=> i \in DOMAIN cku[h].rcv /\ cku[h].rcv[i].ref
    /\ \A h \in Handles : \A i \in DOMAIN cku'[h].rcv : cku'[h].rcv[i].ref => cku'[h].rcv[i] = cku[h].rcv[i]
    /\ \A s \in Servers : ud'[s].busy = ud[s].busy /\ ud'[s].buf = ud[s].buf

\* A step leaves the buffer of nfsd s
ReplySame(s) ==
    /\ ud'[s].busy = ud[s].busy /\ (ud[s].busy => ud'[s].buf = ud[s].buf)
    /\ \A m : m \in out' /\ IsReply(m, s) <=> m \in out /\ IsReply(m, s)
    /\ \A h \in Handles : \A i : i \in DOMAIN cku'[h].rcv /\ Came(h, i, s)'
                                <=> i \in DOMAIN cku[h].rcv /\ Came(h, i, s)
    /\ \A h \in Handles : \A i : i \in DOMAIN cku'[h].rcv /\ Came(h, i, s)' => cku'[h].rcv[i] = cku[h].rcv[i]

\* An nfsd's buffer that a step leaves is held by the reply that held it
LEMMA ReplyHeldSame ==
    ASSUME NEW s \in Servers, ReplyHeld(s), OneOf(s), ReplySame(s)
    PROVE  ReplyHeld(s)' /\ OneOf(s)'
<1>1. /\ (\E m \in out' : IsReply(m, s)) <=> (\E m \in out : IsReply(m, s))
      /\ (\E h \in Handles : \E i \in DOMAIN cku'[h].rcv : Came(h, i, s)')
            <=> (\E h \in Handles : \E i \in DOMAIN cku[h].rcv : Came(h, i, s))
      /\ ud'[s].busy = ud[s].busy
      /\ (\E m \in out : IsReply(m, s)) => ud'[s].buf = ud[s].buf
      /\ (\E h \in Handles : \E i \in DOMAIN cku[h].rcv : Came(h, i, s)) => ud'[s].buf = ud[s].buf
  BY DEF ReplySame, ReplyHeld
<1>2. \A m \in out' : IsReply(m, s) => Word(m) = ud'[s].buf
  BY <1>1 DEF ReplySame, ReplyHeld
<1>3. \A h \in Handles : \A i \in DOMAIN cku'[h].rcv : Came(h, i, s)' => Word(cku'[h].rcv[i]) = ud'[s].buf
  BY <1>1 DEF ReplySame, ReplyHeld
<1>4. ReplyHeld(s)'
  BY <1>1, <1>2, <1>3 DEF ReplyHeld, Word, IsReply
<1>5. OneOf(s)'
  BY DEF OneOf, ReplySame, IsReply
<1> QED BY <1>4, <1>5

\* A step that moves no reply leaves every nfsd's buffer
LEMMA RepliesKeptSame ==
    ASSUME RepliesKept
    PROVE  \A s \in Servers : ReplySame(s)
BY DEF RepliesKept, ReplySame, Came, IsReply

\* The parts of the invariant, nfsd by nfsd
LEMMA ReplInvParts ==
    OneReply /\ RepliesHeld <=> \A s \in Servers : ReplyHeld(s) /\ OneOf(s)
BY DEF OneReply, RepliesHeld, ReplyHeld, OneOf

\* A step that moves no reply keeps what is said of them
LEMMA RepliesKeptKeeps ==
    ASSUME ReplInv, RepliesKept
    PROVE  OneReply' /\ RepliesHeld'
<1>1. \A s \in Servers : ReplyHeld(s) /\ OneOf(s)
  BY ReplInvParts DEF ReplInv
<1>2. \A s \in Servers : ReplyHeld(s)' /\ OneOf(s)'
  BY <1>1, RepliesKeptSame, ReplyHeldSame
<1> QED BY <1>2 DEF OneReply, RepliesHeld, ReplyHeld, OneOf

\* The replies that a client has read or thrown away are freed
LEMMA ClientReplies ==
    ASSUME BufferInv, NEW h \in Handles, NEW n \in Nat, Reads(h, n), UNCHANGED out
    PROVE  ReplInv'
<1> PICK c \in Seq(Replies) : c = cku[h].rcv
  BY DEF BufferInv, ReplyInv, Typed, HandleStates
<1> DEFINE Freed(s) == \E i \in 1 .. n : Came(h, i, s)
<1>1. /\ Len(c) \in Nat /\ DOMAIN c = 1 .. Len(c) /\ n <= Len(c)
      /\ DOMAIN cku'[h].rcv = 1 .. Len(c) - n
      /\ \A i \in DOMAIN cku'[h].rcv : cku'[h].rcv[i] = c[i + n]
      /\ \A g \in Handles \ {h} : cku'[g] = cku[g]
  BY DEF Reads
<1>2. /\ \A i \in DOMAIN cku'[h].rcv : i + n \in DOMAIN c /\ i + n \notin 1 .. n
      /\ \A i \in DOMAIN c : i \notin 1 .. n => i - n \in DOMAIN cku'[h].rcv /\ (i - n) + n = i
      /\ \A i, j \in DOMAIN cku'[h].rcv : i + n = j + n => i = j
      /\ \A i \in 1 .. n : i \in DOMAIN c
  BY <1>1
<1>3. /\ \A i \in DOMAIN cku'[h].rcv : \A s : Came(h, i, s)' <=> Came(h, i + n, s)
      /\ \A g \in Handles \ {h} : \A i, s : Came(g, i, s)' <=> Came(g, i, s)
  BY <1>1 DEF Came
<1>4. \A s \in Servers : ud'[s] = IF Freed(s) THEN [ud[s] EXCEPT !.busy = FALSE, !.wanted = FALSE]
                                  ELSE ud[s]
  <2>1. \A s : (\E m \in {cku[h].rcv[i] : i \in 1 .. n} : m.ref /\ m.s = s) <=> Freed(s)
    BY DEF Came
  <2> HIDE DEF Freed
  <2> QED BY <2>1 DEF Reads, FreeReplies
<1>5. \A s \in Servers : ud[s] \in NfsdStates /\ ReplyHeld(s) /\ OneOf(s)
  BY ReplInvParts DEF BufferInv, ReplyInv, Typed, ReplInv
<1>6. ASSUME NEW s \in Servers, Freed(s) PROVE ReplyHeld(s)' /\ OneOf(s)' /\ ~ud'[s].busy
  <2>1. PICK k \in 1 .. n : Came(h, k, s)
    BY <1>6
  <2>2. \A g \in Handles : \A i \in DOMAIN cku[g].rcv : Came(g, i, s) => g = h /\ i = k
    BY <1>2, <1>5, <2>1 DEF OneOf
  <2>3. ASSUME NEW g \in Handles, NEW i \in DOMAIN cku'[g].rcv, Came(g, i, s)' PROVE FALSE
    <3>1. CASE g = h
      <4>1. i + n \in DOMAIN c /\ i + n \notin 1 .. n /\ Came(h, i + n, s)
        BY <1>2, <1>3, <2>3, <3>1
      <4>2. i + n = k
        BY <2>2, <4>1
      <4> QED BY <4>1, <4>2
    <3>2. CASE g # h
      BY <1>1, <1>3, <2>2, <2>3, <3>2
    <3> QED BY <3>1, <3>2
  <2>4. out = {}
    BY <1>2, <2>1 DEF BufferInv, Ways, Came
  <2>5. ~ud'[s].busy
    BY <1>4, <1>5, <1>6 DEF NfsdStates
  <2> QED BY <2>3, <2>4, <2>5 DEF ReplyHeld, OneOf
<1>7. ASSUME NEW s \in Servers, ~Freed(s) PROVE ReplyHeld(s)' /\ OneOf(s)' /\ ud'[s] = ud[s]
  <2>0. ud'[s] = ud[s] /\ ReplyHeld(s) /\ OneOf(s)
    BY <1>4, <1>5, <1>7
  <2>1. /\ \A i \in DOMAIN c : Came(h, i, s) => i \notin 1 .. n
        /\ \A g \in Handles : DOMAIN cku[g].rcv = IF g = h THEN DOMAIN c ELSE DOMAIN cku'[g].rcv
    BY <1>1, <1>7
  <2>2. (\E g \in Handles : \E i \in DOMAIN cku'[g].rcv : Came(g, i, s)')
           <=> (\E g \in Handles : \E i \in DOMAIN cku[g].rcv : Came(g, i, s))
    <3>1. ASSUME NEW g \in Handles, NEW i \in DOMAIN cku'[g].rcv, Came(g, i, s)'
          PROVE  \E j \in DOMAIN cku[g].rcv : Came(g, j, s)
      <4>1. CASE g = h
        BY <1>2, <1>3, <3>1, <4>1
      <4>2. CASE g # h
        BY <1>1, <1>3, <3>1, <4>2
      <4> QED BY <4>1, <4>2
    <3>2. ASSUME NEW g \in Handles, NEW i \in DOMAIN cku[g].rcv, Came(g, i, s)
          PROVE  \E j \in DOMAIN cku'[g].rcv : Came(g, j, s)'
      <4>1. CASE g = h
        <5>1. i \in DOMAIN c /\ i \notin 1 .. n
          BY <2>1, <3>2, <4>1
        <5>2. PICK j \in DOMAIN cku'[h].rcv : j + n = i
          BY <1>2, <5>1
        <5>3. Came(h, j, s)'
          BY <1>3, <3>2, <4>1, <5>2
        <5> QED BY <4>1, <5>3
      <4>2. CASE g # h
        BY <1>1, <1>3, <3>2, <4>2
      <4> QED BY <4>1, <4>2
    <3> QED BY <3>1, <3>2
  <2>3. ASSUME NEW g \in Handles, NEW i \in DOMAIN cku'[g].rcv, Came(g, i, s)'
        PROVE  Word(cku'[g].rcv[i]) = ud'[s].buf
    <3>1. CASE g = h
      <4>1. i + n \in DOMAIN cku[h].rcv /\ Came(h, i + n, s) /\ cku'[h].rcv[i] = cku[h].rcv[i + n]
        BY <1>1, <1>2, <1>3, <2>3, <3>1
      <4> QED BY <2>0, <3>1, <4>1 DEF ReplyHeld
    <3>2. CASE g # h
      BY <1>1, <1>3, <2>0, <2>3, <3>2 DEF ReplyHeld
    <3> QED BY <3>1, <3>2
  <2>4. ASSUME NEW f \in Handles, NEW g \in Handles,
               NEW i \in DOMAIN cku'[f].rcv, NEW j \in DOMAIN cku'[g].rcv,
               Came(f, i, s)', Came(g, j, s)'
        PROVE  f = g /\ i = j
    <3> DEFINE a == IF f = h THEN i + n ELSE i
               b == IF g = h THEN j + n ELSE j
    <3>1. a \in DOMAIN cku[f].rcv /\ Came(f, a, s)
      <4>1. CASE f = h
        <5>1. i + n \in DOMAIN c /\ Came(h, i + n, s)
          BY <1>2, <1>3, <2>4, <4>1
        <5> QED BY <4>1, <5>1
      <4>2. CASE f # h
        BY <1>1, <1>3, <2>4, <4>2
      <4> QED BY <4>1, <4>2
    <3>2. b \in DOMAIN cku[g].rcv /\ Came(g, b, s)
      <4>1. CASE g = h
        <5>1. j + n \in DOMAIN c /\ Came(h, j + n, s)
          BY <1>2, <1>3, <2>4, <4>1
        <5> QED BY <4>1, <5>1
      <4>2. CASE g # h
        BY <1>1, <1>3, <2>4, <4>2
      <4> QED BY <4>1, <4>2
    <3>3. f = g /\ a = b
      <4> HIDE DEF a, b
      <4> QED BY <2>0, <3>1, <3>2 DEF OneOf
    <3> QED BY <1>2, <3>3
  <2>5. ReplyHeld(s)'
    <3>1. ud'[s].busy <=> \/ \E m \in out' : IsReply(m, s)
                          \/ \E g \in Handles : \E i \in DOMAIN cku'[g].rcv : Came(g, i, s)'
      BY <2>0, <2>2 DEF ReplyHeld
    <3>2. \A m \in out' : IsReply(m, s) => Word(m) = ud'[s].buf
      BY <2>0 DEF ReplyHeld
    <3> QED BY <2>3, <3>1, <3>2 DEF ReplyHeld, IsReply, Word
  <2>6. OneOf(s)'
    <3>1. \A l, m \in out' : IsReply(l, s) /\ IsReply(m, s) => l = m
      BY <2>0 DEF OneOf
    <3> QED BY <2>4, <3>1 DEF OneOf, IsReply
  <2> QED BY <2>0, <2>5, <2>6
<1>8. SendersWait'
  <2> SUFFICES ASSUME NEW s \in Servers, ud'[s].at = "send", ud'[s].busy
               PROVE  ud'[s].wanted /\ wchan'[s] = Ud(s)
    BY DEF SendersWait, Ud
  <2>1. ~Freed(s) /\ ud'[s] = ud[s]
    BY <1>6, <1>7
  <2>2. ud[s].wanted /\ wchan[s] = Ud(s)
    BY <2>1 DEF BufferInv, ReplInv, SendersWait
  <2>3. Ud(s) \notin FreeRepliesWakes({cku[h].rcv[i] : i \in 1 .. n})
    <3> SUFFICES ASSUME Ud(s) \in FreeRepliesWakes({cku[h].rcv[i] : i \in 1 .. n}) PROVE FALSE
      OBVIOUS
    <3>1. PICK t \in Servers : /\ Ud(s) = Ud(t)
                              /\ \E m \in {cku[h].rcv[i] : i \in 1 .. n} : m.ref /\ m.s = t
      BY DEF FreeRepliesWakes
    <3>2. s = t
      BY <3>1 DEF Ud
    <3>3. PICK i \in 1 .. n : cku[h].rcv[i].ref /\ cku[h].rcv[i].s = t
      BY <3>1
    <3>4. Came(h, i, s)
      BY <3>2, <3>3 DEF Came
    <3> QED BY <2>1, <3>4
  <2> QED BY <2>1, <2>2, <2>3 DEF Reads
<1>9. OneReply' /\ RepliesHeld'
  <2>1. \A s \in Servers : ReplyHeld(s)' /\ OneOf(s)'
    BY <1>6, <1>7
  <2> QED BY <2>1 DEF OneReply, RepliesHeld, ReplyHeld, OneOf
<1> QED BY <1>8, <1>9 DEF ReplInv

\* An nfsd that waits goes on waiting
WaitersKept ==
    \A s \in Servers : ud'[s].at = "send" /\ ud'[s].busy =>
        /\ ud[s].at = "send" /\ ud[s].busy /\ ud'[s].wanted = ud[s].wanted
        /\ wchan[s] = Ud(s) => wchan'[s] = Ud(s)

\* The nfsds that wait go on waiting
LEMMA WaitersKeep ==
    ASSUME ReplInv, RepliesKept, WaitersKept
    PROVE  ReplInv'
<1>1. SendersWait'
  BY DEF ReplInv, SendersWait, WaitersKept, Ud
<1> QED BY <1>1, RepliesKeptKeeps DEF ReplInv

\* wakeup on the buffer of a handle or on a socket wakes no nfsd
LEMMA OtherWakes ==
    ASSUME NEW C, \A s : Ud(s) \notin C, wchan' = Woken(C), NEW s \in Servers, wchan[s] = Ud(s)
    PROVE  wchan'[s] = Ud(s)
BY RpcAssumption DEF Woken

\* No client's channel, and no absent one, is that of an nfsd
LEMMA ChannelsApart ==
    /\ \A h, s : OutBuf(h) # Ud(s) /\ Reading(h) # Ud(s)
    /\ \A s : NoChan # Ud(s)
<1>1. "cku_outbuf" # "ud" /\ "so_rcv" # "ud"
  OBVIOUS
<1>2. \A s : Len(<<"ud", s>>) = 2 /\ Len(<<>>) = 0
  OBVIOUS
<1> QED BY <1>1, <1>2 DEF OutBuf, Reading, Ud, NoChan

\* They leave the sockets of the clients
LEMMA QuietRcv ==
    ASSUME BufferInv, NEW p \in Clients,
           Send(p) \/ Tick(p) \/ Timeout(p) \/ \E op : Start(p, op)
    PROVE  \A h \in Handles : cku'[h].rcv = cku[h].rcv
<1>1. ASSUME NEW h \in Handles PROVE cku'[h].rcv = cku[h].rcv
  <2>1. cku \in [Handles -> HandleStates] /\ cku[h] \in HandleStates
    BY DEF BufferInv, ReplyInv, Typed
  <2>2. CASE cku' = cku
    BY <2>2
  <2>3. CASE Send(p)
    <3>1. \E b, x : cku' = [cku EXCEPT ![cl[p].h].busy = b, ![cl[p].h].buf = x]
      BY <2>3 DEF Send
    <3>2. PICK b, x : cku' = [cku EXCEPT ![cl[p].h].busy = b, ![cl[p].h].buf = x]
      BY <3>1
    <3>3. cku'[h] = cku[h] \/ cku'[h] = [cku[h] EXCEPT !.busy = b, !.buf = x]
      BY <2>1, <3>2
    <3> QED BY <2>1, <3>3 DEF HandleStates
  <2>4. CASE Timeout(p)
    <3>1. cku' = [cku EXCEPT ![cl[p].h].timedout = TRUE]
      BY <2>4 DEF Timeout
    <3>2. cku'[h] = cku[h] \/ cku'[h] = [cku[h] EXCEPT !.timedout = TRUE]
      BY <2>1, <3>1
    <3> QED BY <2>1, <3>2 DEF HandleStates
  <2>5. CASE \E op : Start(p, op)
    <3>1. PICK g : cku' = [cku EXCEPT ![g].inuse = TRUE]
      BY <2>5 DEF Start
    <3>2. cku'[h] = cku[h] \/ cku'[h] = [cku[h] EXCEPT !.inuse = TRUE]
      BY <2>1, <3>1
    <3> QED BY <2>1, <3>2 DEF HandleStates
  <2> QED BY <2>2, <2>3, <2>4, <2>5 DEF Tick, rpcVars
<1> QED BY <1>1

\* A client starts, sends, or something is timed out
LEMMA QuietReplies ==
    ASSUME BufferInv, NEW p \in Clients,
           Send(p) \/ Tick(p) \/ Timeout(p) \/ \E op : Start(p, op)
    PROVE  ReplInv'
<1>1. ud' = ud
  BY DEF Send, Tick, Timeout, Start, rpcVars
<1>2. \A m : m.kind = "reply" => (m \in out' <=> m \in out)
  <2>1. Call(cl[p].h, cl[p].xid, TRUE).kind = "call"
    BY DEF Call
  <2>2. out' = out \/ out' = out \cup {Call(cl[p].h, cl[p].xid, TRUE)}
    BY DEF Send, Tick, Timeout, Start, rpcVars
  <2> QED BY <2>1, <2>2
<1>3. \A h \in Handles : cku'[h].rcv = cku[h].rcv
  BY QuietRcv
<1>4. RepliesKept
  BY <1>1, <1>2, <1>3 DEF RepliesKept
<1>5. ASSUME NEW s \in Servers, wchan[s] = Ud(s) PROVE wchan'[s] = Ud(s)
  <2>1. CASE wchan' = wchan
    BY <1>5, <2>1
  <2>2. CASE \E h : wchan' = Woken({OutBuf(h)}) \/ wchan' = Woken({Reading(h)})
    <3>1. \A h, t : Ud(t) \notin {OutBuf(h)} /\ Ud(t) \notin {Reading(h)}
      BY ChannelsApart
    <3> QED BY <1>5, <2>2, <3>1, OtherWakes
  <2> QED BY <2>1, <2>2 DEF Send, Tick, Timeout, Start, Wakeup
<1>6. WaitersKept
  BY <1>1, <1>5 DEF WaitersKept
<1> QED BY <1>4, <1>6, WaitersKeep DEF BufferInv

\* The driver has sent a reply, and frees it
LEMMA TransmitReplies ==
    ASSUME BufferInv, NEW m \in out, Transmit(m)
    PROVE  ReplInv'
<1>1. out' = out \ {m} /\ m \in Mail /\ route = "wire" /\ ReplInv
  BY DEF Transmit, BufferInv, ReplyInv, Typed, Ways
<1>2. CASE m.kind = "call"
  <2>1. m \in Requests /\ ud' = ud /\ cku' = FreeCall(m) /\ wchan' = Woken(FreeCallWakes(m))
    BY <1>1, <1>2 DEF Transmit, Mail, Requests, Replies, Wakeup
  <2>2. \A h \in Handles : cku'[h].rcv = cku[h].rcv
    BY <2>1, FreeCallKept DEF BufferInv, ReplyInv
  <2>3. RepliesKept
    BY <1>1, <1>2, <2>1, <2>2 DEF RepliesKept
  <2>4. \A s : Ud(s) \notin FreeCallWakes(m)
    BY ChannelsApart DEF FreeCallWakes
  <2>5. WaitersKept
    BY <2>1, <2>4, OtherWakes DEF WaitersKept
  <2> QED BY <1>1, <2>3, <2>5, WaitersKeep
<1>3. CASE m.kind # "call"
  <2>1. /\ m \in Replies /\ m.s \in Servers /\ cku' = cku
        /\ ud' = FreeReplies({m}) /\ wchan' = Woken(FreeRepliesWakes({m}))
    BY <1>1, <1>3 DEF Transmit, Mail, Requests, Replies, Wakeup
  <2>2. \A s \in Servers : ud[s] \in NfsdStates /\ ReplyHeld(s) /\ OneOf(s)
    BY ReplInvParts DEF BufferInv, ReplyInv, Typed, ReplInv
  <2>3. \A s \in Servers : IsReply(m, s) <=> m.ref /\ m.s = s
    BY <2>1 DEF IsReply, Replies
  <2>4. \A s \in Servers : ud'[s] = IF IsReply(m, s)
                                    THEN [ud[s] EXCEPT !.busy = FALSE, !.wanted = FALSE] ELSE ud[s]
    BY <2>1, <2>3 DEF FreeReplies
  <2>5. \A g \in Handles : \A i, s : Came(g, i, s)' <=> Came(g, i, s)
    BY <2>1 DEF Came
  <2>6. ASSUME NEW s \in Servers, IsReply(m, s) PROVE ReplyHeld(s)' /\ OneOf(s)' /\ ~ud'[s].busy
    <3>1. ~ud'[s].busy
      BY <2>2, <2>4, <2>6 DEF NfsdStates
    <3>2. \A n \in out' : ~IsReply(n, s)
      BY <1>1, <2>2, <2>6 DEF OneOf
    <3>3. \A h \in Handles : \A i \in DOMAIN cku'[h].rcv : ~Came(h, i, s)'
      BY <1>1, <2>1 DEF Came, BufferInv, Ways
    <3> QED BY <3>1, <3>2, <3>3 DEF ReplyHeld, OneOf, IsReply
  <2>7. ASSUME NEW s \in Servers, ~IsReply(m, s) PROVE ReplyHeld(s)' /\ OneOf(s)' /\ ud'[s] = ud[s]
    <3>1. ud'[s] = ud[s]
      BY <2>4, <2>7
    <3>2. ReplySame(s)
      BY <1>1, <2>1, <2>5, <2>7, <3>1 DEF ReplySame
    <3> QED BY <2>2, <3>1, <3>2, ReplyHeldSame
  <2>8. SendersWait'
    <3> SUFFICES ASSUME NEW s \in Servers, ud'[s].at = "send", ud'[s].busy
                 PROVE  ud'[s].wanted /\ wchan'[s] = Ud(s)
      BY DEF SendersWait, Ud
    <3>1. ~IsReply(m, s) /\ ud'[s] = ud[s]
      BY <2>6, <2>7
    <3>2. ud[s].wanted /\ wchan[s] = Ud(s)
      BY <1>1, <3>1 DEF ReplInv, SendersWait
    <3>3. Ud(s) \notin FreeRepliesWakes({m})
      <4>1. \A t : Ud(s) = Ud(t) => s = t
        BY DEF Ud
      <4> QED BY <2>3, <3>1, <4>1 DEF FreeRepliesWakes
    <3>4. s \in Procs
      BY RpcAssumption
    <3> QED BY <2>1, <3>1, <3>2, <3>3, <3>4 DEF Woken
  <2>9. \A s \in Servers : ReplyHeld(s)' /\ OneOf(s)'
    BY <2>6, <2>7
  <2> QED BY <2>8, <2>9 DEF ReplInv, OneReply, RepliesHeld, ReplyHeld, OneOf
<1> QED BY <1>2, <1>3

\* A reply that comes from the wire is a copy
LEMMA DeliverReplies ==
    ASSUME BufferInv, NEW m \in net, Deliver(m)
    PROVE  ReplInv'
<1>1. m \in Mail /\ ~m.ref /\ out' = out /\ ud' = ud /\ ReplInv
  BY DEF Deliver, BufferInv, ReplyInv, Typed, Ways
<1>2. CASE m.kind = "call"
  <2>1. cku' = cku /\ wchan' = wchan
    BY <1>2 DEF Deliver
  <2>2. RepliesKept /\ WaitersKept
    BY <1>1, <2>1 DEF RepliesKept, WaitersKept
  <2> QED BY <1>1, <2>2, WaitersKeep
<1>3. CASE m.kind # "call"
  <2>1. /\ m \in Replies /\ m.h \in Handles /\ wchan' = Woken({Reading(m.h)})
        /\ cku' = [cku EXCEPT ![m.h].rcv = Append(@, m)]
    BY <1>1, <1>3 DEF Deliver, Mail, Requests, Replies, Wakeup
  <2>2. ASSUME NEW h \in Handles
        PROVE  /\ \A i : i \in DOMAIN cku'[h].rcv /\ cku'[h].rcv[i].ref
                           <=> i \in DOMAIN cku[h].rcv /\ cku[h].rcv[i].ref
               /\ \A i \in DOMAIN cku'[h].rcv : cku'[h].rcv[i].ref => cku'[h].rcv[i] = cku[h].rcv[i]
    <3> PICK c \in Seq(Replies) : c = cku[h].rcv
      BY DEF BufferInv, ReplyInv, Typed, HandleStates
    <3>1. cku'[h].rcv = c \/ cku'[h].rcv = Append(c, m)
      <4>1. cku \in [Handles -> HandleStates] /\ cku[h] \in HandleStates
        BY DEF BufferInv, ReplyInv, Typed
      <4>2. cku'[h] = cku[h] \/ cku'[h] = [cku[h] EXCEPT !.rcv = Append(c, m)]
        BY <2>1, <4>1
      <4> QED BY <4>1, <4>2 DEF HandleStates
    <3>2. /\ Len(c) \in Nat /\ DOMAIN c = 1 .. Len(c) /\ DOMAIN Append(c, m) = 1 .. Len(c) + 1
          /\ Append(c, m)[Len(c) + 1] = m /\ \A i \in DOMAIN c : Append(c, m)[i] = c[i]
      BY <2>1
    <3>3. \A i \in DOMAIN Append(c, m) : i \in DOMAIN c \/ Append(c, m)[i] = m
      BY <3>2
    <3>4. \A i \in DOMAIN c : i \in DOMAIN Append(c, m)
      BY <3>2
    <3> QED BY <1>1, <3>1, <3>2, <3>3, <3>4
  <2>3. RepliesKept
    BY <1>1, <2>2 DEF RepliesKept
  <2>4. \A s : Ud(s) \notin {Reading(m.h)}
    BY ChannelsApart
  <2>5. WaitersKept
    BY <1>1, <2>1, <2>4, OtherWakes DEF WaitersKept
  <2> QED BY <1>1, <2>3, <2>5, WaitersKeep
<1> QED BY <1>2, <1>3

\* An nfsd begins to serve
LEMMA RecvReplies ==
    ASSUME BufferInv, NEW s \in Servers, Recv(s)
    PROVE  ReplInv'
<1>1. out' = out /\ cku' = cku /\ wchan' = wchan /\ ReplInv
  BY DEF Recv, BufferInv
<1>2. /\ ud'[s].at = "vop" /\ ud'[s].busy = ud[s].busy /\ ud'[s].buf = ud[s].buf
      /\ \A t \in Servers \ {s} : ud'[t] = ud[t]
  <2>1. ud \in [Servers -> NfsdStates] /\ ud[s] \in NfsdStates
    BY DEF BufferInv, ReplyInv, Typed
  <2>2. ud' = [ud EXCEPT ![s].at = "vop", ![s].req = Head(so), ![s].xid = XidOf(Head(so)),
                         ![s].dup = ops[XidOf(Head(so))] = "write" /\ Dup(XidOf(Head(so)))]
    BY DEF Recv
  <2>3. ud'[s] = [ud[s] EXCEPT !.at = "vop", !.req = Head(so), !.xid = XidOf(Head(so)),
                               !.dup = ops[XidOf(Head(so))] = "write" /\ Dup(XidOf(Head(so)))]
    BY <2>1, <2>2
  <2> QED BY <2>1, <2>2, <2>3 DEF NfsdStates
<1>3. RepliesKept
  BY <1>1, <1>2 DEF RepliesKept
<1>4. WaitersKept
  <2>1. "vop" # "send"
    OBVIOUS
  <2> QED BY <1>1, <1>2, <2>1 DEF WaitersKept
<1> QED BY <1>1, <1>3, <1>4, WaitersKeep

\* A reply goes out of the free buffer of nfsd s
LEMMA SentReplies ==
    ASSUME BufferInv, NEW s \in Servers, ~ud[s].busy, ud[s].req \in Requests,
           NEW x \in Nat, NEW ok \in BOOLEAN, NEW k \in [Handles -> HandleStates],
           \A g \in Handles : k[g].rcv = cku[g].rcv, NEW W, \A t : Ud(t) \notin W,
           SendReply(s, ud, x, ok, k, W)
    PROVE  ReplInv'
<1>9. PICK h \in Handles : h = ud[s].req.h
  BY DEF Requests
<1>10. PICK m : m = Reply(s, h, x, ok, TRUE)
  OBVIOUS
<1>11. PICK sent : sent = [ud EXCEPT ![s].at = "idle", ![s].busy = TRUE,
                                  ![s].buf = [xid |-> x, ok |-> ok]]
  OBVIOUS
<1>0. /\ ud \in [Servers -> NfsdStates] /\ cku \in [Handles -> HandleStates]
      /\ \A t \in Servers : ud[t] \in NfsdStates /\ ReplyHeld(t) /\ OneOf(t)
      /\ m \in Replies /\ m.ref /\ m.s = s /\ Word(m) = [xid |-> x, ok |-> ok]
  BY <1>10, ReplInvParts DEF BufferInv, ReplyInv, Typed, ReplInv, Replies, Reply, Word
<1>1. \/ route = "wire" /\ out' = out \cup {m} /\ ud' = sent /\ cku' = k /\ Wakeup(W)
      \/ /\ route = "loop" /\ cku' = [k EXCEPT ![h].rcv = Append(@, m)] /\ ud' = sent
         /\ Wakeup(W \cup {Reading(h)}) /\ UNCHANGED out
      \/ ud' = [sent EXCEPT ![s].busy = FALSE] /\ cku' = k /\ Wakeup(W) /\ UNCHANGED out
  BY <1>9, <1>10, <1>11 DEF SendReply
<1>2. /\ sent[s].at = "idle" /\ sent[s].busy /\ sent[s].buf = [xid |-> x, ok |-> ok]
      /\ \A t \in Servers \ {s} : sent[t] = ud[t]
      /\ sent \in [Servers -> NfsdStates]
  <2>6. PICK w \in Answers : w = [xid |-> x, ok |-> ok]
    <3>1. [xid |-> x, ok |-> ok] \in Answers
      BY DEF Answers
    <3> QED BY <3>1
  <2>1. sent[s] = [ud[s] EXCEPT !.at = "idle", !.busy = TRUE, !.buf = w]
    BY <1>0, <1>11, <2>6
  <2>3. ud[s] \in NfsdStates
    BY <1>0
  <2>4. sent[s].at = "idle" /\ sent[s].busy /\ sent[s].buf = w
    BY <2>1, <2>3 DEF NfsdStates
  <2>5. sent[s] \in NfsdStates
    BY <2>1, <2>3 DEF NfsdStates
  <2>7. \A t \in Servers \ {s} : sent[t] = ud[t]
    BY <1>0, <1>11
  <2>8. sent \in [Servers -> NfsdStates]
    BY <1>0, <1>11, <2>5
  <2> QED BY <2>4, <2>6, <2>7, <2>8
<1>3. ud'[s].at = "idle" /\ \A t \in Servers \ {s} : ud'[t] = ud[t]
  <2>1. CASE ud' = sent
    BY <1>2, <2>1
  <2>2. CASE ud' = [sent EXCEPT ![s].busy = FALSE]
    <3>1. ud'[s] = [sent[s] EXCEPT !.busy = FALSE] /\ sent[s] \in NfsdStates
      BY <1>2, <2>2
    <3> QED BY <1>2, <2>2, <3>1 DEF NfsdStates
  <2> QED BY <1>1, <2>1, <2>2
<1>4. /\ \A n \in out : ~IsReply(n, s)
      /\ \A g \in Handles : \A i \in DOMAIN cku[g].rcv : ~Came(g, i, s)
  BY <1>0 DEF ReplyHeld
<1>5. SendersWait'
  <2> SUFFICES ASSUME NEW t \in Servers, ud'[t].at = "send", ud'[t].busy
               PROVE  ud'[t].wanted /\ wchan'[t] = Ud(t)
    BY DEF SendersWait, Ud
  <2>1. t # s /\ ud'[t] = ud[t]
    <3>1. "idle" # "send"
      OBVIOUS
    <3> QED BY <1>3, <3>1
  <2>2. ud[t].wanted /\ wchan[t] = Ud(t)
    BY <2>1 DEF BufferInv, ReplInv, SendersWait
  <2>3. \A r : Ud(r) \notin W \cup {Reading(h)}
    BY ChannelsApart
  <2>4. wchan' = Woken(W) \/ wchan' = Woken(W \cup {Reading(h)})
    BY <1>1 DEF Wakeup
  <2> QED BY <2>1, <2>2, <2>3, <2>4, OtherWakes
<1>6. CASE route = "wire" /\ out' = out \cup {m} /\ ud' = sent /\ cku' = k
  <2>1. \A g, i, t : g \in Handles => (Came(g, i, t)' <=> Came(g, i, t))
    BY <1>6 DEF Came
  <2>2. \A t \in Servers : IsReply(m, t) <=> t = s
    BY <1>0 DEF IsReply, Replies
  <2>3. ReplyHeld(s)' /\ OneOf(s)'
    <3>1. \A n \in out' : IsReply(n, s) => n = m
      BY <1>4, <1>6
    <3>2. \A g \in Handles : \A i \in DOMAIN cku'[g].rcv : ~Came(g, i, s)'
      BY <1>4, <1>6, <2>1
    <3>3. m \in out' /\ IsReply(m, s) /\ ud'[s].busy /\ Word(m) = ud'[s].buf
      BY <1>0, <1>2, <1>6, <2>2
    <3>4. ReplyHeld(s)'
      BY <3>1, <3>2, <3>3 DEF ReplyHeld, IsReply, Word
    <3>5. OneOf(s)'
      BY <3>1, <3>2 DEF OneOf, IsReply
    <3> QED BY <3>4, <3>5
  <2>4. ASSUME NEW t \in Servers \ {s} PROVE ReplyHeld(t)' /\ OneOf(t)'
    <3>1. ReplySame(t)
      BY <1>3, <1>6, <2>1, <2>2 DEF ReplySame
    <3> QED BY <1>0, <3>1, ReplyHeldSame
  <2> QED BY <1>5, <2>3, <2>4 DEF ReplInv, OneReply, RepliesHeld, ReplyHeld, OneOf
<1>7. CASE /\ route = "loop" /\ cku' = [k EXCEPT ![h].rcv = Append(@, m)] /\ ud' = sent
           /\ UNCHANGED out
  <2>6. PICK c \in Seq(Replies) : c = cku[h].rcv
    BY <1>0 DEF HandleStates
  <2>7. PICK last : last = Len(c) + 1
    OBVIOUS
  <2>1. cku'[h].rcv = Append(c, m) /\ \A g \in Handles \ {h} : cku'[g].rcv = cku[g].rcv
    <3>1. k[h] \in HandleStates /\ cku'[h] = [k[h] EXCEPT !.rcv = Append(c, m)]
      BY <1>7, <2>6
    <3>2. \A g \in Handles \ {h} : cku'[g] = k[g]
      BY <1>7
    <3>3. cku'[h].rcv = Append(c, m)
      BY <3>1 DEF HandleStates
    <3>4. \A g \in Handles \ {h} : cku'[g].rcv = cku[g].rcv
      BY <3>2
    <3> QED BY <3>3, <3>4
  <2>2. /\ last \notin DOMAIN c /\ DOMAIN cku'[h].rcv = DOMAIN c \cup {last}
        /\ cku'[h].rcv[last] = m /\ \A i \in DOMAIN c : cku'[h].rcv[i] = c[i]
    <3>0. m \in Replies
      BY <1>0
    <3>1. /\ Len(c) \in Nat /\ DOMAIN c = 1 .. Len(c) /\ DOMAIN Append(c, m) = 1 .. Len(c) + 1
          /\ Append(c, m)[Len(c) + 1] = m /\ \A i \in DOMAIN c : Append(c, m)[i] = c[i]
      BY <3>0
    <3>2. 1 .. Len(c) + 1 = (1 .. Len(c)) \cup {last} /\ last \notin 1 .. Len(c)
      BY <2>7, <3>1
    <3> QED BY <2>1, <2>7, <3>1, <3>2
  <2>3. /\ \A t \in Servers : Came(h, last, t)' <=> t = s
        /\ \A i \in DOMAIN c : \A t : Came(h, i, t)' <=> Came(h, i, t)
        /\ \A g \in Handles \ {h} : \A i, t : Came(g, i, t)' <=> Came(g, i, t)
    BY <1>0, <2>1, <2>2, <2>6 DEF Came
  <2>4. ReplyHeld(s)' /\ OneOf(s)'
    <3>1. \A n \in out' : ~IsReply(n, s)
      BY <1>4, <1>7
    <3>2. ASSUME NEW g \in Handles, NEW i \in DOMAIN cku'[g].rcv, Came(g, i, s)'
          PROVE  g = h /\ i = last
      <4>1. CASE g # h
        BY <1>4, <2>1, <2>3, <3>2, <4>1
      <4>2. CASE g = h /\ i # last
        <5>1. i \in DOMAIN c
          BY <2>2, <4>2
        <5> QED BY <1>4, <2>3, <2>6, <3>2, <4>2, <5>1
      <4> QED BY <4>1, <4>2
    <3>3. /\ last \in DOMAIN cku'[h].rcv /\ Came(h, last, s)' /\ ud'[s].busy
          /\ Word(cku'[h].rcv[last]) = ud'[s].buf
      BY <1>0, <1>2, <1>7, <2>2, <2>3
    <3>4. ud'[s].busy <=> \/ \E n \in out' : IsReply(n, s)
                          \/ \E g \in Handles : \E i \in DOMAIN cku'[g].rcv : Came(g, i, s)'
      BY <3>3
    <3>5. \A g \in Handles : \A i \in DOMAIN cku'[g].rcv :
              Came(g, i, s)' => Word(cku'[g].rcv[i]) = ud'[s].buf
      BY <3>2, <3>3
    <3>6. ReplyHeld(s)'
      BY <3>1, <3>4, <3>5 DEF ReplyHeld, IsReply, Word
    <3>7. OneOf(s)'
      BY <3>1, <3>2 DEF OneOf, IsReply
    <3> QED BY <3>6, <3>7
  <2>5. ASSUME NEW t \in Servers \ {s} PROVE ReplyHeld(t)' /\ OneOf(t)'
    <3>1. ASSUME NEW g \in Handles, NEW i
          PROVE  /\ i \in DOMAIN cku'[g].rcv /\ Came(g, i, t)'
                          <=> i \in DOMAIN cku[g].rcv /\ Came(g, i, t)
                 /\ i \in DOMAIN cku'[g].rcv /\ Came(g, i, t)' => cku'[g].rcv[i] = cku[g].rcv[i]
      <4>1. CASE g # h
        BY <2>1, <2>3, <4>1
      <4>2. CASE g = h
        <5>1. Came(h, last, t)' <=> FALSE
          BY <2>3
        <5> QED BY <2>2, <2>3, <2>6, <4>2, <5>1
      <4> QED BY <4>1, <4>2
    <3>2. ReplySame(t)
      BY <1>3, <1>7, <3>1 DEF ReplySame
    <3> QED BY <1>0, <3>2, ReplyHeldSame
  <2> QED BY <1>5, <2>4, <2>5 DEF ReplInv, OneReply, RepliesHeld, ReplyHeld, OneOf
<1>8. CASE ud' = [sent EXCEPT ![s].busy = FALSE] /\ cku' = k /\ UNCHANGED out
  <2>1. ud'[s].busy = FALSE
    <3>1. ud'[s] = [sent[s] EXCEPT !.busy = FALSE] /\ sent[s] \in NfsdStates
      BY <1>2, <1>8
    <3> QED BY <3>1 DEF NfsdStates
  <2>2. ud[s].busy = FALSE
    BY <1>0 DEF NfsdStates
  <2>3. \A g, i, t : g \in Handles => (Came(g, i, t)' <=> Came(g, i, t))
    BY <1>8 DEF Came
  <2>4. ASSUME NEW t \in Servers PROVE ReplyHeld(t)' /\ OneOf(t)'
    <3>1. ud'[t].busy = ud[t].busy /\ (ud[t].busy => ud'[t].buf = ud[t].buf)
      BY <1>3, <2>1, <2>2
    <3>2. ReplySame(t)
      BY <1>8, <2>3, <3>1 DEF ReplySame
    <3> QED BY <1>0, <3>2, ReplyHeldSame
  <2> QED BY <1>5, <2>4 DEF ReplInv, OneReply, RepliesHeld, ReplyHeld, OneOf
<1> QED BY <1>1, <1>6, <1>7, <1>8

\* A call was done: its reply goes out, or waits for the one before
LEMMA ServedReplies ==
    ASSUME BufferInv, NEW s \in Servers, Served(s)
    PROVE  ReplInv'
<1>1. /\ ud[s].at = "vop" /\ ud \in [Servers -> NfsdStates] /\ ud[s] \in NfsdStates
      /\ ud[s].req \in Requests /\ ud[s].xid \in Nat /\ ReplInv
  BY DEF Served, BufferInv, ReplyInv, Typed, AllHonest, Serving, NfsdStates
<1>2. PICK k \in [Handles -> HandleStates] :
         k = FreeCall(ud[s].req) /\ \A g \in Handles : k[g].rcv = cku[g].rcv
  BY <1>1, FreeCallKept DEF BufferInv, ReplyInv
<1> PICK ok \in BOOLEAN : ok = (ops[ud[s].xid] = "write" \/ there \/ Dup(ud[s].xid))
  OBVIOUS
<1> PICK W : W = FreeCallWakes(ud[s].req)
  OBVIOUS
<1>3. \A t : Ud(t) \notin W
  BY ChannelsApart DEF FreeCallWakes
<1>4. \/ /\ ud[s].busy
         /\ ud' = [ud EXCEPT ![s].at = "send", ![s].ok = ok, ![s].wanted = TRUE]
         /\ cku' = k /\ Sleep(s, Ud(s), W) /\ UNCHANGED out
      \/ ~ud[s].busy /\ SendReply(s, ud, ud[s].xid, ok, k, W)
  BY <1>2 DEF Served
<1>5. CASE ~ud[s].busy /\ SendReply(s, ud, ud[s].xid, ok, k, W)
  BY <1>1, <1>2, <1>3, <1>5, SentReplies
<1>6. CASE /\ ud[s].busy
           /\ ud' = [ud EXCEPT ![s].at = "send", ![s].ok = ok, ![s].wanted = TRUE]
           /\ cku' = k /\ Sleep(s, Ud(s), W) /\ UNCHANGED out
  <2>1. /\ ud'[s].wanted /\ ud'[s].busy = ud[s].busy /\ ud'[s].buf = ud[s].buf
        /\ \A t \in Servers \ {s} : ud'[t] = ud[t]
    <3>1. ud'[s] = [ud[s] EXCEPT !.at = "send", !.ok = ok, !.wanted = TRUE]
      BY <1>1, <1>6
    <3> QED BY <1>1, <1>6, <3>1 DEF NfsdStates
  <2>2. RepliesKept
    BY <1>2, <1>6, <2>1 DEF RepliesKept
  <2>3. SendersWait'
    <3> SUFFICES ASSUME NEW t \in Servers, ud'[t].at = "send", ud'[t].busy
                 PROVE  ud'[t].wanted /\ wchan'[t] = Ud(t)
      BY DEF SendersWait, Ud
    <3>1. s \in Procs /\ t \in Procs /\ wchan' = [Woken(W) EXCEPT ![s] = Ud(s)]
      BY <1>6, RpcAssumption DEF Sleep
    <3>2. CASE t = s
      BY <2>1, <3>1, <3>2 DEF Woken
    <3>3. CASE t # s
      <4>1. ud[t].wanted /\ wchan[t] = Ud(t) /\ ud'[t] = ud[t]
        BY <1>1, <2>1, <3>3 DEF ReplInv, SendersWait
      <4> QED BY <1>3, <3>1, <3>3, <4>1 DEF Woken
    <3> QED BY <3>2, <3>3
  <2> QED BY <1>1, <2>2, <2>3, RepliesKeptKeeps DEF ReplInv
<1> QED BY <1>4, <1>5, <1>6

\* The one before was freed: the nfsd is awake only then
LEMMA SendNowReplies ==
    ASSUME BufferInv, NEW s \in Servers, SendNow(s)
    PROVE  ReplInv'
<1>1. /\ ud[s].at = "send" /\ Awake(s) /\ SendReply(s, ud, ud[s].xid, ud[s].ok, cku, {})
      /\ ud[s].req \in Requests /\ ud[s] \in NfsdStates /\ cku \in [Handles -> HandleStates]
  BY DEF SendNow, BufferInv, ReplyInv, Typed, AllHonest, Serving
<1>2. ud[s].xid \in Nat /\ ud[s].ok \in BOOLEAN
  BY <1>1 DEF NfsdStates
<1>3. ~ud[s].busy
  BY <1>1, ChannelsApart DEF BufferInv, ReplInv, SendersWait, Awake
<1> PICK W : W = {}
  OBVIOUS
<1>4. SendReply(s, ud, ud[s].xid, ud[s].ok, cku, W) /\ \A t : Ud(t) \notin W
  BY <1>1
<1> QED BY <1>1, <1>2, <1>3, <1>4, SentReplies

-------------------------------------------------------------------------------
(* The invariant                                                           *)

\* What is in the sockets came from the wire or was there
LEMMA WaysKeep ==
    ASSUME Ways, route' = route, route = "loop" => out' = {} /\ net' = {},
           \A m \in net' : m \in net \/ ~m.ref,
           route = "wire" =>
               /\ \A i \in DOMAIN so' : ~so'[i].ref
               /\ \A s \in Servers : ~ud'[s].req.ref
               /\ \A h \in Handles : \A i \in DOMAIN cku'[h].rcv : ~cku'[h].rcv[i].ref
    PROVE  Ways'
BY DEF Ways

\* A client reads no reference from the wire
LEMMA ClientWays ==
    ASSUME BufferInv, NEW h \in Handles, NEW n \in Nat, Reads(h, n),
           UNCHANGED <<route, out, net, so>>
    PROVE  Ways'
<1> PICK c \in Seq(Replies) : c = cku[h].rcv
  BY DEF BufferInv, ReplyInv, Typed, HandleStates
<1>1. NfsdsKept /\ Ways
  BY FreeRepliesKept DEF Reads, BufferInv, ReplyInv
<1>0. /\ Len(c) \in Nat /\ DOMAIN c = 1 .. Len(c) /\ n <= Len(c)
      /\ DOMAIN cku'[h].rcv = 1 .. Len(c) - n
      /\ \A i \in DOMAIN cku'[h].rcv : cku'[h].rcv[i] = c[i + n]
      /\ \A g \in Handles \ {h} : cku'[g] = cku[g]
  BY DEF Reads
<1>2. ASSUME route = "wire", NEW g \in Handles, NEW i \in DOMAIN cku'[g].rcv
      PROVE  ~cku'[g].rcv[i].ref
  <2>1. CASE g = h
    <3>1. cku'[h].rcv[i] = c[i + n] /\ i \in 1 .. Len(c) - n
      BY <1>0, <1>2, <2>1
    <3>2. i + n \in DOMAIN c
      BY <1>0, <3>1
    <3>3. \A j \in DOMAIN c : ~c[j].ref
      BY <1>1, <1>2 DEF Ways
    <3> QED BY <2>1, <3>1, <3>2, <3>3
  <2>2. CASE g # h
    <3>1. cku'[g] = cku[g]
      BY <1>0, <2>2
    <3> QED BY <1>1, <1>2, <3>1 DEF Ways
  <2> QED BY <2>1, <2>2
<1>3. route = "wire" => \A s \in Servers : ~ud'[s].req.ref
  BY <1>1 DEF Ways, NfsdsKept
<1> QED BY <1>1, <1>2, <1>3, WaysKeep DEF Ways

\* The driver and the wire copy what they carry
LEMMA MailWays ==
    ASSUME BufferInv, NEW m, (m \in out /\ Transmit(m)) \/ (m \in net /\ Deliver(m))
    PROVE  Ways'
<1>1. Ways /\ route' = route /\ m \in Mail
  BY DEF BufferInv, ReplyInv, Typed, Transmit, Deliver
<1>2. CASE m \in out /\ Transmit(m)
  <2>1. route = "wire" /\ UNCHANGED so
    BY <1>1, <1>2 DEF Transmit, Ways
  <2>2. \A n \in net' : n \in net \/ ~n.ref
    BY <1>2 DEF Transmit, Call, Reply
  <2>3. CASE m.kind = "call"
    <3>1. m \in Requests /\ ud' = ud /\ cku' = FreeCall(m)
      BY <1>1, <1>2, <2>3 DEF Transmit, Mail, Requests, Replies
    <3>2. \A h \in Handles : cku'[h].rcv = cku[h].rcv
      BY <3>1, FreeCallKept DEF BufferInv, ReplyInv
    <3>3. \A h \in Handles : \A i \in DOMAIN cku'[h].rcv : ~cku'[h].rcv[i].ref
      BY <1>1, <2>1, <3>2 DEF Ways
    <3> QED BY <1>1, <2>1, <2>2, <3>1, <3>3, WaysKeep DEF Ways
  <2>4. CASE m.kind # "call"
    <3>1. NfsdsKept /\ cku' = cku
      BY <1>2, <2>4, FreeRepliesKept DEF Transmit, BufferInv, ReplyInv
    <3>2. \A s \in Servers : ~ud'[s].req.ref
      BY <1>1, <2>1, <3>1 DEF NfsdsKept, Ways
    <3> QED BY <1>1, <2>1, <2>2, <3>1, <3>2, WaysKeep DEF Ways
  <2> QED BY <2>3, <2>4
<1>3. CASE m \in net /\ Deliver(m)
  <2>1. route = "wire" /\ ud' = ud /\ net' = net \ {m} /\ ~m.ref
    BY <1>1, <1>3 DEF Deliver, Ways
  <2>2. ASSUME NEW i \in DOMAIN so' PROVE ~so'[i].ref
    <3>1. CASE so' = so
      BY <1>1, <2>1, <2>2, <3>1 DEF Ways
    <3>2. CASE so' = Append(so, m) /\ m.kind = "call"
      <4>1. so \in Seq(Requests) /\ m \in Requests
        BY <1>1, <3>2 DEF BufferInv, ReplyInv, Typed, Mail, Requests, Replies
      <4>2. so'[i] = m \/ (i \in DOMAIN so /\ so'[i] = so[i])
        BY <2>2, <3>2, <4>1
      <4> QED BY <1>1, <2>1, <4>2 DEF Ways
    <3> QED BY <1>3, <3>1, <3>2 DEF Deliver
  <2>3. ASSUME NEW h \in Handles, NEW i \in DOMAIN cku'[h].rcv PROVE ~cku'[h].rcv[i].ref
    <3>0. cku \in [Handles -> HandleStates] /\ cku[h] \in HandleStates
      BY DEF BufferInv, ReplyInv, Typed
    <3>1. CASE cku'[h] = cku[h]
      BY <1>1, <2>1, <2>3, <3>1 DEF Ways
    <3>2. CASE cku'[h] = [cku[h] EXCEPT !.rcv = Append(cku[h].rcv, m)] /\ m.kind # "call"
      <4>1. cku[h].rcv \in Seq(Replies) /\ m \in Replies
        BY <1>1, <3>0, <3>2 DEF Mail, Requests, Replies, HandleStates
      <4>2. cku'[h].rcv = Append(cku[h].rcv, m)
        BY <3>0, <3>2 DEF HandleStates
      <4>3. cku'[h].rcv[i] = m \/ (i \in DOMAIN cku[h].rcv /\ cku'[h].rcv[i] = cku[h].rcv[i])
        BY <2>3, <4>1, <4>2
      <4> QED BY <1>1, <2>1, <4>3 DEF Ways
    <3> QED BY <1>3, <3>0, <3>1, <3>2 DEF Deliver
  <2>4. route = "loop" => out' = {} /\ net' = {}
    BY <2>1
  <2> QED BY <1>1, <2>1, <2>2, <2>3, <2>4, WaysKeep DEF Ways
<1> QED BY <1>2, <1>3

\* An nfsd refers to buffers over the loopback interface only
LEMMA ServerWays ==
    ASSUME BufferInv, NEW s \in Servers, Recv(s) \/ Served(s) \/ SendNow(s)
    PROVE  Ways'
<1>1. Ways /\ route' = route /\ net' = net /\ so \in Seq(Requests) /\ Typed
      /\ ud \in [Servers -> NfsdStates] /\ ud[s] \in NfsdStates /\ cku \in [Handles -> HandleStates]
  BY DEF BufferInv, ReplyInv, Typed, Recv, Served, SendNow
<1>2. CASE Recv(s)
  <2>1. /\ so # <<>> /\ so' = Tail(so) /\ UNCHANGED <<out, cku>>
        /\ ud' = [ud EXCEPT ![s].at = "vop", ![s].req = Head(so), ![s].xid = XidOf(Head(so)),
                            ![s].dup = ops[XidOf(Head(so))] = "write" /\ Dup(XidOf(Head(so)))]
    BY <1>2 DEF Recv
  <2>2. Head(so) = so[1] /\ 1 \in DOMAIN so /\ \A i \in DOMAIN so' : i + 1 \in DOMAIN so /\ so'[i] = so[i + 1]
    BY <1>1, <2>1
  <2>3. ud'[s].req = so[1] /\ \A t \in Servers \ {s} : ud'[t] = ud[t]
    <3>1. ud'[s] = [ud[s] EXCEPT !.at = "vop", !.req = Head(so), !.xid = XidOf(Head(so)),
                                 !.dup = ops[XidOf(Head(so))] = "write" /\ Dup(XidOf(Head(so)))]
      BY <1>1, <2>1
    <3> QED BY <1>1, <2>1, <2>2, <3>1 DEF NfsdStates
  <2>4. route = "wire" => /\ \A i \in DOMAIN so' : ~so'[i].ref
                          /\ \A t \in Servers : ~ud'[t].req.ref
    BY <1>1, <2>2, <2>3 DEF Ways
  <2> QED BY <1>1, <2>1, <2>4, WaysKeep DEF Ways
<1>3. ASSUME NEW x, NEW ok, NEW k \in [Handles -> HandleStates], NEW W,
             SendReply(s, ud, x, ok, k, W), so' = so, \A h \in Handles : k[h].rcv = cku[h].rcv
      PROVE  Ways'
  <2>1. ud'[s].req = ud[s].req /\ \A t \in Servers \ {s} : ud'[t] = ud[t]
    BY <1>1, <1>3, SentParts
  <2>2. route = "loop" => out' = out
    BY <1>3 DEF SendReply
  <2>3. route = "wire" => cku' = k
    BY <1>3 DEF SendReply
  <2>4. route = "wire" => \A h \in Handles : \A i \in DOMAIN cku'[h].rcv : ~cku'[h].rcv[i].ref
    BY <1>1, <1>3, <2>3 DEF Ways
  <2> QED BY <1>1, <1>3, <2>1, <2>2, <2>4, WaysKeep DEF Ways
<1>4. CASE Served(s)
  <2>1. ud[s].req \in Requests
    BY <1>4 DEF Served, BufferInv, ReplyInv, AllHonest, Serving
  <2>2. PICK k \in [Handles -> HandleStates] :
           k = FreeCall(ud[s].req) /\ \A h \in Handles : k[h].rcv = cku[h].rcv
    BY <1>1, <2>1, FreeCallKept
  <2>3. PICK ok : \/ /\ ud' = [ud EXCEPT ![s].at = "send", ![s].ok = ok, ![s].wanted = TRUE]
                     /\ cku' = k /\ out' = out
                  \/ SendReply(s, ud, ud[s].xid, ok, k, FreeCallWakes(ud[s].req))
    BY <1>4, <2>2 DEF Served
  <2>4. so' = so
    BY <1>4 DEF Served
  <2>5. CASE /\ ud' = [ud EXCEPT ![s].at = "send", ![s].ok = ok, ![s].wanted = TRUE]
             /\ cku' = k /\ out' = out
    <3>1. ud'[s].req = ud[s].req /\ \A t \in Servers \ {s} : ud'[t] = ud[t]
      <4>1. ud'[s] = [ud[s] EXCEPT !.at = "send", !.ok = ok, !.wanted = TRUE]
        BY <1>1, <2>5
      <4> QED BY <1>1, <2>5, <4>1 DEF NfsdStates
    <3>2. route = "wire" => /\ \A t \in Servers : ~ud'[t].req.ref
                            /\ \A h \in Handles : \A i \in DOMAIN cku'[h].rcv : ~cku'[h].rcv[i].ref
      BY <1>1, <2>2, <2>5, <3>1 DEF Ways
    <3> QED BY <1>1, <2>4, <2>5, <3>2, WaysKeep DEF Ways
  <2> QED BY <1>3, <2>2, <2>3, <2>4, <2>5
<1>5. CASE SendNow(s)
  <2>1. SendReply(s, ud, ud[s].xid, ud[s].ok, cku, {}) /\ so' = so
    BY <1>5 DEF SendNow
  <2> QED BY <1>1, <1>3, <2>1
<1> QED BY <1>2, <1>4, <1>5

\* Starting, sending and the timeouts
LEMMA QuietWays ==
    ASSUME BufferInv, NEW p \in Clients, Send(p) \/ Tick(p) \/ Timeout(p) \/ \E op : Start(p, op)
    PROVE  Ways'
<1>1. Ways /\ route' = route /\ net' = net /\ ud' = ud
  BY DEF BufferInv, Send, Tick, Timeout, Start, rpcVars
<1>2. route = "wire" => so' = so
  BY DEF Send, Tick, Timeout, Start, rpcVars
<1>3. route = "loop" => out' = out
  BY DEF Send, Tick, Timeout, Start, rpcVars
<1>4. \A h \in Handles : cku'[h].rcv = cku[h].rcv
  BY QuietRcv DEF BufferInv
<1> QED BY <1>1, <1>2, <1>3, <1>4, WaysKeep DEF Ways

\* Nor do they touch the requests
LEMMA QuietCalls ==
    ASSUME BufferInv, NEW p \in Clients, Tick(p) \/ Timeout(p) \/ \E op : Start(p, op)
    PROVE  CallInv'
<1>1. ud' = ud /\ out' = out /\ so' = so
  BY DEF Tick, Timeout, Start, rpcVars
<1>2. ASSUME NEW h \in Handles PROVE cku'[h].busy = cku[h].busy /\ cku'[h].buf = cku[h].buf
  <2>1. cku \in [Handles -> HandleStates] /\ cku[h] \in HandleStates
    BY DEF BufferInv, ReplyInv, Typed
  <2>2. CASE cku' = cku
    BY <2>2
  <2>3. CASE Timeout(p)
    <3>1. cku' = [cku EXCEPT ![cl[p].h].timedout = TRUE]
      BY <2>3 DEF Timeout
    <3>2. cku'[h] = cku[h] \/ cku'[h] = [cku[h] EXCEPT !.timedout = TRUE]
      BY <2>1, <3>1
    <3> QED BY <2>1, <3>2 DEF HandleStates
  <2>4. CASE \E op : Start(p, op)
    <3>1. PICK g : cku' = [cku EXCEPT ![g].inuse = TRUE]
      BY <2>4 DEF Start
    <3>2. cku'[h] = cku[h] \/ cku'[h] = [cku[h] EXCEPT !.inuse = TRUE]
      BY <2>1, <3>1
    <3> QED BY <2>1, <3>2 DEF HandleStates
  <2> QED BY <2>2, <2>3, <2>4 DEF Tick, rpcVars
<1>3. CallsKept
  BY <1>1, <1>2 DEF CallsKept
<1> QED BY <1>3, CallsKeptKeeps DEF BufferInv

\* No buffer is busy and no datagram under way at first
LEMMA BufferInvInit == RpcInit => BufferInv
<1> SUFFICES ASSUME RpcInit PROVE BufferInv
  OBVIOUS
<1>1. /\ route \in Routes /\ out = {} /\ net = {} /\ so = <<>>
      /\ \A h \in Handles : ~cku[h].busy /\ cku[h].rcv = <<>>
      /\ \A s \in Servers : ud[s].at = "idle" /\ ~ud[s].req.ref /\ ~ud[s].busy
  BY DEF RpcInit, Call
<1>2. "idle" # "vop" /\ "idle" # "send"
  OBVIOUS
<1>3. DOMAIN so = {} /\ \A h \in Handles : DOMAIN cku[h].rcv = {}
  BY <1>1
<1>4. Ways
  BY <1>1, <1>3, RpcAssumption DEF Ways
<1>5. CallInv
  BY <1>1, <1>2, <1>3 DEF CallInv, OneCall, CallsHeld, CallHeld, Doing
<1>6. ReplInv
  BY <1>1, <1>2, <1>3 DEF ReplInv, OneReply, OneOf, RepliesHeld, ReplyHeld, SendersWait
<1> QED BY <1>4, <1>5, <1>6, ReplyInvInit DEF BufferInv

\* Every step keeps the invariant: those of the clients, of the driver and the wire, of the nfsds
LEMMA BufferInvNext == BufferInv /\ [RpcNext]_<<rpcVars, wchan>> => BufferInv'
<1> SUFFICES ASSUME BufferInv, [RpcNext]_<<rpcVars, wchan>> PROVE BufferInv'
  OBVIOUS
<1>0. ReplyInv'
  BY ReplyInvNext DEF BufferInv
<1>1. ASSUME NEW p \in Clients, Tick(p) \/ Timeout(p) \/ \E op : Start(p, op) PROVE BufferInv'
  BY <1>0, <1>1, QuietCalls, QuietReplies, QuietWays DEF BufferInv
<1>2. ASSUME NEW p \in Clients, Send(p) PROVE BufferInv'
  BY <1>0, <1>2, SendCalls, QuietReplies, QuietWays DEF BufferInv
<1>3. ASSUME NEW p \in Clients, ClientTurn(p), ~Send(p) PROVE BufferInv'
  <2>1. PICK h \in Handles, n \in Nat : Reads(h, n)
    BY <1>3, TurnReads DEF BufferInv
  <2>2. UNCHANGED <<route, out, net, so>>
    BY <1>3 DEF ClientTurn, FlushReplies, WaitForBuffer, CantSend, Lbolt, Accept, CantRecv,
       WaitForReply, TimedOut, Answered
  <2> QED BY <1>0, <2>1, <2>2, ClientCalls, ClientReplies, ClientWays DEF BufferInv
<1>4. ASSUME NEW m \in out, Transmit(m) PROVE BufferInv'
  BY <1>0, <1>4, TransmitCalls, TransmitReplies, MailWays DEF BufferInv
<1>5. ASSUME NEW m \in net, Deliver(m) PROVE BufferInv'
  BY <1>0, <1>5, DeliverCalls, DeliverReplies, MailWays DEF BufferInv
<1>6. ASSUME NEW s \in Servers, Recv(s) \/ Served(s) \/ SendNow(s) PROVE BufferInv'
  BY <1>0, <1>6, RecvCalls, ServedCalls, SendNowCalls, RecvReplies, ServedReplies,
     SendNowReplies, ServerWays DEF BufferInv
<1>7. CASE UNCHANGED <<rpcVars, wchan>>
  <2>1. UNCHANGED <<route, out, net, so, cku, ud, wchan>>
    BY <1>7 DEF rpcVars
  <2>2. CallInv'
    BY <2>1, CallsKeptKeeps DEF BufferInv, CallsKept
  <2>3. RepliesKept /\ WaitersKept
    BY <2>1 DEF RepliesKept, WaitersKept
  <2>4. Ways'
    BY <2>1 DEF BufferInv, Ways
  <2> QED BY <1>0, <2>2, <2>3, <2>4, WaitersKeep DEF BufferInv
<1> QED BY <1>1, <1>2, <1>3, <1>4, <1>5, <1>6, <1>7 DEF RpcNext

(* The buffer of a handle, cku_outbuf, is busy exactly while a datagram refers to it, and is
   not written over until buffree gives it back; so is the reply buffer of an nfsd, which a
   reply over the loopback interface lends to the socket of the client. With any number of
   retries, lost and doubled datagrams.                                                   *)
THEOREM BuffersAreOwned == RpcSpec => []BuffersOwned
BY BufferInvInit, BufferInvNext, BufferInvOwned, PTL DEF RpcSpec

-------------------------------------------------------------------------------
(* The cache of duplicates                                                  *)


Calls == 1 .. Len(ops)
\* Every request has the transaction id of a call
MailNumbered == /\ \A m \in out \cup net : m.kind = "call" => m.xid \in Calls
                /\ \A i \in DOMAIN so : so[i].xid \in Calls
WorkNumbered == /\ \A s \in Servers : ud[s].at = "vop" => ud[s].xid \in Calls
                /\ \A i \in DOMAIN log : log[i].xid \in Calls

\* How many requests were saved since the entry i of the log; as long as these are fewer than
\* the cache has places, its own is so many places from the end
Since(i) == Saves(i, Len(log) + 1)
CacheKeeps ==
    /\ cache \in Seq(Nat) /\ Len(cache) <= CacheSize
    /\ \A i \in DOMAIN log : log[i].ok /\ Since(i) < CacheSize =>
          Since(i) < Len(cache) /\ cache[Len(cache) - Since(i)] = log[i].xid

\* The removals alone: no ENOENT for one that was done
NoEnoent ==
    \A j \in DOMAIN log : \A i \in 1 .. j - 1 :
        log[i].xid = log[j].xid /\ log[i].ok /\ ~log[j].ok => Saves(i, j) >= CacheSize

\* With one nfsd what it found in the cache is so until it has done its write
OneNfsd == \A s, t \in Servers : s = t
StillDup == \A s \in Servers :
               ud[s].at = "vop" => ud[s].dup = (ops[ud[s].xid] = "write" /\ Dup(ud[s].xid))

OnceInv == BufferInv /\ MailNumbered /\ WorkNumbered /\ CacheKeeps /\ NoEnoent
           /\ (OneNfsd => StillDup /\ DoneOnce)

Entries == [xid : Nat, ran : BOOLEAN, ok : BOOLEAN]

\* The saves between two entries of the log
LEMMA SavesFinite ==
    ASSUME NEW i \in Nat, NEW j \in Nat
    PROVE  IsFiniteSet({k \in i + 1 .. j - 1 : log[k].ok}) /\ Saves(i, j) \in Nat
<1>1. IsFiniteSet(i + 1 .. j - 1)
  BY FS_Interval
<1>2. IsFiniteSet({k \in i + 1 .. j - 1 : log[k].ok})
  BY <1>1, FS_Subset
<1> QED BY <1>2, FS_CardinalityType DEF Saves

\* They stay when the log grows
LEMMA SavesSame ==
    ASSUME log \in Seq(Entries), NEW e \in Entries, log' = Append(log, e), NEW i \in Nat,
           NEW j \in 1 .. Len(log) + 1
    PROVE  Saves(i, j)' = Saves(i, j)
<1>1. Len(log) \in Nat /\ \A k \in i + 1 .. j - 1 : k \in 1 .. Len(log)
  OBVIOUS
<1>2. \A k \in i + 1 .. j - 1 : log'[k] = log[k]
  BY <1>1
<1>3. {k \in i + 1 .. j - 1 : log'[k].ok} = {k \in i + 1 .. j - 1 : log[k].ok}
  BY <1>2
<1> QED BY <1>3 DEF Saves

\* A new entry is one more if its request was saved
LEMMA SinceGrows ==
    ASSUME log \in Seq(Entries), NEW e \in Entries, log' = Append(log, e), NEW i \in DOMAIN log
    PROVE  /\ Since(i) \in Nat
           /\ Since(i)' = IF e.ok THEN Since(i) + 1 ELSE Since(i)
<1>0. PICK n \in Nat : n = Len(log)
  OBVIOUS
<1>1. /\ i \in 1 .. n /\ Len(log') = n + 1 /\ log'[n + 1] = e
      /\ \A k \in i + 1 .. n : log'[k] = log[k]
  BY <1>0
<1> DEFINE A == {k \in i + 1 .. n : log[k].ok}
           B == {k \in i + 1 .. n + 1 : log'[k].ok}
<1>2. IsFiniteSet(A) /\ Since(i) = Cardinality(A) /\ Since(i) \in Nat
  <2>1. i \in Nat /\ n + 1 \in Nat /\ (n + 1) - 1 = n
    BY <1>0, <1>1
  <2> QED BY <1>0, <2>1, SavesFinite DEF Since, Saves
<1>3. Since(i)' = Cardinality(B)
  <2>1. Since(i)' = Cardinality({k \in i + 1 .. (Len(log') + 1) - 1 : log'[k].ok})
    BY DEF Since, Saves
  <2>2. (Len(log') + 1) - 1 = n + 1
    BY <1>0, <1>1
  <2> QED BY <2>1, <2>2
<1>4. CASE e.ok
  <2>1. B = A \cup {n + 1} /\ n + 1 \notin A
    BY <1>0, <1>1, <1>4
  <2> QED BY <1>2, <1>3, <1>4, <2>1, FS_AddElement
<1>5. CASE ~e.ok
  <2>1. B = A
    BY <1>0, <1>1, <1>5
  <2> QED BY <1>2, <1>3, <1>5, <2>1
<1> QED BY <1>2, <1>4, <1>5

\* Nothing was saved since the last entry
LEMMA SinceLast ==
    ASSUME log \in Seq(Entries), NEW e \in Entries, log' = Append(log, e),
           NEW i, i = Len(log) + 1
    PROVE  Since(i)' = 0
<1>1. {k \in i + 1 .. (Len(log') + 1) - 1 : log'[k].ok} = {}
  OBVIOUS
<1>2. Since(i)' = Cardinality({k \in i + 1 .. (Len(log') + 1) - 1 : log'[k].ok})
  BY DEF Since, Saves
<1> QED BY <1>1, <1>2, FS_EmptySet

\* A request at the end of the cache
LEMMA Appended ==
    ASSUME NEW c \in Seq(Nat), NEW x \in Nat, NEW d, d = Append(c, x)
    PROVE  /\ d \in Seq(Nat) /\ Len(d) = Len(c) + 1 /\ d[Len(c) + 1] = x
           /\ \A k \in 1 .. Len(c) : d[k] = c[k]
BY AppendProperties

\* svckudp_dupsave, for the cache
LEMMA SaveKeeps ==
    ASSUME CacheKeeps, log \in Seq(Entries), NEW e \in Entries, log' = Append(log, e),
           cache' = IF e.ok THEN Dupsave(e.xid) ELSE cache
    PROVE  CacheKeeps'
<1>0. PICK L \in Nat : L = Len(cache)
  BY DEF CacheKeeps
<1>1. cache \in Seq(Nat) /\ L <= CacheSize /\ CacheSize \in Nat \ {0} /\ e.xid \in Nat
      /\ DOMAIN cache = 1 .. L
  BY <1>0, RpcAssumption DEF CacheKeeps, Entries
<1>2. DOMAIN log' = DOMAIN log \cup {Len(log) + 1}
      /\ (\A i \in DOMAIN log : log'[i] = log[i]) /\ log'[Len(log) + 1] = e
  OBVIOUS
<1>3. CASE ~e.ok
  <2>1. cache' = cache
    BY <1>3
  <2>2. ASSUME NEW i \in DOMAIN log', log'[i].ok, Since(i)' < CacheSize
        PROVE  Since(i)' < Len(cache') /\ cache'[Len(cache') - Since(i)'] = log'[i].xid
    <3>1. i \in DOMAIN log /\ log'[i] = log[i]
      BY <1>2, <1>3, <2>2
    <3>2. Since(i)' = Since(i)
      BY <1>3, <3>1, SinceGrows
    <3> QED BY <2>1, <2>2, <3>1, <3>2 DEF CacheKeeps
  <2> QED BY <2>1, <2>2 DEF CacheKeeps
<1>4. CASE e.ok
  <2>1. PICK M \in Nat : /\ M = Len(cache') /\ cache' \in Seq(Nat) /\ M <= CacheSize
                         /\ M >= 1 /\ cache'[M] = e.xid
                         /\ \/ /\ M = L + 1
                               /\ \A k \in 1 .. L : cache'[k] = cache[k]
                            \/ /\ M = L /\ L = CacheSize
                               /\ \A k \in 1 .. L - 1 : cache'[k] = cache[k + 1]
    <3>1. CASE L < CacheSize
      <4>1. cache' = Append(cache, e.xid)
        BY <1>0, <1>4, <3>1 DEF Dupsave
      <4>2. /\ cache' \in Seq(Nat) /\ Len(cache') = Len(cache) + 1 /\ cache'[Len(cache) + 1] = e.xid
            /\ \A k \in 1 .. Len(cache) : cache'[k] = cache[k]
        <5>0. PICK c \in Seq(Nat), x \in Nat : c = cache /\ x = e.xid
          BY <1>1
        <5>1. PICK d : d = cache'
          OBVIOUS
        <5>2. d = Append(c, x)
          BY <4>1, <5>0, <5>1
        <5>3. /\ d \in Seq(Nat) /\ Len(d) = Len(c) + 1 /\ d[Len(c) + 1] = x
              /\ \A k \in 1 .. Len(c) : d[k] = c[k]
          BY <5>2, Appended
        <5> QED BY <5>0, <5>1, <5>3
      <4> QED BY <1>0, <1>1, <3>1, <4>2
    <3>2. CASE ~(L < CacheSize)
      <4>1. cache' = Append(Tail(cache), e.xid) /\ L = CacheSize
        BY <1>0, <1>1, <1>4, <3>2 DEF Dupsave
      <4>2. cache # <<>>
        BY <1>0, <1>1, <4>1
      <4>3. PICK t \in Seq(Nat) : t = Tail(cache)
        BY <1>1, <4>2, HeadTailProperties
      <4>4. Len(t) = L - 1 /\ \A k \in 1 .. L - 1 : t[k] = cache[k + 1]
        BY <1>0, <1>1, <4>2, <4>3, HeadTailProperties
      <4>5. /\ cache' \in Seq(Nat) /\ Len(cache') = Len(t) + 1 /\ cache'[Len(t) + 1] = e.xid
            /\ \A k \in 1 .. Len(t) : cache'[k] = t[k]
        <5>0. PICK x \in Nat : x = e.xid
          BY <1>1
        <5>1. PICK d : d = cache'
          OBVIOUS
        <5>2. d = Append(t, x)
          BY <4>1, <4>3, <5>0, <5>1
        <5>3. /\ d \in Seq(Nat) /\ Len(d) = Len(t) + 1 /\ d[Len(t) + 1] = x
              /\ \A k \in 1 .. Len(t) : d[k] = t[k]
          BY <5>2, Appended
        <5> QED BY <5>0, <5>1, <5>3
      <4> QED BY <1>0, <1>1, <4>1, <4>4, <4>5
    <3> QED BY <3>1, <3>2
  <2>2. ASSUME NEW i \in DOMAIN log', log'[i].ok, Since(i)' < CacheSize
        PROVE  Since(i)' < Len(cache') /\ cache'[Len(cache') - Since(i)'] = log'[i].xid
    <3>1. CASE i = Len(log) + 1
      <4>1. Since(i)' = 0
        BY <3>1, SinceLast
      <4> QED BY <1>2, <2>1, <3>1, <4>1
    <3>2. CASE i # Len(log) + 1
      <4>1. i \in DOMAIN log /\ log'[i] = log[i]
        BY <1>2, <3>2
      <4>2. PICK n \in Nat : n = Since(i) /\ Since(i)' = n + 1
        BY <1>4, <4>1, SinceGrows
      <4>3. n < L /\ cache[L - n] = log[i].xid /\ n + 1 < CacheSize
        BY <1>0, <1>1, <2>2, <4>1, <4>2 DEF CacheKeeps
      <4>4. n + 1 < M /\ cache'[M - (n + 1)] = cache[L - n]
        <5>1. CASE M = L + 1 /\ \A k \in 1 .. L : cache'[k] = cache[k]
          <6>1. M - (n + 1) = L - n /\ L - n \in 1 .. L /\ n + 1 < M
            BY <4>3, <5>1
          <6> QED BY <5>1, <6>1
        <5>2. CASE M = L /\ L = CacheSize /\ \A k \in 1 .. L - 1 : cache'[k] = cache[k + 1]
          <6>1. M - (n + 1) \in 1 .. L - 1 /\ (M - (n + 1)) + 1 = L - n /\ n + 1 < M
            BY <4>3, <5>2
          <6> QED BY <5>2, <6>1
        <5> QED BY <2>1, <5>1, <5>2
      <4> QED BY <2>1, <4>1, <4>2, <4>3, <4>4
    <3> QED BY <3>1, <3>2
  <2> QED BY <2>1, <2>2 DEF CacheKeeps
<1> QED BY <1>3, <1>4

\* A request that was saved is found until as many others were saved as the cache has places
LEMMA SavedIsFound ==
    ASSUME CacheKeeps, log \in Seq(Entries), NEW i \in DOMAIN log, log[i].ok, Since(i) < CacheSize
    PROVE  Dup(log[i].xid)
<1>1. PICK n \in Nat : n = Since(i)
  <2>1. i \in Nat /\ Len(log) + 1 \in Nat
    OBVIOUS
  <2> QED BY <2>1, SavesFinite DEF Since
<1>2. PICK l \in Nat : l = Len(cache) /\ DOMAIN cache = 1 .. l
  BY DEF CacheKeeps
<1>3. n < l /\ cache[l - n] = log[i].xid
  BY <1>1, <1>2 DEF CacheKeeps
<1>4. l - n \in DOMAIN cache
  BY <1>1, <1>2, <1>3
<1> QED BY <1>3, <1>4 DEF Dup

\* The calls stay what they are
OpsGrow == /\ ops \in Seq({"write", "remove"}) /\ ops' \in Seq({"write", "remove"})
           /\ \A x \in Calls : x \in Calls' /\ ops'[x] = ops[x]

\* A step calls nothing, or one thing more
LEMMA OpsAppended ==
    ASSUME ReplyInv, ReplyInv', UNCHANGED ops \/ \E op : ops' = Append(ops, op)
    PROVE  OpsGrow
<1>1. ops \in Seq({"write", "remove"}) /\ ops' \in Seq({"write", "remove"})
  BY DEF ReplyInv, Typed
<1>2. CASE UNCHANGED ops
  BY <1>1, <1>2 DEF OpsGrow, Calls
<1>3. ASSUME NEW op, ops' = Append(ops, op) PROVE OpsGrow
  <2>1. Len(ops) \in Nat /\ Len(ops') = Len(ops) + 1 /\ \A x \in 1 .. Len(ops) : ops'[x] = ops[x]
    BY <1>1, <1>3
  <2> QED BY <1>1, <2>1 DEF OpsGrow, Calls
<1> QED BY <1>2, <1>3

\* The clients do the calls, and leave the wire, the cache and the log
LEMMA OpsOfClients ==
    ASSUME NEW p \in Clients,
           ClientTurn(p) \/ Tick(p) \/ Timeout(p) \/ \E op : Start(p, op)
    PROVE  /\ UNCHANGED ops \/ \E op : ops' = Append(ops, op)
           /\ UNCHANGED <<net, cache, log>>
<1>1. CASE FlushReplies(p) \/ WaitForBuffer(p) \/ Send(p) \/ Lbolt(p) \/ Accept(p)
           \/ WaitForReply(p) \/ Answered(p) \/ Timeout(p) \/ Tick(p)
  BY <1>1 DEF FlushReplies, WaitForBuffer, Send, Lbolt, Accept, WaitForReply, Answered, Timeout,
     Tick, rpcVars
<1>2. CASE CantSend(p) \/ CantRecv(p) \/ TimedOut(p)
  BY <1>2 DEF CantSend, CantRecv, TimedOut, Failed
<1>3. CASE \E op : Start(p, op)
  BY <1>3 DEF Start
<1> QED BY <1>1, <1>2, <1>3 DEF ClientTurn

\* A request of a client has the transaction id of its call.
LEMMA SendNumbers ==
    ASSUME BufferInv, MailNumbered, OpsGrow, NEW p \in Clients, Send(p)
    PROVE  MailNumbered'
<1>0. PICK m : m = Call(cl[p].h, cl[p].xid, TRUE)
  OBVIOUS
<1>1. /\ out' \in {out, out \cup {m}} /\ net' = net
      /\ so' \in {so, Append(so, m)}
  BY <1>0 DEF Send
<1>2. m.xid \in Calls
  BY <1>0 DEF Send, BufferInv, ReplyInv, HasHandle, Call, Calls
<1>3. so \in Seq(Requests) /\ m \in Requests
  <2>1. cl[p].h \in Handles /\ cl[p].xid \in Nat
    BY InCall DEF Send, BufferInv, ClientStates
  <2> QED BY <1>0, <2>1 DEF BufferInv, ReplyInv, Typed, Requests, Call
<1>4. \A i \in DOMAIN so' : (i \in DOMAIN so /\ so'[i] = so[i]) \/ so'[i] = m
  <2>1. CASE so' = so
    BY <2>1
  <2>2. CASE so' = Append(so, m)
    BY <1>3, <2>2
  <2> QED BY <1>1, <2>1, <2>2
<1>5. \A i \in DOMAIN so' : so'[i].xid \in Calls'
  BY <1>2, <1>4 DEF MailNumbered, OpsGrow
<1>6. \A n \in out' \cup net' : n.kind = "call" => n.xid \in Calls'
  BY <1>1, <1>2 DEF MailNumbered, OpsGrow
<1> QED BY <1>5, <1>6 DEF MailNumbered

\* No other step makes a request; the driver sends the one that was handed to it.
LEMMA NumbersStay ==
    ASSUME MailNumbered, OpsGrow,
           \A m \in out' \cup net' : m.kind = "call" => m \in out \cup net
                                        \/ \E n \in out : n.kind = "call" /\ m.xid = n.xid,
           \A i \in DOMAIN so' : (\E j \in DOMAIN so : so'[i] = so[j])
                                    \/ \E n \in net : n.kind = "call" /\ so'[i] = n
    PROVE  MailNumbered'
BY DEF MailNumbered, OpsGrow

\* What a request says is what its sender wrote
LEMMA HeldSays ==
    ASSUME BufferInv, NEW m \in Requests, m \in out \/ \E i \in DOMAIN so : m = so[i]
    PROVE  XidOf(m) = m.xid
<1>1. m.h \in Handles /\ m.kind = "call"
  BY DEF Requests
<1>2. CASE m.ref
  <2>1. CallHeld(m.h)
    BY <1>1 DEF BufferInv, CallInv, CallsHeld
  <2>2. m.xid = cku[m.h].buf
    BY <1>1, <1>2, <2>1 DEF CallHeld, IsCall, Queued
  <2> QED BY <1>2, <2>2 DEF XidOf
<1> QED BY <1>2 DEF XidOf

\* The driver sends what the buffer says, which is the call that was handed to it
LEMMA TransmitNumbers ==
    ASSUME BufferInv, MailNumbered, OpsGrow, NEW m \in out, Transmit(m)
    PROVE  MailNumbered'
<1>1. m \in Mail
  BY DEF BufferInv, ReplyInv, Typed
<1>2. CASE m.kind = "call"
  <2>1. m \in Requests
    BY <1>1, <1>2 DEF Mail, Replies
  <2>2. XidOf(m) = m.xid
    BY <2>1, HeldSays
  <2> PICK c : c = Call(m.h, m.xid, FALSE)
    OBVIOUS
  <2>3. out' = out \ {m} /\ net' = net \cup {c} /\ so' = so /\ c.xid = m.xid
    BY <1>2, <2>2 DEF Transmit, Call
  <2> QED BY <1>2, <2>3, NumbersStay
<1>3. CASE m.kind # "call"
  <2> PICK c : c = Reply(m.s, m.h, Says(m).xid, Says(m).ok, FALSE)
    OBVIOUS
  <2>1. out' = out \ {m} /\ net' = net \cup {c} /\ so' = so /\ c.kind # "call"
    BY <1>3 DEF Transmit, Reply
  <2> QED BY <2>1, NumbersStay
<1> QED BY <1>2, <1>3

\* The request comes as it was sent
LEMMA DeliverNumbers ==
    ASSUME BufferInv, MailNumbered, OpsGrow, NEW m \in net, Deliver(m)
    PROVE  MailNumbered'
<1>1. m \in Mail /\ so \in Seq(Requests)
  BY DEF BufferInv, ReplyInv, Typed
<1>2. net' = net \ {m} /\ out' = out /\ (so' = so \/ (m.kind = "call" /\ so' = Append(so, m)))
  <2>1. net' = net \ {m} /\ out' = out
    BY DEF Deliver
  <2>2. CASE m.kind = "call"
    <3>1. so' = IF Len(so) < QMax THEN Append(so, m) ELSE so
      BY <2>2 DEF Deliver
    <3> QED BY <2>1, <2>2, <3>1
  <2>3. CASE m.kind # "call"
    <3>1. so' = so
      BY <2>3 DEF Deliver
    <3> QED BY <2>1, <3>1
  <2> QED BY <2>2, <2>3
<1>3. CASE so' = so
  BY <1>2, <1>3, NumbersStay
<1>4. CASE m.kind = "call" /\ so' = Append(so, m)
  <2>1. m \in Requests
    BY <1>1, <1>4 DEF Mail, Replies
  <2>2. \A i \in DOMAIN so' : (i \in DOMAIN so /\ so'[i] = so[i]) \/ so'[i] = m
    BY <1>1, <1>4, <2>1
  <2> QED BY <1>2, <1>4, <2>2, NumbersStay
<1> QED BY <1>2, <1>3, <1>4

\* The nfsds neither take a request nor do a call
NfsdsCalm == /\ UNCHANGED <<cache, log>>
             /\ \A s \in Servers : ud'[s].at = "vop" => /\ ud[s].at = "vop"
                                                        /\ ud'[s].xid = ud[s].xid
                                                        /\ ud'[s].dup = ud[s].dup

\* buffree of replies
LEMMA FreeRepliesCalm ==
    ASSUME Typed, NEW M, ud' = FreeReplies(M), UNCHANGED <<cache, log>>
    PROVE  NfsdsCalm
<1>1. ASSUME NEW s \in Servers
      PROVE  ud'[s].at = ud[s].at /\ ud'[s].xid = ud[s].xid /\ ud'[s].dup = ud[s].dup
  <2>1. ud[s] \in NfsdStates
    BY DEF Typed
  <2>2. ud'[s] = ud[s] \/ ud'[s] = [ud[s] EXCEPT !.busy = FALSE, !.wanted = FALSE]
    BY DEF FreeReplies
  <2> QED BY <2>1, <2>2 DEF NfsdStates
<1> QED BY <1>1 DEF NfsdsCalm

\* Nothing is done meanwhile, and the calls that are known stay what they are
LEMMA CalmKeeps ==
    ASSUME OnceInv, BufferInv', MailNumbered', OpsGrow, NfsdsCalm
    PROVE  OnceInv'
<1>1. \A i, j : Saves(i, j)' = Saves(i, j)
  BY DEF Saves, NfsdsCalm
<1>2. \A i : Since(i)' = Since(i)
  BY DEF Since, Saves, NfsdsCalm
<1>3. CacheKeeps'
  BY <1>2 DEF OnceInv, CacheKeeps, NfsdsCalm
<1>4. NoEnoent'
  BY <1>1 DEF OnceInv, NoEnoent, NfsdsCalm
<1>5. WorkNumbered'
  BY DEF OnceInv, WorkNumbered, NfsdsCalm, OpsGrow
<1>6. ASSUME OneNfsd PROVE StillDup'
  BY <1>6 DEF OnceInv, StillDup, Dup, WorkNumbered, NfsdsCalm, OpsGrow
<1>7. ASSUME OneNfsd PROVE DoneOnce'
  <2>1. \A j \in DOMAIN log : ops'[log[j].xid] = ops[log[j].xid]
    BY DEF OnceInv, WorkNumbered, OpsGrow
  <2>2. DoneOnce /\ log' = log
    BY <1>7 DEF OnceInv, NfsdsCalm
  <2> QED BY <1>1, <2>1, <2>2 DEF DoneOnce
<1> QED BY <1>3, <1>4, <1>5, <1>6, <1>7 DEF OnceInv

\* A request is looked up when it is taken
LEMMA RecvOnce ==
    ASSUME OnceInv, BufferInv', OpsGrow, NEW s \in Servers, Recv(s)
    PROVE  OnceInv'
<1> PICK m : m = Head(so)
  OBVIOUS
<1>1. /\ so \in Seq(Requests) /\ so # <<>> /\ so' = Tail(so) /\ ud \in [Servers -> NfsdStates]
      /\ UNCHANGED <<ops, out, net, cache, log>>
      /\ ud' = [ud EXCEPT ![s].at = "vop", ![s].req = m, ![s].xid = XidOf(m),
                          ![s].dup = ops[XidOf(m)] = "write" /\ Dup(XidOf(m))]
  BY DEF Recv, OnceInv, BufferInv, ReplyInv, Typed
<1>2. /\ m \in Requests /\ 1 \in DOMAIN so /\ m = so[1]
      /\ \A i \in DOMAIN so' : i + 1 \in DOMAIN so /\ so'[i] = so[i + 1]
  BY <1>1
<1>3. MailNumbered'
  BY <1>1, <1>2, NumbersStay DEF OnceInv
<1>4. XidOf(m) \in Calls
  BY <1>2, HeldSays DEF OnceInv, MailNumbered
<1> PICK x : x = XidOf(m)
  OBVIOUS
<1> PICK d \in BOOLEAN : d = (ops[x] = "write" /\ Dup(x))
  OBVIOUS
<1>5. \A t \in Servers : IF t = s THEN ud'[t].at = "vop" /\ ud'[t].xid = x /\ ud'[t].dup = d
                                  ELSE ud'[t] = ud[t]
  <2>1. ud[s] \in NfsdStates
    BY <1>1
  <2>2. ud' = [ud EXCEPT ![s] = [ud[s] EXCEPT !.at = "vop", !.req = m, !.xid = x, !.dup = d]]
    BY <1>1
  <2> QED BY <1>1, <2>1, <2>2 DEF NfsdStates
<1>6. CacheKeeps' /\ NoEnoent' /\ (OneNfsd => DoneOnce')
  BY <1>1 DEF OnceInv, CacheKeeps, NoEnoent, DoneOnce, Since, Saves
<1>7. WorkNumbered'
  BY <1>1, <1>4, <1>5 DEF OnceInv, WorkNumbered, Calls
<1>8. ASSUME OneNfsd PROVE StillDup'
  BY <1>1, <1>5, <1>8 DEF OnceInv, StillDup, Dup
<1> QED BY <1>3, <1>6, <1>7, <1>8 DEF OnceInv

\* What the end of a call leaves to the requests
LEMMA ServedParts ==
    ASSUME BufferInv, NEW s \in Servers, Served(s) \/ SendNow(s)
    PROVE  /\ \A m : m.kind = "call" => (m \in out' <=> m \in out)
           /\ so' = so /\ net' = net /\ ops' = ops
           /\ ud'[s].at # "vop" /\ \A t \in Servers \ {s} : ud'[t] = ud[t]
<1>1. Typed /\ ud[s] \in NfsdStates /\ cku \in [Handles -> HandleStates]
  BY DEF BufferInv, ReplyInv, Typed
<1>2. so' = so /\ net' = net /\ ops' = ops
  BY DEF Served, SendNow
<1>3. ASSUME NEW x, NEW ok, NEW k \in [Handles -> HandleStates], NEW W, SendReply(s, ud, x, ok, k, W)
      PROVE  /\ \A m : m.kind = "call" => (m \in out' <=> m \in out)
             /\ ud'[s].at # "vop" /\ \A t \in Servers \ {s} : ud'[t] = ud[t]
  BY <1>1, <1>3, SentParts
<1>4. CASE SendNow(s)
  BY <1>1, <1>2, <1>3, <1>4 DEF SendNow
<1>5. CASE Served(s)
  <2>1. ud[s].req \in Requests
    BY <1>5 DEF Served, BufferInv, ReplyInv, AllHonest, Serving
  <2>2. PICK k \in [Handles -> HandleStates] : k = FreeCall(ud[s].req)
    BY <1>1, <2>1, FreeCallKept DEF BufferInv
  <2>3. CASE UNCHANGED out /\ \E ok : ud' = [ud EXCEPT ![s].at = "send", ![s].ok = ok, ![s].wanted = TRUE]
    <3>1. PICK ok : ud' = [ud EXCEPT ![s].at = "send", ![s].ok = ok, ![s].wanted = TRUE]
      BY <2>3
    <3>2. ud'[s] = [ud[s] EXCEPT !.at = "send", !.ok = ok, !.wanted = TRUE]
          /\ \A t \in Servers \ {s} : ud'[t] = ud[t]
      BY <1>1, <3>1 DEF Typed
    <3>3. ud'[s].at = "send"
      BY <1>1, <3>2 DEF NfsdStates
    <3> QED BY <1>2, <2>3, <3>2, <3>3
  <2>4. CASE \E x, ok, W : SendReply(s, ud, x, ok, k, W)
    BY <1>2, <1>3, <2>4
  <2>5. \/ UNCHANGED out /\ \E ok : ud' = [ud EXCEPT ![s].at = "send", ![s].ok = ok, ![s].wanted = TRUE]
        \/ \E x, ok, W : SendReply(s, ud, x, ok, k, W)
    BY <1>5, <2>2 DEF Served
  <2> QED BY <2>3, <2>4, <2>5
<1> QED BY <1>4, <1>5

\* A reply that had to wait is sent
LEMMA SendNowOnce ==
    ASSUME OnceInv, BufferInv', OpsGrow, NEW s \in Servers, SendNow(s)
    PROVE  OnceInv'
<1>1. NfsdsCalm
  BY ServedParts DEF OnceInv, NfsdsCalm, SendNow
<1>2. MailNumbered'
  BY ServedParts, NumbersStay DEF OnceInv
<1> QED BY <1>1, <1>2, CalmKeeps

\* A call that was done is found in the cache when it is done again.
LEMMA ServedOnce ==
    ASSUME OnceInv, BufferInv', OpsGrow, NEW s \in Servers, Served(s)
    PROVE  OnceInv'
<1>1. /\ log \in Seq(Entries) /\ ud[s].at = "vop" /\ ud[s].xid \in Calls
      /\ \A x \in Calls : ops'[x] = ops[x]
  BY DEF Served, OnceInv, WorkNumbered, BufferInv, ReplyInv, Typed, Entries, OpsGrow
<1>2. PICK x \in Calls : x = ud[s].xid
  BY <1>1
<1>3. PICK ran \in BOOLEAN, ok \in BOOLEAN :
         /\ ran = (IF ops[x] = "write" THEN ~ud[s].dup ELSE there)
         /\ ok = (ops[x] = "write" \/ there \/ Dup(x))
  BY DEF OnceInv, BufferInv, ReplyInv, Typed, NfsdStates
<1>4. x \in Nat
  BY DEF Calls
<1>5. PICK e \in Entries : e = [xid |-> x, ran |-> ran, ok |-> ok] /\ e.xid = x /\ e.ran = ran /\ e.ok = ok
  <2> DEFINE done == [xid |-> x, ran |-> ran, ok |-> ok]
  <2>1. done \in Entries /\ done.xid = x /\ done.ran = ran /\ done.ok = ok
    BY <1>4 DEF Entries
  <2> QED BY <2>1
<1>6. log' = Append(log, e) /\ cache' = IF e.ok THEN Dupsave(e.xid) ELSE cache
  BY <1>2, <1>3, <1>5 DEF Served
<1>7. PICK L \in Nat : /\ L = Len(log) /\ DOMAIN log = 1 .. L /\ DOMAIN log' = 1 .. L + 1
                       /\ log'[L + 1] = e /\ \A i \in 1 .. L : log'[i] = log[i]
  <2>1. Len(log) \in Nat /\ DOMAIN log = 1 .. Len(log)
    BY <1>1
  <2>2. log' = Append(log, e)
    BY <1>6
  <2>3. DOMAIN log' = 1 .. Len(log) + 1
    BY <1>1, <2>2
  <2>4. log'[Len(log) + 1] = e
    BY <1>1, <2>2
  <2>5. \A i \in 1 .. Len(log) : log'[i] = log[i]
    BY <1>1, <2>2
  <2> QED BY <2>1, <2>3, <2>4, <2>5
<1>8. \A i \in Nat, j \in 1 .. L + 1 : Saves(i, j)' = Saves(i, j)
  BY <1>1, <1>6, <1>7, SavesSame
<1>9. CacheKeeps'
  BY <1>1, <1>6, SaveKeeps DEF OnceInv
<1>10. MailNumbered'
  BY ServedParts, NumbersStay DEF OnceInv
<1>11. WorkNumbered'
  <2>1. \A t \in Servers : ud'[t].at = "vop" => ud'[t].xid \in Calls'
    BY ServedParts DEF OnceInv, WorkNumbered, OpsGrow
  <2>2. \A i \in DOMAIN log' : log'[i].xid \in Calls'
    <3>1. \A i \in 1 .. L : log[i].xid \in Calls'
      BY <1>7 DEF OnceInv, WorkNumbered, OpsGrow
    <3>2. e.xid \in Calls'
      BY <1>5 DEF OpsGrow
    <3> QED BY <1>7, <3>1, <3>2
  <2> QED BY <2>1, <2>2 DEF WorkNumbered
<1>12. ASSUME NEW i \in 1 .. L, log[i].xid = x, log[i].ok, ~(Saves(i, L + 1) >= CacheSize)
       PROVE  Dup(x) /\ e.ok
  <2>1. Since(i) < CacheSize
    <3>1. i \in Nat /\ L + 1 \in Nat
      OBVIOUS
    <3>2. PICK n \in Nat : n = Saves(i, L + 1)
      BY <3>1, SavesFinite
    <3> QED BY <1>7, <1>12, <3>2, RpcAssumption DEF Since
  <2>2. Dup(x)
    BY <1>1, <1>7, <1>12, <2>1, SavedIsFound DEF OnceInv
  <2> QED BY <1>3, <1>5, <2>2
<1>13. NoEnoent'
  <2> SUFFICES ASSUME NEW j \in DOMAIN log', NEW i \in 1 .. j - 1,
                      log'[i].xid = log'[j].xid, log'[i].ok, ~log'[j].ok
               PROVE  (Saves(i, j) >= CacheSize)'
    BY DEF NoEnoent
  <2>1. i \in Nat /\ j \in 1 .. L + 1 /\ i \in 1 .. L /\ log'[i] = log[i]
    BY <1>7
  <2>2. Saves(i, j)' = Saves(i, j)
    BY <1>8, <2>1
  <2>3. CASE j = L + 1
    BY <1>5, <1>7, <1>12, <2>1, <2>2, <2>3
  <2>4. CASE j # L + 1
    <3>1. j \in DOMAIN log /\ log'[j] = log[j]
      BY <1>7, <2>1, <2>4
    <3> QED BY <2>1, <2>2, <3>1 DEF OnceInv, NoEnoent
  <2> QED BY <2>3, <2>4
<1>14. ASSUME OneNfsd PROVE StillDup'
  <2>1. ASSUME NEW t \in Servers PROVE ud'[t].at # "vop"
    <3>1. t = s
      BY <1>14 DEF OneNfsd
    <3> QED BY <3>1, ServedParts DEF OnceInv
  <2> QED BY <2>1 DEF StillDup
<1>15. ASSUME OneNfsd PROVE DoneOnce'
  <2> SUFFICES ASSUME NEW j \in DOMAIN log', NEW i \in 1 .. j - 1,
                      log'[i].xid = log'[j].xid, log'[i].ok,
                      (ops'[log'[j].xid] = "write" /\ log'[j].ran) \/ ~log'[j].ok
               PROVE  (Saves(i, j) >= CacheSize)'
    BY DEF DoneOnce
  <2>1. i \in Nat /\ j \in 1 .. L + 1 /\ i \in 1 .. L /\ log'[i] = log[i]
    BY <1>7
  <2>2. Saves(i, j)' = Saves(i, j)
    BY <1>8, <2>1
  <2>3. CASE j = L + 1
    <3>1. log'[j] = e /\ log[i].xid = x /\ log[i].ok
      BY <1>5, <1>7, <2>1, <2>3
    <3>2. ASSUME ~(Saves(i, j) >= CacheSize) PROVE FALSE
      <4>1. Dup(x) /\ e.ok
        BY <1>12, <2>1, <2>3, <3>1, <3>2
      <4>2. ops[x] = "write" /\ ran
        BY <1>1, <1>5, <3>1, <4>1
      <4>3. ud[s].dup = (ops[x] = "write" /\ Dup(x))
        BY <1>1, <1>2, <1>15 DEF OnceInv, StillDup
      <4> QED BY <1>3, <4>1, <4>2, <4>3
    <3> QED BY <2>2, <3>2
  <2>4. CASE j # L + 1
    <3>1. j \in DOMAIN log /\ log'[j] = log[j]
      BY <1>7, <2>1, <2>4
    <3>2. ops'[log[j].xid] = ops[log[j].xid]
      BY <1>1, <3>1 DEF OnceInv, WorkNumbered
    <3> QED BY <1>15, <2>1, <2>2, <3>1, <3>2 DEF OnceInv, DoneOnce
  <2> QED BY <2>3, <2>4
<1> QED BY <1>9, <1>10, <1>11, <1>13, <1>14, <1>15 DEF OnceInv

-------------------------------------------------------------------------------
\* Nothing was called at first
LEMMA OnceInvInit == RpcInit => OnceInv
<1> SUFFICES ASSUME RpcInit PROVE OnceInv
  OBVIOUS
<1>1. /\ out = {} /\ net = {} /\ so = <<>> /\ cache = <<>> /\ log = <<>>
      /\ \A s \in Servers : ud[s].at = "idle"
  BY DEF RpcInit
<1>2. DOMAIN log = {} /\ DOMAIN so = {} /\ cache \in Seq(Nat) /\ Len(cache) = 0
  BY <1>1
<1>3. CacheKeeps
  BY <1>2, RpcAssumption DEF CacheKeeps
<1>4. MailNumbered /\ WorkNumbered /\ NoEnoent /\ StillDup /\ DoneOnce
  BY <1>1, <1>2 DEF MailNumbered, WorkNumbered, NoEnoent, StillDup, DoneOnce
<1> QED BY <1>3, <1>4, BufferInvInit DEF OnceInv

\* Every step keeps the invariant: those of the clients, of the driver and the wire, of the nfsds
LEMMA OnceInvNext == OnceInv /\ [RpcNext]_<<rpcVars, wchan>> => OnceInv'
<1> SUFFICES ASSUME OnceInv, [RpcNext]_<<rpcVars, wchan>> PROVE OnceInv'
  OBVIOUS
<1>0. BufferInv /\ BufferInv' /\ ReplyInv /\ ReplyInv' /\ Typed
  BY BufferInvNext DEF OnceInv, BufferInv, ReplyInv
<1>1. ASSUME NEW p \in Clients, ClientTurn(p) \/ Tick(p) \/ Timeout(p) \/ \E op : Start(p, op)
      PROVE  OnceInv'
  <2>1. OpsGrow /\ UNCHANGED <<net, cache, log>>
    BY <1>0, <1>1, OpsOfClients, OpsAppended
  <2>2. NfsdsCalm
    <3>1. CASE ClientTurn(p) /\ ~Send(p)
      BY <1>0, <2>1, <3>1, TurnReads, FreeRepliesCalm DEF Reads
    <3>2. CASE Send(p) \/ Tick(p) \/ Timeout(p) \/ \E op : Start(p, op)
      <4>1. ud' = ud
        BY <3>2 DEF Send, Tick, Timeout, Start, rpcVars
      <4> QED BY <2>1, <4>1 DEF NfsdsCalm
    <3> QED BY <1>1, <3>1, <3>2
  <2>3. MailNumbered'
    <3>1. CASE Send(p)
      BY <1>0, <2>1, <3>1, SendNumbers DEF OnceInv
    <3>2. CASE ~Send(p)
      <4>1. out' = out /\ so' = so
        BY <1>1, <3>2 DEF ClientTurn, FlushReplies, WaitForBuffer, CantSend, Lbolt, Accept,
           CantRecv, WaitForReply, TimedOut, Answered, Tick, Timeout, Start, rpcVars
      <4> QED BY <2>1, <4>1, NumbersStay DEF OnceInv
    <3> QED BY <3>1, <3>2
  <2> QED BY <1>0, <2>1, <2>2, <2>3, CalmKeeps
<1>2. ASSUME NEW m, (m \in out /\ Transmit(m)) \/ (m \in net /\ Deliver(m)) PROVE OnceInv'
  <2>1. OpsGrow /\ UNCHANGED <<cache, log>>
    BY <1>0, <1>2, OpsAppended DEF Transmit, Deliver
  <2>2. MailNumbered'
    BY <1>0, <1>2, <2>1, TransmitNumbers, DeliverNumbers DEF OnceInv
  <2>3. NfsdsCalm
    <3>1. ud' = ud \/ ud' = FreeReplies({m})
      BY <1>2 DEF Transmit, Deliver
    <3>2. CASE ud' = ud
      BY <2>1, <3>2 DEF NfsdsCalm
    <3> QED BY <1>0, <2>1, <3>1, <3>2, FreeRepliesCalm
  <2> QED BY <1>0, <2>1, <2>2, <2>3, CalmKeeps
<1>3. ASSUME NEW s \in Servers, Recv(s) \/ Served(s) \/ SendNow(s) PROVE OnceInv'
  <2>1. OpsGrow
    BY <1>0, <1>3, OpsAppended DEF Recv, Served, SendNow
  <2> QED BY <1>0, <1>3, <2>1, RecvOnce, ServedOnce, SendNowOnce
<1>4. CASE UNCHANGED <<rpcVars, wchan>>
  <2>1. UNCHANGED <<out, net, so, ops, ud, cache, log>>
    BY <1>4 DEF rpcVars
  <2>2. OpsGrow
    BY <1>0, <2>1, OpsAppended
  <2>3. MailNumbered'
    BY <2>1, <2>2, NumbersStay DEF OnceInv
  <2>4. NfsdsCalm
    BY <2>1 DEF NfsdsCalm
  <2> QED BY <1>0, <2>2, <2>3, <2>4, CalmKeeps
<1> QED BY <1>1, <1>2, <1>3, <1>4 DEF RpcNext

(* With one nfsd a write that was done is not done again, and a removal that was done is not
   answered with ENOENT, while its transaction id is among the last MAXDUPREQS that
   svckudp_dupsave saved: however requests are lost, doubled, late and tried again.  With more
   nfsds two may look for the same write before either has done it.                        *)
THEOREM NeverDoneTwice == OneNfsd => (RpcSpec => []DoneOnce)
<1> SUFFICES ASSUME OneNfsd PROVE RpcSpec => []DoneOnce
  OBVIOUS
<1>1. OnceInv => DoneOnce
  BY DEF OnceInv
<1> QED BY <1>1, OnceInvInit, OnceInvNext, PTL DEF RpcSpec

(* The calls that change a directory look into the cache after the file system failed, and so
   the same holds of a removal with any number of nfsds.                                   *)
THEOREM RemovedOnce == RpcSpec => []NoEnoent
<1>1. OnceInv => NoEnoent
  BY DEF OnceInv
<1> QED BY <1>1, OnceInvInit, OnceInvNext, PTL DEF RpcSpec
=============================================================================
