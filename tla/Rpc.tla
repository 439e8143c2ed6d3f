--------------------------------- MODULE Rpc ---------------------------------
(***************************************************************************)
(* NFS calls over UDP: clget and rfscall of NFS/sys/nfs_subr.c, the client *)
(* side of RPC/sys/clnt_kudp.c, the server side of svc_kudp.c and svc.c,   *)
(* and what rfs_write and the calls that change a directory do about       *)
(* retransmissions in nfs_server.c.                                        *)
(*                                                                         *)
(* A handle and an nfsd have one output buffer each.  A datagram is not    *)
(* copied: it refers to the buffer, which is free again when the datagram  *)
(* is freed.  On the wire the driver does that when it has transmitted it; *)
(* over the loopback interface the reference itself goes into the socket   *)
(* of the receiver.                                                        *)
(***************************************************************************)
EXTENDS SleepQueue, Integers, FiniteSets, Sequences, SequencesExt

CONSTANTS Clients,    \* the processes that call
          Servers,    \* the nfsds
          Handles,    \* the places in chtable
          Routes,     \* how the clients reach the server: "loop", "wire"
          Callers,    \* the clients that call, for each route
          Ops,        \* what they call: writes, and calls that remove a name
          Crowded,    \* the routes whose queues other traffic may fill
          MaxXid,     \* bound on the number of transaction ids, for each route
          Retrys,     \* cku_retrys
          QMax,       \* the number of requests that the socket of the nfsds holds
          CacheSize   \* MAXDUPREQS

ASSUME RpcAssumption ==
    /\ Procs = Clients \cup Servers /\ Clients \cap Servers = {}
    /\ Handles \subseteq Nat /\ Routes \subseteq {"loop", "wire"}
    /\ Callers \in [Routes -> SUBSET Clients]
    /\ Ops \in [Routes -> SUBSET {"write", "remove"}] /\ Crowded \subseteq Routes
    /\ MaxXid \in [Routes -> Nat] /\ Retrys \in Nat \ {0} /\ QMax \in Nat /\ CacheSize \in Nat \ {0}

RECVTRIES == 2

VARIABLES
    route,   \* how the clients of this behaviour reach the server
    ops,     \* what is called, in the order of the transaction ids (clntkudpxid)
    out,     \* the datagrams that wait for the driver
    net,     \* the copies on the wire
    so,      \* the receive queue of the socket of the nfsds
    cku,     \* the handles
    cl,      \* the clients
    ud,      \* the nfsds
    there,   \* is the file's name in its directory
    cache,   \* the requests saved by svckudp_dupsave, the least recent one first
    log      \* what the nfsds did, in order

rpcVars == <<route, ops, out, net, so, cku, cl, ud, there, cache, log>>

\* Datagrams.  ref: it refers to the buffer of its sender; xid and ok are what was sent.
Call(h, x, ref)        == [kind |-> "call", h |-> h, xid |-> x, ref |-> ref]
Reply(s, h, x, ok, ref) == [kind |-> "reply", s |-> s, h |-> h, xid |-> x, ok |-> ok, ref |-> ref]

NoReply == [xid |-> 0, ok |-> FALSE]

RpcInit ==
    /\ route \in Routes
    /\ ops = <<>> /\ out = {} /\ net = {} /\ so = <<>>
    /\ cku = [h \in Handles |-> [inuse |-> FALSE, busy |-> FALSE, wanted |-> FALSE,
                                 timedout |-> FALSE, buf |-> 0, rcv |-> <<>>]]
    /\ cl = [p \in Clients |-> [at |-> "idle", h |-> 0, xid |-> 0, stries |-> 0,
                                rtries |-> 0, got |-> NoReply]]
    /\ ud = [s \in Servers |-> [at |-> "idle", req |-> Call(0, 0, FALSE), xid |-> 0,
                                dup |-> FALSE, ok |-> FALSE, busy |-> FALSE,
                                wanted |-> FALSE, buf |-> NoReply]]
    /\ there \in BOOLEAN
    /\ cache = <<>> /\ log = <<>>
    /\ wchan = [p \in Procs |-> NoChan]

-------------------------------------------------------------------------------
(* Buffers                                                                 *)

OutBuf(h) == <<"cku_outbuf", h>>
Reading(h) == <<"so_rcv", h>>
Ud(s) == <<"ud", s>>

\* What a datagram says to the one who reads it
XidOf(m) == IF m.ref THEN cku[m.h].buf ELSE m.xid
Says(m)  == IF m.ref THEN ud[m.s].buf ELSE [xid |-> m.xid, ok |-> m.ok]

\* buffree of the client, for the datagram m
FreeCall(m) == IF m.ref THEN [cku EXCEPT ![m.h].busy = FALSE, ![m.h].wanted = FALSE] ELSE cku
FreeCallWakes(m) == IF m.ref /\ cku[m.h].wanted THEN {OutBuf(m.h)} ELSE {}

\* buffree of the server, for the replies M
FreeReplies(M) ==
    [s \in Servers |-> IF \E m \in M : m.ref /\ m.s = s
                       THEN [ud[s] EXCEPT !.busy = FALSE, !.wanted = FALSE] ELSE ud[s]]
FreeRepliesWakes(M) == {Ud(s) : s \in {s \in Servers : \E m \in M : /\ m.ref /\ m.s = s
                                                                   /\ ud[s].wanted}}

\* Processes do not run while one of them is in the middle of a turn; interrupts may come
Running == {"again", "recv"}
Alone == \A p \in Clients : cl[p].at \notin Running

-------------------------------------------------------------------------------
(* The client: clget, rfscall                                              *)

\* Slip: clntkudp_init sets the flags to 0, as it once did
StartClears(p, op) ==
    /\ Alone /\ cl[p].at = "idle" /\ Len(ops) < MaxXid[route]
    /\ p \in Callers[route] /\ op \in Ops[route]
    /\ \E h \in Handles :
          /\ ~cku[h].inuse /\ \A g \in Handles : g < h => cku[g].inuse
          /\ cku' = [cku EXCEPT ![h].inuse = TRUE, ![h].busy = FALSE]
          /\ cl' = [cl EXCEPT ![p] = [at |-> "again", h |-> h, xid |-> Len(ops) + 1,
                                      stries |-> Retrys, rtries |-> 0, got |-> NoReply]]
    /\ ops' = Append(ops, op)
    /\ UNCHANGED <<route, out, net, so, ud, there, cache, log, wchan>>

\* A process that finds no handle in clget starts when one is free
Start(p, op) ==
    /\ Alone /\ cl[p].at = "idle" /\ Len(ops) < MaxXid[route]
    /\ p \in Callers[route] /\ op \in Ops[route]
    /\ \E h \in Handles :
          /\ ~cku[h].inuse /\ \A g \in Handles : g < h => cku[g].inuse
          /\ cku' = [cku EXCEPT ![h].inuse = TRUE]
          /\ cl' = [cl EXCEPT ![p] = [at |-> "again", h |-> h, xid |-> Len(ops) + 1,
                                      stries |-> Retrys, rtries |-> 0, got |-> NoReply]]
    /\ ops' = Append(ops, op)
    /\ UNCHANGED <<route, out, net, so, ud, there, cache, log, wchan>>

\* clfree at the end of rfscall, with the handle as k has it
Finish(p, k, reply) ==
    /\ cku' = [k EXCEPT ![cl[p].h].inuse = FALSE]
    /\ cl' = [cl EXCEPT ![p] = [@ EXCEPT !.at = "idle", !.got = reply]]

\* clntkudp_callit failed in one of its tries, and goes on at "next"; after the last one
\* rfscall gives up (soft mounts and signals), or calls again with a new transaction id
Failed(p, k, next) ==
    IF cl[p].stries > 1
    THEN /\ cku' = k
         /\ cl' = [cl EXCEPT ![p].at = next, ![p].stries = cl[p].stries - 1]
         /\ UNCHANGED ops
    ELSE \/ Finish(p, k, NoReply) /\ UNCHANGED ops
         \/ /\ Len(ops) < MaxXid[route]
            /\ ops' = Append(ops, ops[cl[p].xid])
            /\ cku' = k
            /\ cl' = [cl EXCEPT ![p].at = "again", ![p].xid = Len(ops) + 1,
                                ![p].stries = Retrys]

-------------------------------------------------------------------------------
(* clntkudp_callit                                                         *)

\* The buffer is still in use: wait for it, and look every second
WaitForBuffer(p) ==
    LET h == cl[p].h IN
    /\ cl[p].at = "again" /\ cku[h].busy
    /\ cku' = [cku EXCEPT ![h].wanted = TRUE]
    /\ cl' = [cl EXCEPT ![p].at = "buf"]
    /\ Sleep(p, OutBuf(h), {})
    /\ UNCHANGED <<route, ops, out, net, so, ud, there, cache, log>>

\* The timeout of wakeup on the buffer
Tick(p) ==
    /\ cl[p].at = "buf" /\ ~Awake(p)
    /\ Wakeup({OutBuf(cl[p].h)})
    /\ UNCHANGED rpcVars

\* Slip: the replies stay in the socket while the client waits for its buffer
KeepReplies(p) ==
    /\ Alone /\ cl[p].at = "buf" /\ Awake(p)
    /\ cl' = [cl EXCEPT ![p].at = "again"]
    /\ UNCHANGED <<route, ops, out, net, so, cku, ud, there, cache, log, wchan>>

\* After the sleep the replies in the socket are thrown away
FlushReplies(p) ==
    LET h == cl[p].h
        old == ToSet(cku[h].rcv)
    IN  /\ Alone /\ cl[p].at = "buf" /\ Awake(p)
        /\ cku' = [cku EXCEPT ![h].rcv = <<>>]
        /\ ud' = FreeReplies(old)
        /\ cl' = [cl EXCEPT ![p].at = "again"]
        /\ Wakeup(FreeRepliesWakes(old))
        /\ UNCHANGED <<route, ops, out, net, so, there, cache, log>>

\* The request goes out; the IP input queue takes a datagram to the socket of the nfsds at
\* once, which drops and frees what it cannot hold
Send(p) ==
    LET h == cl[p].h
        m == Call(h, cl[p].xid, TRUE)
        fits == route = "wire" \/ Len(so) < QMax
    IN  /\ cl[p].at = "again" /\ ~cku[h].busy
        /\ cku' = [cku EXCEPT ![h].busy = fits, ![h].buf = cl[p].xid]
        /\ cl' = [cl EXCEPT ![p].at = "recv", ![p].rtries = RECVTRIES]
        /\ out' = IF route = "wire" THEN out \cup {m} ELSE out
        /\ so' = IF route = "loop" /\ fits THEN Append(so, m) ELSE so
        /\ UNCHANGED <<route, ops, net, ud, there, cache, log, wchan>>

\* No mbuf, no route or no room in the queue: the buffer is freed, and the client waits a bit
CantSend(p) ==
    LET h == cl[p].h IN
    /\ cl[p].at = "again" /\ ~cku[h].busy /\ route \in Crowded
    /\ Failed(p, [cku EXCEPT ![h].buf = cl[p].xid], "lbolt")
    /\ UNCHANGED <<route, out, net, so, ud, there, cache, log, wchan>>

Lbolt(p) ==
    /\ Alone /\ cl[p].at = "lbolt"
    /\ cl' = [cl EXCEPT ![p].at = "again"]
    /\ UNCHANGED <<route, ops, out, net, so, cku, ud, there, cache, log, wchan>>

\* Slip: the first reply is taken for the answer
MatchAny(h) == {i \in DOMAIN cku[h].rcv : i = 1}

\* The place of the first reply in the socket of h with the transaction id of the buffer
Match(h) == {i \in DOMAIN cku[h].rcv :
               /\ Says(cku[h].rcv[i]).xid = cku[h].buf
               /\ \A j \in 1 .. i - 1 : Says(cku[h].rcv[j]).xid # cku[h].buf}

\* A good reply among those that are looked at; the rest of the queue is flushed
Accept(p) ==
    LET h == cl[p].h
        all == ToSet(cku[h].rcv)
    IN  /\ cl[p].at = "recv"
        /\ \E i \in Match(h) :
              /\ i <= cl[p].rtries
              /\ Finish(p, [cku EXCEPT ![h].rcv = <<>>], Says(cku[h].rcv[i]))
        /\ ud' = FreeReplies(all)
        /\ Wakeup(FreeRepliesWakes(all))
        /\ UNCHANGED <<route, ops, out, net, so, there, cache, log>>

\* Too many replies to other calls
CantRecv(p) ==
    LET h == cl[p].h
        n == cl[p].rtries
        seen == ToSet(SubSeq(cku[h].rcv, 1, n))
    IN  /\ cl[p].at = "recv" /\ Len(cku[h].rcv) >= n
        /\ \A i \in Match(h) : i > n
        /\ Failed(p, [cku EXCEPT ![h].rcv = SubSeq(@, n + 1, Len(@))], "again")
        /\ ud' = FreeReplies(seen)
        /\ Wakeup(FreeRepliesWakes(seen))
        /\ UNCHANGED <<route, out, net, so, there, cache, log>>

\* Nothing more in the socket: wait
WaitForReply(p) ==
    LET h == cl[p].h
        seen == ToSet(cku[h].rcv)
    IN  /\ cl[p].at = "recv" /\ Match(h) = {} /\ Len(cku[h].rcv) < cl[p].rtries
        /\ cku' = [cku EXCEPT ![h].rcv = <<>>]
        /\ ud' = FreeReplies(seen)
        /\ cl' = [cl EXCEPT ![p].at = "reply", ![p].rtries = @ - Len(cku[h].rcv)]
        /\ Sleep(p, Reading(h), FreeRepliesWakes(seen))
        /\ UNCHANGED <<route, ops, out, net, so, there, cache, log>>

\* ckuwakeup; it may come when the client is awake but has not run yet
Timeout(p) ==
    LET h == cl[p].h IN
    /\ cl[p].at = "reply" /\ ~cku[h].timedout
    /\ cku' = [cku EXCEPT ![h].timedout = TRUE]
    /\ Wakeup({Reading(h)})
    /\ UNCHANGED <<route, ops, out, net, so, cl, ud, there, cache, log>>

Woke(p) == Alone /\ cl[p].at = "reply" /\ Awake(p)

TimedOut(p) ==
    LET h == cl[p].h IN
    /\ Woke(p) /\ cku[h].timedout
    /\ Failed(p, [cku EXCEPT ![h].timedout = FALSE], "again")
    /\ UNCHANGED <<route, out, net, so, ud, there, cache, log, wchan>>

Answered(p) ==
    /\ Woke(p) /\ ~cku[cl[p].h].timedout
    /\ cl' = [cl EXCEPT ![p].at = "recv"]
    /\ UNCHANGED <<route, ops, out, net, so, cku, ud, there, cache, log, wchan>>

-------------------------------------------------------------------------------
(* The wire                                                                *)

\* The driver has transmitted m, and frees it; what it sends is what the buffer holds now
Transmit(m) ==
    /\ out' = out \ {m}
    /\ net' = net \cup {IF m.kind = "call" THEN Call(m.h, XidOf(m), FALSE)
                        ELSE Reply(m.s, m.h, Says(m).xid, Says(m).ok, FALSE)}
    /\ IF m.kind = "call"
       THEN cku' = FreeCall(m) /\ Wakeup(FreeCallWakes(m)) /\ UNCHANGED ud
       ELSE ud' = FreeReplies({m}) /\ Wakeup(FreeRepliesWakes({m})) /\ UNCHANGED cku
    /\ UNCHANGED <<route, ops, so, cl, there, cache, log>>

\* udp_input; a full socket drops the request.  Datagrams may overtake each other, and one
\* that is never delivered is lost.
Deliver(m) ==
    /\ net' = net \ {m}
    /\ IF m.kind = "call"
       THEN /\ so' = IF Len(so) < QMax THEN Append(so, m) ELSE so
            /\ UNCHANGED <<cku, wchan>>
       ELSE /\ cku' = [cku EXCEPT ![m.h].rcv = Append(@, m)]
            /\ Wakeup({Reading(m.h)})
            /\ UNCHANGED so
    /\ UNCHANGED <<route, ops, out, cl, ud, there, cache, log>>

-------------------------------------------------------------------------------
(* The server: svc_run, rfs_dispatch, the calls                            *)

\* svckudp_dup
Dup(x) == \E i \in DOMAIN cache : cache[i] = x

\* svckudp_dupsave, also of a request that is in the cache already
Dupsave(x) == IF Len(cache) < CacheSize THEN Append(cache, x) ELSE Append(Tail(cache), x)

\* Slip: a write does not look into the cache
RecvUnchecked(s) ==
    /\ Alone /\ ud[s].at = "idle" /\ so # <<>>
    /\ so' = Tail(so)
    /\ ud' = [ud EXCEPT ![s].at = "vop", ![s].req = Head(so), ![s].xid = XidOf(Head(so)),
                        ![s].dup = FALSE]
    /\ UNCHANGED <<route, ops, out, net, cku, cl, there, cache, log, wchan>>

\* svckudp_recv; a write looks into the cache before it calls the file system
Recv(s) ==
    /\ Alone /\ ud[s].at = "idle" /\ so # <<>>
    /\ so' = Tail(so)
    /\ ud' = [ud EXCEPT ![s].at = "vop", ![s].req = Head(so), ![s].xid = XidOf(Head(so)),
                        ![s].dup = ops[XidOf(Head(so))] = "write" /\ Dup(XidOf(Head(so)))]
    /\ UNCHANGED <<route, ops, out, net, cku, cl, there, cache, log, wchan>>

\* svckudp_send with a free buffer, in a state of the nfsds u; the reply may get lost
\* before it is in a queue
SendReply(s, u, x, ok, k, W) ==
    LET h == ud[s].req.h
        m == Reply(s, h, x, ok, TRUE)
        sent == [u EXCEPT ![s].at = "idle", ![s].busy = TRUE, ![s].buf = [xid |-> x, ok |-> ok]]
    IN  \/ /\ route = "wire"
           /\ out' = out \cup {m} /\ ud' = sent
           /\ cku' = k /\ Wakeup(W)
        \/ /\ route = "loop"
           /\ cku' = [k EXCEPT ![h].rcv = Append(@, m)] /\ ud' = sent
           /\ Wakeup(W \cup {Reading(h)})
           /\ UNCHANGED out
        \/ /\ route \in Crowded
           /\ ud' = [sent EXCEPT ![s].busy = FALSE]
           /\ cku' = k /\ Wakeup(W)
           /\ UNCHANGED out

\* The call of the file system ends.  A write is done again unless it was in the cache; the
\* name is removed, or ENOENT turned into success if the request is in the cache.
\* SVC_FREEARGS comes before svc_sendreply, which waits until the last reply is freed.
Served(s) ==
    LET x   == ud[s].xid
        ran == IF ops[x] = "write" THEN ~ud[s].dup ELSE there
        ok  == ops[x] = "write" \/ there \/ Dup(x)
        k   == FreeCall(ud[s].req)
        W   == FreeCallWakes(ud[s].req)
    IN  /\ Alone /\ ud[s].at = "vop"
        /\ log' = Append(log, [xid |-> x, ran |-> ran, ok |-> ok])
        /\ there' = (there /\ ops[x] = "write")
        /\ cache' = IF ok THEN Dupsave(x) ELSE cache
        /\ IF ud[s].busy
           THEN /\ ud' = [ud EXCEPT ![s].at = "send", ![s].ok = ok, ![s].wanted = TRUE]
                /\ cku' = k
                /\ Sleep(s, Ud(s), W)
                /\ UNCHANGED out
           ELSE SendReply(s, ud, x, ok, k, W)
        /\ UNCHANGED <<route, ops, net, so, cl>>

\* The last reply was freed
SendNow(s) ==
    /\ Alone /\ ud[s].at = "send" /\ Awake(s)
    /\ SendReply(s, ud, ud[s].xid, ud[s].ok, cku, {})
    /\ UNCHANGED <<route, ops, net, so, cl, there, cache, log>>

-------------------------------------------------------------------------------
ClientTurn(p) ==
    \/ FlushReplies(p) \/ WaitForBuffer(p) \/ Send(p) \/ CantSend(p) \/ Lbolt(p)
    \/ Accept(p) \/ CantRecv(p) \/ WaitForReply(p) \/ TimedOut(p) \/ Answered(p)

RpcNext ==
    \/ \E p \in Clients, op \in {"write", "remove"} : Start(p, op)
    \/ \E p \in Clients : ClientTurn(p) \/ Tick(p) \/ Timeout(p)
    \/ \E m \in out : Transmit(m)
    \/ \E m \in net : Deliver(m)
    \/ \E s \in Servers : Recv(s) \/ Served(s) \/ SendNow(s)

\* A process that can run does so in the end, and timers go off; nobody has to call
ClientReady(p) == cl[p].at \in Running \cup {"lbolt"} \/ (cl[p].at \in {"buf", "reply"} /\ Awake(p))
ServerReady(s) == ud[s].at = "vop" \/ (ud[s].at = "idle" /\ so # <<>>)
                  \/ (ud[s].at = "send" /\ Awake(s))

Fairness ==
    /\ \A p \in Clients : []<>~ClientReady(p)
    /\ \A s \in Servers : []<>~ServerReady(s)
    /\ \A p \in Clients : WF_<<rpcVars, wchan>>(Tick(p)) /\ WF_<<rpcVars, wchan>>(Timeout(p))

RpcSpec == RpcInit /\ [][RpcNext]_<<rpcVars, wchan>>
FairRpcSpec == RpcSpec /\ Fairness

-------------------------------------------------------------------------------
(* Properties                                                              *)

\* The datagrams that refer to a buffer, wherever they are
CallRefs(h) == {m \in out \cup ToSet(so) \cup
                      {ud[s].req : s \in {s \in Servers : ud[s].at = "vop"}} :
                   m.kind = "call" /\ m.ref /\ m.h = h}
ReplyRefs(s) == {m \in out \cup UNION {ToSet(cku[h].rcv) : h \in Handles} :
                   m.kind = "reply" /\ m.ref /\ m.s = s}

\* A buffer is not written again while a datagram refers to it, and is busy exactly while
\* one does: no request or reply changes under way, and no buffer is busy for ever.
BuffersOwned ==
    /\ \A h \in Handles :
          /\ cku[h].busy <=> CallRefs(h) # {}
          /\ \A m \in CallRefs(h) : m.xid = cku[h].buf
    /\ \A s \in Servers :
          /\ ud[s].busy <=> ReplyRefs(s) # {}
          /\ \A m \in ReplyRefs(s) : [xid |-> m.xid, ok |-> m.ok] = ud[s].buf

\* A client accepts only what an nfsd did for its own call, or earlier for the same call,
\* however late, lost, repeated or stale the replies in its socket are.
RightReply ==
    \A p \in Clients : cl[p].got # NoReply =>
        /\ cl[p].got.xid = cl[p].xid
        /\ \E i \in DOMAIN log : log[i].xid = cl[p].xid /\ log[i].ok = cl[p].got.ok

\* The cache of duplicates does its work until MAXDUPREQS others were saved: a write that
\* was done is not done again, and a removal that was done is not answered with ENOENT.
Saves(i, j) == Cardinality({k \in i + 1 .. j - 1 : log[k].ok})
DoneOnce ==
    \A j \in DOMAIN log : \A i \in 1 .. j - 1 :
        /\ log[i].xid = log[j].xid /\ log[i].ok
        /\ (ops[log[j].xid] = "write" /\ log[j].ran) \/ ~log[j].ok
        => Saves(i, j) >= CacheSize

\* "The client can block waiting for the server to free the mbuf while the server is blocked
\* waiting for the client to free the reply mbuf": not for ever.
NeedsBuffer(p) == cl[p].at \in {"again", "buf"} /\ cku[cl[p].h].busy
Deadlocked(p, s) ==
    /\ NeedsBuffer(p) /\ ud[s].at = "send" /\ ud[s].busy
    /\ \E i \in DOMAIN cku[cl[p].h].rcv : cku[cl[p].h].rcv[i].s = s
KludgeWorks == \A p \in Clients, s \in Servers : []<>~Deadlocked(p, s)
=============================================================================
