---------------------------- MODULE MCRpcStreams ----------------------------
(***************************************************************************)
(* Instances of Rpc, Streams and Callout for TLC, which share nothing but  *)
(* sleep and wakeup: a behaviour is about one of them.  Two clients call   *)
(* over the loopback interface, or one over the wire; three processes      *)
(* write to a terminal and do its ioctls; or the clock runs.               *)
(***************************************************************************)
EXTENDS Rpc, Streams, Callout, TLC

CONSTANTS c1, c2, s1       \* the processes

VARIABLES part,      \* what the behaviour is about
          jobs       \* the ioctls that each process does; one that does none writes

vars == <<part, jobs, rpcVars, strVars, calltodo, wchan>>

MCCallers == "loop" :> {c1, c2} @@ "wire" :> {c1}
MCOps == "loop" :> {"write"} @@ "wire" :> {"write", "remove"}
MCMaxXid == "loop" :> 3 @@ "wire" :> 2

MCRequests == {[cmd |-> "TCSETAW", forever |-> FALSE, str |-> FALSE],
               [cmd |-> "TCSBRK", forever |-> FALSE, str |-> FALSE],
               [cmd |-> "TCSETA", forever |-> TRUE, str |-> TRUE],
               [cmd |-> "TCGETA", forever |-> FALSE, str |-> TRUE]}

\* Two writers get the queues full, and an ioctl comes in between that waits for the output; a
\* writer and ioctls, or ioctls alone, wait for each other
Drain == {"TCSETAW"}
All == {r.cmd : r \in MCRequests}
Jobs == {<<{}, {}, Drain>>, <<{}, All, All>>, <<All, All, All>>}

RpcStreamsInit ==
    /\ part \in {"rpc", "terminal", "clock"}
    /\ \E js \in Jobs : jobs = c1 :> js[1] @@ c2 :> js[2] @@ s1 :> js[3]
    /\ part # "terminal" => jobs[s1] = Drain
    /\ RpcInit /\ StrInit /\ CalloutInit
    /\ part # "rpc" => route = "wire"

TerminalNext ==
    /\ StrNext
    /\ \A p \in Procs : IF task'[p].at \in {"room", "copy", "run"} THEN jobs[p] = {}
                                                                   ELSE task'[p].req.cmd \in jobs[p] \cup {"none"}
    /\ Begun' <= IF jobs[s1] = Drain THEN MaxMsgs ELSE MaxMsgs - 1

RpcStreamsNext ==
    /\ \/ part = "rpc" /\ RpcNext /\ UNCHANGED <<strVars, calltodo>>
       \/ part = "terminal" /\ TerminalNext /\ UNCHANGED <<rpcVars, calltodo>>
       \/ part = "clock" /\ CalloutNext /\ UNCHANGED <<rpcVars, strVars, wchan>>
    /\ UNCHANGED <<part, jobs>>

RpcStreamsSpec == RpcStreamsInit /\ [][RpcStreamsNext]_vars /\ (part = "rpc" => Fairness)
=============================================================================
