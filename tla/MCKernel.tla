------------------------------ MODULE MCKernel ------------------------------
(***************************************************************************)
(* Instances of Msg, Sem and Inodes for TLC.  They share nothing but sleep *)
(* and wakeup: a behaviour is about one of them.                           *)
(***************************************************************************)
EXTENDS Msg, Sem, Inodes

VARIABLES part,      \* what the processes use
          jobs,      \* what each of them does with queues or files
          lost       \* how many inodes were not written

vars == <<part, jobs, lost, msgVars, semVars, inoVars, wchan>>

\* What three processes may do: senders and receivers of all kinds meet, and one process makes
\* and removes directories while another makes pipes, writes inodes, looks names up or serves
\* handles
Roles == [msg   |-> {<<{"snd", "rcv"}, {"snd", "rcv"}, {"rmid", "set"}>>,
                     <<{"snd"}, {"snd"}, {"rcv"}>>},
          sem   |-> {<<{}, {}, {}>>},
          inode |-> {<<{"mkdir", "rmdir"}, {"mkfifo"}, {}>>,
                     <<{"mkdir", "rmdir"}, {"sync"}, {}>>,
                     <<{"mkdir", "rmdir"}, {"lookup"}, {}>>,
                     <<{"mkdir", "rmdir"}, {"vget"}, {}>>}]

KernelInit ==
    /\ part \in DOMAIN Roles /\ lost = 0
    /\ \E role \in Roles[part], order \in Bijection(1 .. 3, Procs) :
          jobs = [p \in Procs |-> role[Inverse(order, 1 .. 3, Procs)[p]]]
    /\ MsgInit /\ SemInit /\ InoInit
    /\ part # "inode" => \A n \in Names : dir[n] = 0
    /\ (\A p \in Procs : "vget" \notin jobs[p]) => Len(ifreeq) = Cardinality(Table)

\* iupdat of p does not write what it should.  MaxLost bounds how often that happens:
\* where pipes are made or inodes written, once.
MaxLost == IF \E p \in Procs : {"mkfifo", "sync"} \cap jobs[p] # {} THEN 1 ELSE 0
Writing(p) == IF Releasing(p) THEN pc[p].vic ELSE pc[p].ip
Loses(p) ==
    LET r == inode[Writing(p)] IN
    /\ pc[p].at \in {"write", "again", "make", "trunc", "flush", "update"} /\ pc'[p] # pc[p]
    /\ disk'[r.num] # IF pc[p].at = "write" THEN [r.d EXCEPT !.nlink = 0] ELSE r.d

\* An inode that is in core twice is what InCoreOnce is about; what comes of that is left out
FilesNext ==
    IF InCoreOnce
    THEN \E p \in Procs :
            /\ InoTurn(p) \/ \E c \in jobs[p] : InoCall(p, c)
            /\ lost' = lost + IF Loses(p) THEN 1 ELSE 0
            /\ lost' <= MaxLost
    ELSE UNCHANGED <<inoVars, lost, wchan>>

KernelNext ==
    /\ \/ /\ part = "msg" /\ MsgNext /\ (\A p \in Procs : call'[p].op \in jobs[p] \cup {"none"})
          /\ UNCHANGED <<semVars, inoVars, lost>>
       \/ part = "sem" /\ SemNext /\ UNCHANGED <<msgVars, inoVars, lost>>
       \/ part = "inode" /\ FilesNext /\ UNCHANGED <<msgVars, semVars>>
    /\ UNCHANGED <<part, jobs>>

KernelSpec == KernelInit /\ [][KernelNext]_vars

MCSymmetry == Permutations(Procs) \cup Permutations(Table) \cup Permutations(Names)

MCCalls == {Snd(1, 0, TRUE), Snd(2, 1, FALSE), Snd(1, 3, FALSE), Rcv(-2, 0, TRUE),
            Rcv(0, 1, FALSE), Rmid, Set(4)}
MCOpLists == {<<Op(1, 1, TRUE, FALSE), Op(2, -1, FALSE, FALSE)>>,
              <<Op(2, 1, TRUE, FALSE), Op(1, 0, FALSE, FALSE), Op(1, -1, TRUE, TRUE)>>}
MCVectors == {<<0, 1>>}
=============================================================================
