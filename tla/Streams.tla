------------------------------- MODULE Streams -------------------------------
(***************************************************************************)
(* The way down a terminal's stream: write and ioctl in the stream head    *)
(* (COMMON/os/streamio.c), the line discipline (COMMON/io/line.c), the     *)
(* display (COMMON/io/ttx.c, psn/io/keyboard.c), and the queues and the    *)
(* list of enabled queues between them (COMMON/os/stream.c).               *)
(*                                                                         *)
(* A process runs from one sleep to the next, but the service procedures   *)
(* that its message enables are run before it goes on (runqueues), with    *)
(* interrupts between any two of their steps.  A message is one block, and *)
(* the marks of a queue count messages.                                    *)
(***************************************************************************)
EXTENDS Integers, Sequences, FiniteSets, Functions, SleepQueue

CONSTANTS HiWat,       \* q_hiwat, which is q_lowat as well (256 and 256)
          MaxMsgs,     \* bound: writes and ioctls of a behaviour
          Requests     \* the ioctls: [cmd, forever, str]

ASSUME HiWatAssumption == HiWat \in Nat \ {0}

VARIABLES sd,       \* struct stdata: IOCWAIT, STR2TIME, STR3TIME, WSLEEP, sd_ioc...
          wq,      \* the write queues of the line discipline and the display
          runq,     \* qhead: the enabled queues
          serving,  \* queueflag: the queue whose service procedure runs, its message
          tty,      \* struct ttx: t_xm, TTSTOP, TIMEOUT
          timers,   \* the entries of str2time, str3time and ttx_brktimer in the callouts
          nmsg,     \* the number of the last message that was sent down; ioc_id
          owed,     \* history: the messages sent and neither handled nor flushed
          last,     \* history: the last message that the display handled
          task      \* what a process does, and the ioctl it does

strVars == <<sd, wq, runq, serving, tty, timers, nmsg, owed, last, task>>

NoBlock == [id |-> 0, cmd |-> "none"]
WriteRoom == <<"sd_wrq">>
Control == <<"sd_iocwait">>
Answer == <<"stp">>
NotServing == [q |-> "none", m |-> NoBlock, step |-> "get"]
NoTask == [at |-> "user", id |-> 0, req |-> [cmd |-> "none", forever |-> FALSE, str |-> FALSE]]

StrInit ==
    /\ sd = [ioctl |-> FALSE, str2 |-> FALSE, str3 |-> FALSE, wsleep |-> FALSE,
             iocid |-> 0, blk |-> 0, waiting |-> 0]
    /\ wq = [q \in {"line", "disp"} |->
                [msgs |-> <<>>, full |-> FALSE, wantr |-> TRUE, wantw |-> FALSE]]
    /\ runq = <<>>
    /\ serving = NotServing
    /\ tty = [xm |-> NoBlock, stop |-> FALSE, brk |-> FALSE]
    /\ timers = [str2 |-> 0, str3 |-> 0, brk |-> 0]
    /\ nmsg = 0
    /\ owed = {}
    /\ last = 0
    /\ task = [p \in Procs |-> NoTask]
    /\ wchan = [p \in Procs |-> NoChan]

-------------------------------------------------------------------------------
(* Queues                                                                  *)

\* The queue upstream, and the queues whose service procedures are to run
Backq == [line |-> "head", disp |-> "line"]
Enabled(q) == q \in Range(runq) \/ serving.q = q

\* qenable of the queues qs, in this order
Qenable(rq, q) == IF q \in Range(rq) THEN rq ELSE Append(rq, q)
QenableIf(c, rq, q) == IF c THEN Qenable(rq, q) ELSE rq

\* Mutant: the message goes to the end of the queue
PutbqLast(Q, m) == [Q EXCEPT !.msgs = Append(@, m), !.full = @ \/ Len(Q.msgs) + 1 >= HiWat]

\* putq and putbq of an ordinary message; who has found the queue empty is enabled
Putq(Q, m) == [Q EXCEPT !.msgs = Append(@, m), !.full = @ \/ Len(Q.msgs) + 1 >= HiWat]
Putbq(Q, m) == [Q EXCEPT !.msgs = <<m>> \o @, !.full = @ \/ Len(Q.msgs) + 1 >= HiWat]

\* getq takes the first message, if there is one
Taken(Q) == IF Q.msgs = <<>>
            THEN [Q EXCEPT !.wantr = TRUE]
            ELSE [Q EXCEPT !.msgs = Tail(@), !.wantr = FALSE,
                           !.full = @ /\ Len(Q.msgs) - 1 >= HiWat]

\* Mutant: the queue upstream is enabled only by the getq that empties this one
WritableEmpty(Q) == Q.msgs = <<>> /\ Q.wantw /\ Q.wantr

\* getq, flushq: somebody wants to write to the queue, and may do so
Writable(Q) == Len(Q.msgs) <= HiWat /\ Q.wantw

Getq(q) ==
    LET Q == Taken(wq[q])
    IN  /\ wq' = [wq EXCEPT ![q] = [Q EXCEPT !.wantw = @ /\ ~Writable(Q)]]
        /\ runq' = QenableIf(Writable(Q), runq, Backq[q])

\* The loop of flushq: what is not data is put back
NotData(s) ==
    LET kept[i \in 0 .. Len(s)] == IF i = 0 THEN <<>>
                                   ELSE IF s[i].cmd = "data" THEN kept[i - 1]
                                   ELSE Append(kept[i - 1], s[i])
    IN  kept[Len(s)]

\* flushq(q, 0)
Kept(Q) == LET kept == NotData(Q.msgs)
           IN  [Q EXCEPT !.msgs = kept, !.full = Len(kept) >= HiWat]

-------------------------------------------------------------------------------
(* The stream head                                                         *)

\* No process runs in the kernel, except p, and no service procedure
Cpu(p) == /\ serving = NotServing
          /\ \A o \in Procs \ {p} : task[o].at \notin {"run", "runioctl"}

\* The writes and ioctls that were begun and have sent their message, or will
Begun == nmsg + Cardinality({o \in Procs : task[o].at \in {"room", "copy", "wait"}})

\* Bound: p may begin another write or ioctl
MayBegin(p) == task[p].at = "user" /\ Begun < MaxMsgs

Goes(p, at) == task' = [task EXCEPT ![p].at = at]
ToUser(p) == task' = [task EXCEPT ![p] = NoTask]

\* Message m goes to the line discipline, line_wput and putq, which enables its queue
SendDown(m) ==
    /\ wq' = [wq EXCEPT !["line"] = Putq(@, m)]
    /\ runq' = QenableIf(wq["line"].wantr, runq, "line")
    /\ nmsg' = m.id
    /\ owed' = owed \cup {m.id}

\* strwrite: the end of the loop, once the message is packaged
PutData(p) == /\ SendDown([id |-> nmsg + 1, cmd |-> "data"])
              /\ Goes(p, "run")

\* strwrite, up to where it sleeps for room, or while it packages the message
StrWrite(p) ==
    /\ Cpu(p) /\ Awake(p) /\ (MayBegin(p) \/ task[p].at = "room")
    /\ \/ /\ ~wq["line"].full
          /\ \/ PutData(p) /\ UNCHANGED sd
             \/ Goes(p, "copy") /\ UNCHANGED <<sd, wq, runq, nmsg, owed>>
          /\ UNCHANGED wchan
       \/ /\ wq["line"].full
          /\ wq' = [wq EXCEPT !["line"].wantw = TRUE]
          /\ \/ sd' = [sd EXCEPT !.wsleep = TRUE] /\ Goes(p, "room") /\ Sleep(p, WriteRoom, {})
             \/ ToUser(p) /\ UNCHANGED <<sd, wchan>>
          /\ UNCHANGED <<runq, nmsg, owed>>
    /\ UNCHANGED <<serving, tty, timers, last>>

\* strwrite: the sleep for room is interrupted
WriteInterrupted(p) ==
    /\ Cpu(p) /\ task[p].at = "room"
    /\ sd' = [sd EXCEPT !.wsleep = FALSE]
    /\ Unsleep(p, {})
    /\ ToUser(p)
    /\ UNCHANGED <<wq, runq, serving, tty, timers, nmsg, owed, last>>

\* strwrite: the data is there after a sleep, or could not be copied in
WriteCopied(p) ==
    /\ Cpu(p) /\ task[p].at = "copy"
    /\ \/ PutData(p)
       \/ ToUser(p) /\ UNCHANGED <<wq, runq, nmsg, owed>>
    /\ UNCHANGED <<sd, serving, tty, timers, last, wchan>>

\* runqueues returns when no queue is enabled any more
WriteDone(p) ==
    /\ Cpu(p) /\ task[p].at = "run" /\ runq = <<>>
    /\ ToUser(p)
    /\ UNCHANGED <<sd, wq, runq, serving, tty, timers, nmsg, owed, last, wchan>>

\* Mutant: the reply is taken whatever its number is
StrrputAny(S, id) == IF S.ioctl /\ S.blk = 0 THEN [S EXCEPT !.blk = id] ELSE S

\* strrput: M_IOCACK, M_IOCNAK
Strrput(S, id) == IF S.ioctl /\ S.blk = 0 /\ S.iocid = id THEN [S EXCEPT !.blk = id] ELSE S

\* Mutant: the timer stays when the reply has come
UntimeoutNot(p) == UNCHANGED timers

\* untimeout(str3time) of the process that had control
Untimeout3(p) == timers' = [timers EXCEPT !.str3 = IF task[p].req.forever THEN @ ELSE 0]

\* untimeout(str2time) takes the first entry, whoever waits for it
Untimeout2 == timers' = [timers EXCEPT !.str2 = IF @ > 0 THEN @ - 1 ELSE 0]

\* The process takes control and sends the ioctl down; the line discipline and the display
\* answer TCSETA and TCGETA in their put procedures, and keep what waits for the output
SendIoctl(p, S, req) ==
    LET id == nmsg + 1
        C == [S EXCEPT !.ioctl = TRUE, !.blk = 0, !.iocid = id]
    IN  /\ task' = [task EXCEPT ![p] = [at |-> "runioctl", id |-> id, req |-> req]]
        /\ \/ /\ req.cmd \in {"TCSETA", "TCGETA"}
              /\ sd' = Strrput(C, id)
              /\ nmsg' = id
              /\ UNCHANGED <<wq, runq, owed>>
           \/ /\ req.cmd \in {"TCSETAW", "TCSBRK"}
              /\ sd' = C
              /\ SendDown([id |-> id, cmd |-> req.cmd])

Waits(p, req) == task' = [task EXCEPT ![p] = [at |-> "wait", id |-> 0, req |-> req]]

\* strioctl: do_ioctl, up to the sleep for control
IoctlBegin(p) ==
    /\ Cpu(p) /\ Awake(p) /\ MayBegin(p)
    /\ \E req \in Requests :
          \/ /\ ~sd.ioctl
             /\ SendIoctl(p, sd, req)
             /\ UNCHANGED <<timers, wchan>>
          \/ /\ sd.ioctl
             /\ timers' = [timers EXCEPT !.str2 = @ + 1]
             /\ sd' = [sd EXCEPT !.waiting = @ + 1, !.str2 = TRUE]
             /\ Waits(p, req)
             /\ Sleep(p, Control, {})
             /\ UNCHANGED <<wq, runq, nmsg, owed>>
    /\ UNCHANGED <<serving, tty, last>>

\* A process waits for control no longer; the last one resets STR2TIME
Left == [sd EXCEPT !.waiting = @ - 1, !.str2 = @ /\ sd.waiting > 1]

\* strioctl: awake again, without a timer gone off
IoctlAgain(p) ==
    /\ Cpu(p) /\ Awake(p) /\ task[p].at = "wait" /\ sd.str2
    /\ \/ /\ ~sd.ioctl
          /\ Untimeout2
          /\ SendIoctl(p, Left, task[p].req)
          /\ UNCHANGED wchan
       \/ /\ sd.ioctl
          /\ Sleep(p, Control, {})
          /\ UNCHANGED <<sd, wq, runq, timers, nmsg, owed, task>>
    /\ UNCHANGED <<serving, tty, last>>

\* strioctl: the wait for control is interrupted, or str2time has gone off
IoctlNotBegun(p) ==
    /\ Cpu(p) /\ task[p].at = "wait"
    /\ sd' = Left
    /\ Untimeout2
    /\ Unsleep(p, {})
    /\ ToUser(p)
    /\ UNCHANGED <<wq, runq, serving, tty, nmsg, owed, last>>

\* strioctl: the reply is there; to copy out what came with it may take a sleep
Replied(p) == /\ sd' = [sd EXCEPT !.ioctl = FALSE, !.blk = 0, !.str3 = FALSE]
            /\ \/ ToUser(p) /\ Wakeup({Control})
               \/ /\ task[p].req.cmd = "TCGETA" /\ task[p].req.str
                  /\ Goes(p, "out") /\ UNCHANGED wchan

\* strioctl: the queues have run, and the process sleeps until the reply comes
IoctlSent(p) ==
    /\ Cpu(p) /\ task[p].at = "runioctl" /\ runq = <<>>
    /\ \/ /\ sd.blk # 0
          /\ Replied(p)
          /\ UNCHANGED timers
       \/ /\ sd.blk = 0
          /\ timers' = [timers EXCEPT !.str3 = IF task[p].req.forever THEN @ ELSE @ + 1]
          /\ sd' = [sd EXCEPT !.str3 = TRUE]
          /\ Goes(p, "ack") /\ Sleep(p, Answer, {})
    /\ UNCHANGED <<wq, runq, serving, tty, nmsg, owed, last>>

\* strioctl: awake again, without a timer gone off
IoctlAnswered(p) ==
    /\ Cpu(p) /\ Awake(p) /\ task[p].at = "ack" /\ sd.str3 /\ sd.blk # 0
    /\ Replied(p)
    /\ Untimeout3(p)
    /\ UNCHANGED <<wq, runq, serving, tty, nmsg, owed, last>>

\* strioctl: what came with the reply is copied out, or could not be
IoctlCopiedOut(p) ==
    /\ Cpu(p) /\ task[p].at = "out"
    /\ ToUser(p) /\ Wakeup({Control})
    /\ UNCHANGED <<sd, wq, runq, serving, tty, timers, nmsg, owed, last>>

\* strioctl: the wait for the reply is interrupted, or str3time has gone off
IoctlGivenUp(p) ==
    /\ Cpu(p) /\ task[p].at = "ack"
    /\ sd' = [sd EXCEPT !.ioctl = FALSE, !.str3 = FALSE]
    /\ Untimeout3(p)
    /\ Unsleep(p, {Control})
    /\ ToUser(p)
    /\ UNCHANGED <<wq, runq, serving, tty, nmsg, owed, last>>

\* The clock calls no function of the callouts while queues are run (queueflag)
TimersRun == serving = NotServing

\* str2time and str3time: the first process that waits for so long wakes up all that wait
Str2time ==
    /\ TimersRun /\ timers.str2 > 0
    /\ timers' = [timers EXCEPT !.str2 = @ - 1]
    /\ sd' = [sd EXCEPT !.str2 = FALSE]
    /\ Wakeup(IF sd.str2 THEN {Control} ELSE {})
    /\ UNCHANGED <<wq, runq, serving, tty, nmsg, owed, last, task>>

Str3time ==
    /\ TimersRun /\ timers.str3 > 0
    /\ timers' = [timers EXCEPT !.str3 = @ - 1]
    /\ sd' = [sd EXCEPT !.str3 = FALSE]
    /\ Wakeup(IF sd.str3 THEN {Answer} ELSE {})
    /\ UNCHANGED <<wq, runq, serving, tty, nmsg, owed, last, task>>

-------------------------------------------------------------------------------
(* Service procedures                                                      *)

\* queuerun: the first enabled queue is taken off the list
Queuerun ==
    /\ serving.q \in {"none", "next"} /\ runq # <<>>
    /\ serving' = [NotServing EXCEPT !.q = Head(runq)]
    /\ runq' = Tail(runq)
    /\ UNCHANGED <<sd, wq, tty, timers, nmsg, owed, last, task, wchan>>

Serves(q, step) == serving.q = q /\ serving.step = step

\* The service procedure returns, and queuerun goes on with the next queue
QueueServed == serving' = IF runq' = <<>> THEN NotServing ELSE [NotServing EXCEPT !.q = "next"]

\* strwsrv: there is room in the queue of the line discipline
Strwsrv ==
    /\ Serves("head", "get")
    /\ sd' = [sd EXCEPT !.wsleep = FALSE]
    /\ Wakeup(IF sd.wsleep THEN {WriteRoom} ELSE {})
    /\ UNCHANGED <<wq, runq, tty, timers, nmsg, owed, last, task>>
    /\ QueueServed

\* line_wsrvc: getq, to the end of the queue
LineGet ==
    /\ Serves("line", "get")
    /\ Getq("line")
    /\ IF wq["line"].msgs = <<>> THEN QueueServed
       ELSE serving' = [serving EXCEPT !.m = Head(wq["line"].msgs), !.step = "canput"]
    /\ UNCHANGED <<sd, tty, timers, nmsg, owed, last, task, wchan>>

\* line_wsrvc: canput of the display's queue
LineCanput ==
    /\ Serves("line", "canput")
    /\ wq' = [wq EXCEPT !["disp"].wantw = @ \/ wq["disp"].full]
    /\ serving' = [serving EXCEPT !.step = IF wq["disp"].full THEN "putbq" ELSE "putnext"]
    /\ UNCHANGED <<sd, runq, tty, timers, nmsg, owed, last, task, wchan>>

\* line_wsrvc: putnext, which is ttx_wputp and putq
LinePutnext ==
    /\ Serves("line", "putnext")
    /\ wq' = [wq EXCEPT !["disp"] = Putq(@, serving.m)]
    /\ runq' = QenableIf(wq["disp"].wantr, runq, "disp")
    /\ serving' = [serving EXCEPT !.m = NoBlock, !.step = "get"]
    /\ UNCHANGED <<sd, tty, timers, nmsg, owed, last, task, wchan>>

\* line_wsrvc: putbq and return
LinePutbq ==
    /\ Serves("line", "putbq")
    /\ wq' = [wq EXCEPT !["line"] = Putbq(@, serving.m)]
    /\ runq' = QenableIf(wq["line"].wantr, runq, "line")
    /\ QueueServed
    /\ UNCHANGED <<sd, tty, timers, nmsg, owed, last, task, wchan>>

\* Message m has been output or carried out
Handled(m) == owed' = owed \ {m.id} /\ last' = m.id

\* disp_proc: T_OUTPUT of m, unless output is stopped
Output(m, rq) ==
    \/ /\ tty.stop \/ tty.brk
       /\ tty' = [tty EXCEPT !.xm = m]
       /\ runq' = rq
       /\ UNCHANGED <<owed, last>>
    \/ /\ ~tty.stop /\ ~tty.brk
       /\ tty' = [tty EXCEPT !.xm = NoBlock]
       /\ runq' = Qenable(rq, "disp")
       /\ Handled(m)

\* ttx_wsrvc: the output is poked, or nothing is done during a break
DispPoke ==
    /\ Serves("disp", "get")
    /\ \/ tty.xm # NoBlock /\ Output(tty.xm, runq)
       \/ tty.xm = NoBlock /\ tty.brk /\ UNCHANGED <<runq, tty, owed, last>>
    /\ QueueServed
    /\ UNCHANGED <<sd, wq, timers, nmsg, task, wchan>>

\* ttx_wsrvc: getq in the loop
DispGet ==
    /\ Serves("disp", "get") /\ tty.xm = NoBlock /\ ~tty.brk
    /\ Getq("disp")
    /\ IF wq["disp"].msgs = <<>> THEN QueueServed
       ELSE serving' = [serving EXCEPT !.m = Head(wq["disp"].msgs), !.step = "handle"]
    /\ UNCHANGED <<sd, tty, timers, nmsg, owed, last, task, wchan>>

\* ttx_wsrvc: data is output, and an ioctl is carried out and answered
DispData ==
    /\ Serves("disp", "handle") /\ serving.m.cmd = "data"
    /\ Output(serving.m, runq)
    /\ QueueServed
    /\ UNCHANGED <<sd, wq, timers, nmsg, task, wchan>>

DispIoctl ==
    /\ Serves("disp", "handle") /\ serving.m.cmd # "data"
    /\ Handled(serving.m)
    /\ sd' = Strrput(sd, serving.m.id)
    /\ Wakeup(IF sd' # sd THEN {Answer} ELSE {})
    /\ \/ /\ serving.m.cmd = "TCSBRK"
          /\ tty' = [tty EXCEPT !.brk = TRUE]
          /\ timers' = [timers EXCEPT !.brk = 1]
       \/ /\ serving.m.cmd = "TCSETAW"
          /\ UNCHANGED <<tty, timers>>
    /\ serving' = [serving EXCEPT !.m = NoBlock, !.step = "get"]
    /\ UNCHANGED <<wq, runq, nmsg, task>>

-------------------------------------------------------------------------------
(* Interrupts                                                              *)

\* disp_proc: T_RESUME
Resume == /\ tty' = [tty EXCEPT !.stop = FALSE] /\ runq' = Qenable(runq, "disp")

\* disp_rintr: stop and start characters
KeyStop ==
    /\ ~tty.stop
    /\ tty' = [tty EXCEPT !.stop = TRUE]
    /\ UNCHANGED <<sd, wq, runq, serving, timers, nmsg, owed, last, task, wchan>>

KeyStart ==
    /\ tty.stop
    /\ Resume
    /\ UNCHANGED <<sd, wq, serving, timers, nmsg, owed, last, task, wchan>>

\* flushq puts the ioctls back with putq
PutBack(q) == wq[q].wantr /\ Kept(wq[q]).msgs # <<>>

\* line_rput: an interrupt character flushes the line discipline's queue (line_flush), and
\* M_FLUSH goes up to the head and down to the display, which drops its output
KeyIntr ==
    LET line == Kept(wq["line"])
        disp == Kept(wq["disp"])
        r1 == QenableIf(Writable(line), QenableIf(PutBack("line"), runq, "line"), "head")
        r2 == QenableIf(Writable(disp), QenableIf(PutBack("disp"), r1, "disp"), "line")
        dropped == {m \in Range(wq["line"].msgs) \cup Range(wq["disp"].msgs) \cup {tty.xm} :
                       m.cmd = "data"}
    IN  /\ wq' = [line |-> line, disp |-> disp]
        /\ tty' = [tty EXCEPT !.xm = NoBlock, !.stop = FALSE]
        /\ runq' = Qenable(r2, "disp")
        /\ owed' = owed \ {m.id : m \in dropped}
        /\ UNCHANGED <<sd, serving, timers, nmsg, last, task, wchan>>

\* ttx_brktimer: the break is over, T_TIME
BreakOver ==
    /\ TimersRun /\ timers.brk = 1
    /\ timers' = [timers EXCEPT !.brk = 0]
    /\ tty' = [tty EXCEPT !.brk = FALSE]
    /\ runq' = Qenable(runq, "disp")
    /\ UNCHANGED <<sd, wq, serving, nmsg, owed, last, task, wchan>>

-------------------------------------------------------------------------------
StrNext ==
    \/ \E p \in Procs : \/ StrWrite(p) \/ WriteInterrupted(p) \/ WriteCopied(p) \/ WriteDone(p)
                        \/ IoctlBegin(p) \/ IoctlAgain(p) \/ IoctlNotBegun(p)
                        \/ IoctlSent(p) \/ IoctlAnswered(p) \/ IoctlCopiedOut(p)
                        \/ IoctlGivenUp(p)
    \/ Str2time \/ Str3time
    \/ Queuerun \/ Strwsrv
    \/ LineGet \/ LineCanput \/ LinePutnext \/ LinePutbq
    \/ DispPoke \/ DispGet \/ DispData \/ DispIoctl
    \/ KeyStop \/ KeyStart \/ KeyIntr \/ BreakOver

StrSpec == StrInit /\ [][StrNext]_<<strVars, wchan>>

-------------------------------------------------------------------------------
(* Properties                                                              *)

StrAsleep(p, at) == task[p].at = at /\ ~Awake(p)

\* The messages below the stream head, in the order in which the display will have them
Below ==
    LET One(m) == IF m = NoBlock THEN <<>> ELSE <<m.id>>
        Ids(Q) == [i \in DOMAIN Q.msgs |-> Q.msgs[i].id]
        Held(q) == IF serving.q = q THEN One(serving.m) ELSE <<>>
    IN  One(tty.xm) \o Held("disp") \o Ids(wq["disp"]) \o Held("line") \o Ids(wq["line"])

\* What is written and the ioctls that wait for output reach the display in the order in which
\* they were sent, whatever is put back, flushed or stopped; nothing is lost but the data
\* that an interrupt character flushes
InOrder == /\ Range(Below) = owed
           /\ \A i \in DOMAIN Below : /\ Below[i] > last
                                      /\ \A j \in 1 .. i - 1 : Below[j] < Below[i]

\* No queue stands still: one with messages is enabled, or it waits for the queue below it
\* to get room, for the output to be started again, or for the end of a break
NoStall ==
    /\ wq["line"].msgs # <<>> =>
          Enabled("line") \/ (wq["disp"].wantw /\ (wq["disp"].msgs # <<>> \/ Enabled("disp")))
    /\ wq["disp"].msgs # <<>> => Enabled("disp") \/ tty.brk \/ (tty.stop /\ tty.xm # NoBlock)
    /\ tty.xm # NoBlock => Enabled("disp") \/ tty.stop

\* One process has control of the ioctls of a stream; the reply it waits for and takes is the
\* one to its own ioctl, never a late one to an ioctl that was given up, and a process that
\* waits for control is woken when it is free
AckIsOwners ==
    /\ \A p \in Procs : task[p].at \in {"runioctl", "ack"} =>
          /\ sd.ioctl /\ sd.iocid = task[p].id /\ sd.blk \in {0, task[p].id}
          /\ \A o \in Procs \ {p} : task[o].at \notin {"runioctl", "ack"}
    /\ (\E p \in Procs : StrAsleep(p, "wait")) =>
          sd.ioctl \/ (\E o \in Procs : task[o].at = "out")

\* A process that waits for a reply, not for ever, has a timer, and so has no other: a timer
\* left behind would end a later ioctl too early
TimersOwned ==
    /\ \A p \in Procs : StrAsleep(p, "ack") /\ ~task[p].req.forever => timers.str3 = 1
    /\ timers.str3 = Cardinality({p \in Procs : /\ task[p].at = "ack" /\ ~task[p].req.forever
                                                /\ timers.str3 > 0})
    /\ timers.str2 <= Cardinality({p \in Procs : task[p].at = "wait"})

\* No writer sleeps for room when there is room and nothing is under way that wakes it up
WritersWoken ==
    (\E p \in Procs : StrAsleep(p, "room")) =>
       wq["line"].full \/ runq # <<>> \/ serving # NotServing
=============================================================================
