----------------------------- MODULE SleepQueue -----------------------------
(***************************************************************************)
(* sleep and wakeup of PAGING/os/slp.c.  The kernel is not preemptive: a   *)
(* process runs from one sleep to the next, and wakeup makes every process *)
(* runnable that sleeps on the channel.  A process that was woken runs     *)
(* later, and a signal may interrupt its sleep until it does.              *)
(***************************************************************************)
CONSTANT Procs       \* the processes

VARIABLE wchan       \* p_wchan: the channel a process sleeps on

NoChan == <<>>       \* channels are tuples

Awake(p) == wchan[p] = NoChan

\* wakeup of the channels C
Woken(C) == [p \in Procs |-> IF wchan[p] \in C THEN NoChan ELSE wchan[p]]
Wakeup(C) == wchan' = Woken(C)

\* p wakes up the channels C and goes to sleep on c; a process that runs sleeps on nothing
Sleep(p, c, C) == wchan' = [Woken(C) EXCEPT ![p] = c]

\* sleep is interrupted, or a signal is there when p runs again; p wakes up C
Unsleep(p, C) == wchan' = [Woken(C) EXCEPT ![p] = NoChan]
=============================================================================
