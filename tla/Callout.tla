------------------------------- MODULE Callout -------------------------------
(***************************************************************************)
(* The callout table of PAGING/os/clock.c: timeout, untimeout, the clock   *)
(* interrupt and timein.  The list calltodo has at its front the entries   *)
(* that are due, with times <= 0, and then those to come, each with the    *)
(* ticks between the one before it and itself.                             *)
(***************************************************************************)
EXTENDS Integers, Sequences, SequencesExt, FiniteSetsExt

CONSTANTS Funs,        \* the functions with their arguments
          MaxTicks,    \* bound: the longest time a caller asks for
          NCallout,    \* v.v_call, the entries of the table
          MaxLate      \* bound: the ticks that an entry is late

VARIABLE calltodo      \* the entries: c_func and c_arg, c_time and, history, the ticks left

CalloutInit == calltodo = <<>>

\* The ticks until the i-th entry of L is due, as the list has them
Until(L, i) == LET ahead(j) == IF L[j].time > 0 THEN L[j].time ELSE 0
               IN  FoldFunctionOnSet(+, 0, [j \in DOMAIN L |-> ahead(j)], 1 .. i)

\* Mutant: the time of the next entry is not made smaller
InsertedLate(L, k, e) == InsertAt(L, k, e)

\* timeout: e becomes the k-th entry; the next one comes so much later than e
Inserted(L, k, e) ==
    InsertAt(IF k > Len(L) THEN L ELSE [L EXCEPT ![k].time = @ - e.time], k, e)

\* timeout: behind all that are due earlier, ahead of those of the same tick
CalloutTimeout(f, t) ==
    LET L == calltodo
        ticks == IF t <= 0 THEN 1 ELSE t
        before(k) == IF k = 1 THEN 0 ELSE Until(L, k - 1)
        k == Min({i \in DOMAIN L : L[i].time >= ticks - before(i)} \cup {Len(L) + 1})
    IN  /\ Len(L) < NCallout
        /\ calltodo' = Inserted(L, k, [fun |-> f, time |-> ticks - before(k), left |-> ticks])

\* untimeout: the first entry of f, if there is one
CalloutUntimeout(f) ==
    LET L == calltodo
        k == SelectInSeq(L, LAMBDA e : e.fun = f)
    IN  /\ k > 0
        /\ calltodo' = RemoveAt(IF k < Len(L) /\ L[k].time > 0
                                THEN [L EXCEPT ![k + 1].time = @ + L[k].time] ELSE L, k)

\* clock: one tick for the entries that are due, and for the first of those to come
Clock ==
    LET L == calltodo
        k == Min({i \in DOMAIN L : L[i].time > 0} \cup {Len(L)})
    IN  /\ \A i \in DOMAIN L : L[i].left > -MaxLate
        /\ calltodo' = [i \in DOMAIN L |-> [L[i] EXCEPT !.time = IF i <= k THEN @ - 1 ELSE @,
                                                        !.left = @ - 1]]

\* timein: the first entry is due, and its function is called
Timein == /\ calltodo # <<>> /\ Head(calltodo).time <= 0
          /\ calltodo' = Tail(calltodo)

CalloutNext == \/ \E f \in Funs : CalloutUntimeout(f) \/ (\E t \in 0 .. MaxTicks : CalloutTimeout(f, t))
               \/ Clock
               \/ Timein

\* Each entry is due when its ticks have passed, whatever was put in front of it or taken
\* from there, and however late timein is: timein never calls a function before its time,
\* and calls all that are due
TimesExact ==
    \A i \in DOMAIN calltodo :
        Until(calltodo, i) = IF calltodo[i].left > 0 THEN calltodo[i].left ELSE 0
=============================================================================
