----------------------------- MODULE TypedQueues -----------------------------
(***************************************************************************)
(* What message queues promise: a message is put at the end of a queue as  *)
(* a whole, and a receive that succeeds takes, in one step, the message    *)
(* that its type selects from the queue it asked for.                      *)
(***************************************************************************)
EXTENDS Integers, Sequences, SequencesExt

CONSTANTS Slots, Procs

VARIABLES box,   \* the incarnation and the messages of a queue
          ask    \* the receive a process has asked for

NoAsk == [slot |-> "none"]

Init == /\ box = [q \in Slots |-> [open |-> FALSE, seq |-> 0, msgs |-> <<>>]]
        /\ ask = [p \in Procs |-> NoAsk]

Open(q) == /\ ~box[q].open
           /\ box' = [box EXCEPT ![q].open = TRUE]
           /\ UNCHANGED ask

\* The queue goes away with its messages, and its next incarnation is another one
Discard(q) == /\ box[q].open
             /\ ~box'[q].open /\ box'[q].msgs = <<>> /\ box'[q].seq # box[q].seq
             /\ \A r \in Slots \ {q} : box'[r] = box[r]
             /\ UNCHANGED ask

Put(q) == /\ box[q].open
          /\ Len(box'[q].msgs) = Len(box[q].msgs) + 1
          /\ box' = [box EXCEPT ![q].msgs = Append(@, Last(box'[q].msgs))]
          /\ UNCHANGED ask

Ask(p) == /\ ask[p] = NoAsk
          /\ \A r \in Procs \ {p} : ask'[r] = ask[r]
          /\ UNCHANGED box

\* The oldest message; the oldest of type t; the oldest of the lowest type up to -t
Selects(t, msgs, i) ==
    CASE t = 0 -> i = 1
      [] t > 0 -> msgs[i].type = t /\ \A j \in 1 .. i - 1 : msgs[j].type # t
      [] t < 0 -> /\ msgs[i].type <= -t
                  /\ \A j \in DOMAIN msgs : msgs[j].type >= msgs[i].type
                  /\ \A j \in 1 .. i - 1 : msgs[j].type # msgs[i].type

Take(p) == LET b == box[ask[p].slot] IN
           /\ ask[p] # NoAsk
           /\ b.open /\ b.seq = ask[p].seq
           /\ \E i \in DOMAIN b.msgs :
                 /\ Selects(ask[p].type, b.msgs, i) /\ b.msgs[i].size <= ask[p].room
                 /\ box' = [box EXCEPT ![ask[p].slot].msgs = RemoveAt(@, i)]
           /\ ask' = [ask EXCEPT ![p] = NoAsk]

\* A receive fails and takes nothing
GiveUp(p) == /\ ask[p] # NoAsk
             /\ ask' = [ask EXCEPT ![p] = NoAsk]
             /\ UNCHANGED box

Next == \/ \E q \in Slots : Open(q) \/ Discard(q) \/ Put(q)
        \/ \E p \in Procs : Ask(p) \/ Take(p) \/ GiveUp(p)

Spec == Init /\ [][Next]_<<box, ask>>
=============================================================================
