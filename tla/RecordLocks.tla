----------------------------- MODULE RecordLocks -----------------------------
(***************************************************************************)
(* What fcntl promises of record locks: a process has, for each byte of a  *)
(* file, no lock, a read lock or a write lock; a write lock excludes every *)
(* lock of another process on the byte.                                    *)
(***************************************************************************)
EXTENDS Naturals

CONSTANTS Procs, Files, Bytes, Modes

VARIABLE held       \* held[f][p][b] \in Modes, or "none"

Conflict(m, n) == "none" \notin {m, n} /\ "write" \in {m, n}

Init == held = [f \in Files |-> [p \in Procs |-> [b \in Bytes |-> "none"]]]

Set(p, f, S, m) ==
    held' = [held EXCEPT ![f][p] = [b \in Bytes |-> IF b \in S THEN m ELSE @[b]]]

\* The bytes S of f are locked in one step, if no other process is in the way
Lock(p, f, S, m) ==
    /\ \A q \in Procs \ {p} : \A b \in S : ~Conflict(m, held[f][q][b])
    /\ Set(p, f, S, m)

Unlock(p, f, S) == Set(p, f, S, "none")

\* The bytes of a call are a range
Next == \E p \in Procs, f \in Files, lo, hi \in Bytes :
            \/ Unlock(p, f, lo .. hi)
            \/ \E m \in Modes : Lock(p, f, lo .. hi, m)

Spec == Init /\ [][Next]_held
=============================================================================
