---------------------------- MODULE ResourceMap ----------------------------
(***************************************************************************)
(* malloc and mfree of PAGING/os/malloc.c.  A resource map lists the free  *)
(* extents of a resource, sorted and joined wherever they touch: it is     *)
(* modelled by the set of the free units, whose maximal runs are the       *)
(* entries of the map.                                                     *)
(***************************************************************************)
EXTENDS Integers, FiniteSets

Extent(n, a) == a .. a + n - 1

\* The places where n units are free together
Fits(free, n) == {a \in free : Extent(n, a) \subseteq free}

\* malloc: first fit
Malloc(free, n) == CHOOSE a \in Fits(free, n) : \A b \in Fits(free, n) : a <= b

Runs(free) == {a \in free : a - 1 \notin free}

\* The extent touches no other one and the map has no entry left for it
Overflow(free, size, n, a) ==
    /\ a - 1 \notin free /\ a + n \notin free
    /\ Cardinality(Runs(free)) >= size

\* mfree: "DANGER: mfree map overflow", and the units are lost
Mfree(free, size, n, a) ==
    IF n <= 0 \/ Overflow(free, size, n, a) THEN free ELSE free \cup Extent(n, a)
=============================================================================
