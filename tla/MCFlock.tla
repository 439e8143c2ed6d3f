------------------------------- MODULE MCFlock -------------------------------
(* Instances of Flock for TLC                                              *)
EXTENDS Flock

MCSymmetry == Permutations(Procs) \cup Permutations(Files)

MCNoReaders  == {}
MCAllReaders == Procs
MCOneReader  == {CHOOSE p \in Procs : TRUE}
MCRecs3 == 1 .. 3
MCRecs4 == 1 .. 4
MCRecs5 == 1 .. 5
MCRecs6 == 1 .. 6
=============================================================================
