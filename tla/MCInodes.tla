------------------------------ MODULE MCInodes ------------------------------
(***************************************************************************)
(* A small instance of Inodes for TLC.                                     *)
(***************************************************************************)
EXTENDS Inodes

MCSymmetry == Permutations(Procs) \cup Permutations(Table) \cup Permutations(Names)
=============================================================================
