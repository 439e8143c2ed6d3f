------------------------------ MODULE MCStreams ------------------------------
(* A small instance of Streams for TLC: two processes write, nobody does an ioctl. *)
EXTENDS Streams, TLC

MCSymmetry == Permutations(Procs)
=============================================================================
