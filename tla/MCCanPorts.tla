----------------------------- MODULE MCCanPorts -----------------------------
(* Small instance of CanPorts for TLC.                                     *)
EXTENDS CanPorts, TLC

ThreadSymmetry == Permutations(Threads)
=============================================================================
