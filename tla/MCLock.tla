------------------------------- MODULE MCLock -------------------------------
(* Instances of SyncLock for TLC.                                          *)
EXTENDS SyncLock, TLC

Symmetry == Permutations(Procs \ Remote)
=============================================================================
