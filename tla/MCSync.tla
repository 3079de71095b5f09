------------------------------- MODULE MCSync -------------------------------
(* Instances of SafeSync for TLC.                                          *)
EXTENDS SafeSyncInv, TLC

Symmetry == Permutations(Clones) \cup Permutations(Contents)

(* A history that an operator's deletion cuts in two is followed up to one *)
(* commit less than one that none does.                                    *)
Cut == born # 0 => Len(log) < MaxCommits
=============================================================================
