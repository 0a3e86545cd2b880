---------------------------- MODULE MCArenaAlloc ----------------------------
(* Instances of ArenaAlloc for TLC.                                        *)
EXTENDS ArenaAlloc, TLC

Symmetry == Permutations(Threads)
=============================================================================
