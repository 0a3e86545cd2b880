---------------------------- MODULE MCMcmpQueue ----------------------------
(* Instances of McmpQueue for TLC.                                         *)
EXTENDS McmpQueue, TLC

(* All threads but the one that is sure to run are interchangeable.        *)
Symmetry == Permutations(Threads \ {Lead})
=============================================================================
