--------------------------- MODULE MCWorkerIdle ---------------------------
(* Instances of WorkerIdle for TLC.                                        *)
EXTENDS WorkerIdle, TLC

(* Workers are interchangeable, and so are producers.                      *)
Symmetry == Permutations(Workers) \union Permutations(Producers)
=============================================================================
