---------------------------- MODULE MCJobSystem ----------------------------
(* Instances of JobSystem for TLC.                                         *)
EXTENDS JobSystem, TLC

(* Workers are interchangeable, and so are clients.                        *)
Symmetry == Permutations(Workers) \union Permutations(Clients)
=============================================================================
