----------------------------- MODULE Dictionary -----------------------------
(***************************************************************************)
(* What a hash map promises: a partial function from keys to values that   *)
(* only insert, remove and clear change, each for the key it names.        *)
(***************************************************************************)
CONSTANTS Keys, Values

VARIABLE dict

Init == dict = [k \in {} |-> k]

Insert(k, v) == dict' = [x \in DOMAIN dict \cup {k} |-> IF x = k THEN v ELSE dict[x]]
Delete(k)    == dict' = [x \in DOMAIN dict \ {k} |-> dict[x]]
Clear        == dict' = [k \in {} |-> k]

Next ==
  \/ \E k \in Keys, v \in Values : Insert(k, v)
  \/ \E k \in Keys : Delete(k)
  \/ Clear

Spec == Init /\ [][Next]_dict
=============================================================================
