----------------------------- MODULE FixedArray -----------------------------
(***************************************************************************)
(* The fixed arrays of src/core/fixed_array.h: a capacity set once, and a  *)
(* length that moves below it.  Elements past the length keep what they    *)
(* held.  Indices count from 0.                                            *)
(***************************************************************************)
EXTENDS Integers

CONSTANT Unset   (* what a new array's memory holds *)

fixed_array_init_raw(capacity) ==
  [capacity |-> capacity, length |-> 0, data |-> [i \in 0..capacity - 1 |-> Unset]]

(* Full arrays refuse.                                                     *)
fixed_array_add_raw(a, e) ==
  IF a.length >= a.capacity THEN a
  ELSE [a EXCEPT !.data[a.length] = e, !.length = @ + 1]

(* The last element takes the place of the one removed.                    *)
fixed_array_remove_swap_raw(a, i) ==
  IF i >= a.length THEN a
  ELSE [a EXCEPT !.length = @ - 1,
                 !.data[i] = IF i < a.length - 1 THEN a.data[a.length - 1] ELSE @]

fixed_array_clear_raw(a) == [a EXCEPT !.length = 0]
=============================================================================
