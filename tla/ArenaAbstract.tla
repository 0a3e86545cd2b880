--------------------------- MODULE ArenaAbstract ---------------------------
(***************************************************************************)
(* What a region allocator promises its callers: an allocation is a fresh  *)
(* range of the region that shares no byte with a block still in use, and  *)
(* memory is only given back from the top, down to a mark.                 *)
(***************************************************************************)
EXTENDS Integers

CONSTANTS
  Base,     (* first byte a block may use                                   *)
  Limit     (* size of the region                                           *)

VARIABLE blocks     (* blocks in use, [lo, hi) each                         *)

Block == [lo : Nat, hi : Nat]

Apart(a, b) == a.hi <= b.lo \/ b.hi <= a.lo

Init == blocks = {}

Allocate ==
  \E lo, hi \in Base..Limit :
    LET new == [lo |-> lo, hi |-> hi]
    IN  /\ lo <= hi
        /\ \A b \in blocks : Apart(new, b)
        /\ blocks' = blocks \union {new}

Below(mark) == {b \in blocks : b.hi <= mark}

Release == \E mark \in 0..Limit : blocks' = Below(mark)

Next == Allocate \/ Release

Spec == Init /\ [][Next]_blocks
=============================================================================
