--------------------------- MODULE ScratchArenas ---------------------------
(***************************************************************************)
(* The two scratch arenas of one thread (src/core/arena.c) and the calls   *)
(* that nest on them: a function formats into a scratch arena and leaves   *)
(* its result in the arena of its caller, which may be a scratch arena too *)
(* (vsprintf_arena and vsprintf_arena_mt of src/core/sprintf.c; the path,  *)
(* string and environment functions do the same).  An allocation takes one *)
(* unit.                                                                   *)
(***************************************************************************)
EXTENDS Integers, Sequences, SequencesExt

CONSTANTS MaxDepth, MaxUnits   (* bounds: nested calls, units in an arena  *)

ASSUME ScratchAssumption == {MaxDepth, MaxUnits} \subseteq Nat

VARIABLES
  pos,      (* the two positions                                           *)
  frames,   (* calls that have not returned, innermost last                *)
  blocks    (* blocks handed out: arena, place, and the frame that keeps   *)
            (* the block until it returns                                  *)

scratch_vars == <<pos, frames, blocks>>

Own == 0    (* an arena that is no scratch arena                           *)

arena_scratch_begin_conflict(self) == IF self = 1 THEN 2 ELSE 1

arena_scratch_begin == 1

Depth == Len(frames)
Innermost == Last(frames)

(* A call opens its scratch arena; out is the arena of its result, and     *)
(* keeper the frame that made out its scratch arena, 0 for the caller's    *)
(* own arenas.                                                             *)
Call(out, keeper, temp) ==
  /\ Depth < MaxDepth
  /\ frames' = Append(frames, [temp |-> temp, pos |-> pos[temp], out |-> out, keeper |-> keeper])
  /\ UNCHANGED <<pos, blocks>>

Put(arena, keeper) ==
  /\ pos[arena] < MaxUnits
  /\ pos' = [pos EXCEPT ![arena] = @ + 1]
  /\ blocks' = blocks \cup {[arena |-> arena, at |-> pos[arena], keeper |-> keeper]}
  /\ UNCHANGED frames

(* vsprintf_arena, for a result in an arena of the thread's own, in the    *)
(* scratch arena of the caller, or wherever the caller's own result goes.  *)
Conflicting ==
  \/ Call(Own, 0, arena_scratch_begin_conflict(Own))
  \/ Depth > 0 /\ Call(Innermost.temp, Depth, arena_scratch_begin_conflict(Innermost.temp))
  \/ Depth > 0 /\ Call(Innermost.out, Innermost.keeper, arena_scratch_begin_conflict(Innermost.out))

(* vsprintf_arena_mt: the result goes to an arena that threads share.      *)
Plain == Call(Own, 0, arena_scratch_begin)

(* sprintf_assemble; then the copy of what it assembled.                   *)
Format == Depth > 0 /\ Put(Innermost.temp, Depth)
Result == Depth > 0 /\ Innermost.out # Own /\ Put(Innermost.out, Innermost.keeper)

arena_scratch_end ==
  /\ Depth > 0
  /\ pos' = [pos EXCEPT ![Innermost.temp] = Innermost.pos]
  /\ blocks' = {b \in blocks : b.keeper < Depth}
  /\ frames' = Front(frames)

ScratchInit == pos = <<0, 0>> /\ frames = << >> /\ blocks = {}

ScratchNext == Conflicting \/ Plain \/ Format \/ Result \/ arena_scratch_end

ScratchSpec == ScratchInit /\ [][ScratchNext]_scratch_vars

-----------------------------------------------------------------------------
ScratchTypeOK ==
  /\ pos \in [{1, 2} -> 0..MaxUnits]
  /\ \A i \in DOMAIN frames : frames[i].temp \in {1, 2} /\ frames[i].out \in {Own, 1, 2}
  /\ \A b \in blocks : b.arena \in {1, 2} /\ b.keeper \in 1..Depth

(* ResultsSurvive: whatever a call leaves for its callers stays below the  *)
(* position of the arena until the call it was made for returns, and no    *)
(* two blocks share a place (arena.c:538-565).                             *)
ResultsSurvive ==
  /\ \A b \in blocks : b.at < pos[b.arena]
  /\ \A b, c \in blocks : b.arena = c.arena /\ b.at = c.at => b = c
=============================================================================
