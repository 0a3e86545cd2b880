------------------------------ MODULE PerfScope ------------------------------
(***************************************************************************)
(* The frame profiler of one thread (src/core/perf_scope.c).  Scopes are   *)
(* guards that end when they go out of scope, innermost first; frames      *)
(* begin wherever the thread says so, also inside a scope, and the tables  *)
(* of a frame may overflow.                                                *)
(***************************************************************************)
EXTENDS Integers, Sequences, SequencesExt, FiniteSetsExt

CONSTANTS
  PERF_SCOPE_MAX_DEPTH, PERF_SCOPE_MAX_ENTRIES, PERF_SCOPE_FRAME_BUDGET_NS,
  MaxGuards, MaxNow     (* bounds: nested scopes of the thread, time       *)

ASSUME PerfAssumption == PERF_SCOPE_FRAME_BUDGET_NS \in Nat

VARIABLES
  tree, stack, overflow, is_main_thread,   (* PerfScopeThreadState       *)
  scopes,                                     (* open guards                *)
  time,
  ended, shed, printed   (* of this frame: time each ended scope took,      *)
                         (* scopes not recorded, and what frame_end printed *)

perf_vars == <<tree, stack, overflow, is_main_thread, scopes, time, ended, shed, printed>>

unrecorded == -1   (* UINT32_MAX, which is no index of the stack            *)

fl_perf_scope_begin ==
  /\ Len(scopes) < MaxGuards
  /\ IF Len(tree) >= PERF_SCOPE_MAX_ENTRIES \/ Len(stack) >= PERF_SCOPE_MAX_DEPTH
     THEN /\ overflow' = TRUE /\ shed' = TRUE
          /\ scopes' = Append(scopes, [index |-> unrecorded, start |-> time, entry |-> unrecorded])
          /\ UNCHANGED <<tree, stack>>
     ELSE LET entry == Len(tree) + 1
              parent == IF stack = << >> THEN 1 ELSE Last(stack).entry
          IN  /\ tree' = Append(tree, [elapsed |-> 0, depth |-> Len(stack), parent |-> parent])
              /\ stack' = Append(stack, [start |-> time, entry |-> entry])
              /\ scopes' = Append(scopes, [index |-> Len(stack), start |-> time, entry |-> entry])
              /\ UNCHANGED <<overflow, shed>>
  /\ UNCHANGED <<is_main_thread, time, ended, printed>>

(* The guard of the innermost scope runs.                                  *)
fl_perf_scope_end ==
  /\ scopes # << >>
  /\ LET guard == Last(scopes)
         ends == guard.index # unrecorded /\ stack # << >> /\ guard.index = Len(stack) - 1
     IN  /\ IF ends
            THEN /\ tree' = [tree EXCEPT ![Last(stack).entry].elapsed = time - Last(stack).start]
                 /\ stack' = Front(stack)
            ELSE UNCHANGED <<tree, stack>>
         /\ ended' = IF guard.entry = unrecorded THEN ended
                     ELSE ended \cup {[entry |-> guard.entry, took |-> time - guard.start]}
  /\ scopes' = Front(scopes)
  /\ UNCHANGED <<overflow, is_main_thread, time, shed, printed>>

(* Mutant: scopes that are still open stay on the stack.                   *)
ForgetEntries ==
  /\ tree' = << >> /\ overflow' = FALSE /\ UNCHANGED stack
  /\ ended' = {} /\ shed' = FALSE /\ printed' = {}
  /\ scopes' = [i \in DOMAIN scopes |-> [scopes[i] EXCEPT !.entry = unrecorded]]
  /\ UNCHANGED time

Forget ==
  /\ tree' = << >> /\ stack' = << >> /\ overflow' = FALSE
  /\ ended' = {} /\ shed' = FALSE /\ printed' = {}
  /\ scopes' = [i \in DOMAIN scopes |-> [scopes[i] EXCEPT !.entry = unrecorded]]
  /\ UNCHANGED time

fl_perf_scope_frame_begin == Forget /\ UNCHANGED is_main_thread

fl_perf_scope_frame_end ==
  /\ is_main_thread
  /\ tree # << >> /\ tree[1].elapsed > PERF_SCOPE_FRAME_BUDGET_NS
  /\ printed' = {[tree |-> tree, overflow |-> overflow]}
  /\ UNCHANGED <<tree, stack, overflow, is_main_thread, scopes, time, ended, shed>>

fl_perf_scope_init ==
  /\ is_main_thread' = TRUE
  /\ UNCHANGED <<tree, stack, overflow, scopes, time, ended, shed, printed>>

fl_perf_scope_destroy == Forget /\ is_main_thread' = FALSE

TimePasses ==
  /\ time < MaxNow /\ time' = time + 1
  /\ UNCHANGED <<tree, stack, overflow, is_main_thread, scopes, ended, shed, printed>>

PerfInit ==
  /\ tree = << >> /\ stack = << >> /\ overflow = FALSE /\ is_main_thread = FALSE
  /\ scopes = << >> /\ time = 0 /\ ended = {} /\ shed = FALSE /\ printed = {}

PerfNext ==
  \/ fl_perf_scope_begin \/ fl_perf_scope_end \/ fl_perf_scope_frame_begin \/ fl_perf_scope_frame_end
  \/ fl_perf_scope_init \/ fl_perf_scope_destroy \/ TimePasses

PerfSpec == PerfInit /\ [][PerfNext]_perf_vars

-----------------------------------------------------------------------------
(* ScopesAreTheirs: whatever frames begin and whatever overflows in        *)
(* between, the stack is the open scopes of the frame, a scope's time is   *)
(* its own and counted once it ended, and a scope that was not recorded    *)
(* leaves the mark (perf_scope.c:18-79).                                   *)
ScopesAreTheirs ==
  /\ LET mine == {i \in DOMAIN scopes : scopes[i].entry # unrecorded}
     IN  /\ DOMAIN stack = {scopes[i].index + 1 : i \in mine}
         /\ \A i \in mine : stack[scopes[i].index + 1].entry = scopes[i].entry
         /\ \A i, j \in mine : i < j => scopes[i].index < scopes[j].index
  /\ \A i \in DOMAIN tree :
       LET took == {e.took : e \in {e \in ended : e.entry = i}}
       IN  took = IF \E k \in DOMAIN stack : stack[k].entry = i THEN {} ELSE {tree[i].elapsed}
  /\ overflow = shed

(* TreesArePreorder: the entries of a frame are a tree in pre-order, the   *)
(* way they are printed: the parent is the last entry above one level up   *)
(* and took at least as long, and a tree is printed only when the first    *)
(* scope of the frame ended late (perf_scope.c:83-125).                    *)
TreesArePreorder ==
  /\ \A i \in DOMAIN tree :
       LET above == {k \in 1..i - 1 : tree[k].depth < tree[i].depth}
       IN  IF tree[i].depth = 0 THEN tree[i].parent = 1
           ELSE /\ tree[i].parent = Max(above)
                /\ tree[tree[i].parent].depth = tree[i].depth - 1
                /\ (\E k \in DOMAIN stack : stack[k].entry = tree[i].parent)
                     \/ tree[i].elapsed <= tree[tree[i].parent].elapsed
  /\ printed # {} => \E e \in ended : e.entry = 1 /\ e.took > PERF_SCOPE_FRAME_BUDGET_NS
=============================================================================
