--------------------------- MODULE StringAllocator ---------------------------
(***************************************************************************)
(* The string allocator of src/core/string_allocator.c: blocks of a power  *)
(* of two bytes, kept by size in bounded free lists.  A freed string says  *)
(* its length, not the size of its block.  Each call touches the lists in  *)
(* one critical section and new blocks come from a thread-safe arena, so a *)
(* call is one step.                                                       *)
(***************************************************************************)
EXTENDS FixedArray, Sequences, FiniteSetsExt

CONSTANTS
  STRING_ALLOCATOR_MIN_SIZE_LOG2, STRING_ALLOCATOR_NUM_BUCKETS,
  STRING_ALLOCATOR_MAX_FREE_LIST_SIZE,
  Lengths,     (* lengths of strings asked for or copied                   *)
  MaxBlocks    (* bound: blocks taken from the arena                       *)

ASSUME StringAllocatorAssumption ==
  /\ {STRING_ALLOCATOR_MIN_SIZE_LOG2, STRING_ALLOCATOR_MAX_FREE_LIST_SIZE} \subseteq Nat
  /\ STRING_ALLOCATOR_NUM_BUCKETS \in Nat \ {0}
  /\ Lengths \subseteq Nat

VARIABLES
  free_lists,  (* a fixed array of blocks for each bucket                  *)
  bytes,       (* size of each block taken from the arena, by its number   *)
  strings      (* strings that callers hold: records [data, length]        *)

strings_vars == <<free_lists, bytes, strings>>

FreeBuckets == 0..STRING_ALLOCATOR_NUM_BUCKETS - 1

(* 1 << n                                                                  *)
Power[n \in Nat] == IF n = 0 THEN 1 ELSE 2 * Power[n - 1]

(* Mutant: sizes are rounded down to a power of two.                       *)
FloorBucket(size) ==
  IF size = 0 THEN 0
  ELSE Max({n \in 0..size : Power[n] <= size} \cup {STRING_ALLOCATOR_MIN_SIZE_LOG2})
         - STRING_ALLOCATOR_MIN_SIZE_LOG2

get_bucket_for_size(size) ==
  IF size = 0 THEN 0
  ELSE Min({n \in STRING_ALLOCATOR_MIN_SIZE_LOG2..STRING_ALLOCATOR_MIN_SIZE_LOG2 + size : Power[n] >= size})
         - STRING_ALLOCATOR_MIN_SIZE_LOG2

AllocSize(bucket) == Power[bucket + STRING_ALLOCATOR_MIN_SIZE_LOG2]

StringsInit ==
  /\ free_lists = [b \in FreeBuckets |-> fixed_array_init_raw(STRING_ALLOCATOR_MAX_FREE_LIST_SIZE)]
  /\ bytes = << >>
  /\ strings = {}

(* A string of n bytes, handed out as one of length said.                  *)
Huge(n, said) ==
  /\ get_bucket_for_size(n) \notin FreeBuckets
  /\ Len(bytes) < MaxBlocks
  /\ bytes' = Append(bytes, n)
  /\ strings' = strings \cup {[data |-> Len(bytes) + 1, length |-> said]}
  /\ UNCHANGED free_lists

Reuse(n, said) ==
  LET b == get_bucket_for_size(n)
      top == free_lists[b].length - 1
  IN  /\ b \in FreeBuckets /\ top >= 0
      /\ strings' = strings \cup {[data |-> free_lists[b].data[top], length |-> said]}
      /\ free_lists' = [free_lists EXCEPT ![b].length = top]
      /\ UNCHANGED bytes

Fresh(n, said) ==
  LET b == get_bucket_for_size(n)
  IN  /\ b \in FreeBuckets /\ free_lists[b].length = 0
      /\ Len(bytes) < MaxBlocks
      /\ bytes' = Append(bytes, AllocSize(b))
      /\ strings' = strings \cup {[data |-> Len(bytes) + 1, length |-> said]}
      /\ UNCHANGED free_lists

Alloc(n, said) == Huge(n, said) \/ Reuse(n, said) \/ Fresh(n, said)

string_allocator_alloc(n) == Alloc(n, n)

(* An empty or a static string is returned as it is; formatting copies a   *)
(* string made in a scratch arena.                                         *)
string_allocator_copy(n) == n # 0 /\ Alloc(n, n)

(* A terminator is added that the length of the string does not count.     *)
string_allocator_cstr(n) == Alloc(n + 1, n)

(* Empty and huge strings, and those a full list has no place for, stay in *)
(* the arena for good.                                                     *)
string_allocator_free(s) ==
  LET b == get_bucket_for_size(s.length) IN
  /\ strings' = strings \ {s}
  /\ free_lists' = IF s.length = 0 \/ b \notin FreeBuckets THEN free_lists
                   ELSE [free_lists EXCEPT ![b] = fixed_array_add_raw(@, s.data)]
  /\ UNCHANGED bytes

string_allocator_clear_free_lists ==
  /\ free_lists' = [b \in FreeBuckets |-> fixed_array_clear_raw(free_lists[b])]
  /\ UNCHANGED <<bytes, strings>>

StringsNext ==
  \/ \E n \in Lengths : string_allocator_alloc(n)
  \/ \E n \in Lengths : string_allocator_copy(n)
  \/ \E n \in Lengths : string_allocator_cstr(n)
  \/ \E s \in strings : string_allocator_free(s)
  \/ string_allocator_clear_free_lists

StringsSpec == StringsInit /\ [][StringsNext]_strings_vars

----------------------------------------------------------------------------
ListedBlocks ==
  {e \in FreeBuckets \X (0..STRING_ALLOCATOR_MAX_FREE_LIST_SIZE - 1) : e[2] < free_lists[e[1]].length}
Block(e) == free_lists[e[1]].data[e[2]]

(* StringsAreApart: each block is held by one string or listed in one place*)
(* and is large enough for the string and for any string its list serves,  *)
(* although the list is chosen by the length of what was freed and not by  *)
(* the size of its block (string_allocator.c:46-120).                      *)
StringsAreApart ==
  /\ \A s, t \in strings : s.data = t.data => s = t
  /\ \A d, e \in ListedBlocks : Block(d) = Block(e) => d = e
  /\ \A s \in strings : bytes[s.data] >= s.length /\ \A e \in ListedBlocks : Block(e) # s.data
  /\ \A e \in ListedBlocks : bytes[Block(e)] >= AllocSize(e[1])
=============================================================================
