--------------------------- MODULE PoolAllocator ---------------------------
(***************************************************************************)
(* The pool allocator of src/core/pool_allocator.c: equal items, the freed *)
(* ones linked through their own first word.  What an owner writes there   *)
(* must never be taken for a link.  A pool has one user at a time.         *)
(***************************************************************************)
EXTENDS Integers, FiniteSets

CONSTANTS
  Words,      (* what owners write in the first word: it may look like a   *)
              (* pointer to any item                                       *)
  MaxItems    (* bound: items taken from the arena                         *)

VARIABLES
  free_list,  (* first free item                                           *)
  word,       (* first word of each item taken from the arena              *)
  held        (* items that callers own                                    *)

pool_vars == <<free_list, word, held>>

no_item == 0   (* nullptr *)
Items   == DOMAIN word

pool_init_raw == free_list = no_item /\ word = [i \in {} |-> no_item] /\ held = {}

PopFree ==
  /\ free_list # no_item
  /\ free_list' = word[free_list]
  /\ word' = [word EXCEPT ![free_list] = 0]
  /\ held' = held \cup {free_list}

TakeNew ==
  /\ free_list = no_item
  /\ Cardinality(Items) < MaxItems
  /\ LET i == Cardinality(Items) + 1
     IN  /\ word' = [x \in Items \cup {i} |-> IF x = i THEN 0 ELSE word[x]]
         /\ held' = held \cup {i}
  /\ UNCHANGED free_list

pool_alloc_raw == PopFree \/ TakeNew

pool_free_raw(i) ==
  /\ word' = [word EXCEPT ![i] = free_list]
  /\ free_list' = i
  /\ held' = held \ {i}

OwnerWrites(i, w) == word' = [word EXCEPT ![i] = w] /\ UNCHANGED <<free_list, held>>

PoolInit == pool_init_raw

PoolNext ==
  \/ pool_alloc_raw
  \/ \E i \in held : pool_free_raw(i)
  \/ \E i \in held, w \in Words : OwnerWrites(i, w)

PoolSpec == PoolInit /\ [][PoolNext]_pool_vars

----------------------------------------------------------------------------
(* What the links lead to from the head of the free list; a word read as a *)
(* link may lead anywhere.                                                 *)
Linked ==
  LET pointers == (Items \cup Words) \ {no_item}
  IN  {i \in pointers : \A S \in SUBSET pointers :
         /\ free_list # no_item => free_list \in S
         /\ \A j \in S \cap Items : word[j] # no_item => word[j] \in S
         => i \in S}

(* PoolIsSound: following the links from free_list reaches exactly the     *)
(* items that nobody owns: none is handed out twice and none is lost,      *)
(* whatever owners wrote (pool_allocator.c:38-67).                         *)
PoolIsSound == Linked = Items \ held
=============================================================================
