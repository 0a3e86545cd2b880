------------------------------- MODULE Memory -------------------------------
(***************************************************************************)
(* The memory a thread is given by the string allocator, the pool, the     *)
(* hash map and its scratch arenas, side by side: they share no state.     *)
(***************************************************************************)
EXTENDS StringAllocator, PoolAllocator, HashMap, ScratchArenas

MemorySpec == StringsSpec /\ PoolSpec /\ HashMapSpec /\ ScratchSpec

(* MemoryIsApart: the memory that the string allocator, the pool, the      *)
(* hash map and the nested scratch arenas of a thread hand out again is    *)
(* no longer anyone else's (string_allocator.c, pool_allocator.c,          *)
(* hashmap.c:86-210, arena.c:538-565).                                     *)
MemoryIsApart == StringsAreApart /\ PoolIsSound /\ NodesAreAccounted /\ ScratchTypeOK /\ ResultsSurvive
=============================================================================
