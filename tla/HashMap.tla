------------------------------ MODULE HashMap ------------------------------
(***************************************************************************)
(* The chained hash map of src/core/hashmap.c.  Nodes are linked by next   *)
(* pointers, buckets and the list of free nodes are queues with a first    *)
(* and a last pointer; a cleared map hands whole chains to the free list.  *)
(* The copies of the code for u32 and u64 keys differ only in how two keys *)
(* are compared.                                                           *)
(***************************************************************************)
EXTENDS Integers, FiniteSets, FiniteSetsExt

CONSTANTS
  Keys, Values,
  Hash,       (* the hash of each key                                      *)
  Capacity,   (* the initial capacity asked for                            *)
  MaxNodes    (* bound: nodes taken from the arena                         *)

VARIABLES
  bucket,     (* buckets: [first, last] by index                           *)
  free,       (* free_nodes: [first, last]                                 *)
  node,       (* nodes allocated so far: [next, key, value]                *)
  count

hashmap_vars == <<bucket, free, node, count>>

nullptr == 0
Empty   == [first |-> nullptr, last |-> nullptr]

next_power_of_2(n) == Min({2^i : i \in 0..n} \cap {p \in 0..2 * n + 1 : p >= n})

capacity == next_power_of_2(Capacity)
Buckets  == 0..capacity - 1

ASSUME HashAssumption == Hash \in [Keys -> Nat]
ASSUME CapacityAssumption == capacity \in Nat \ {0}
ASSUME MaxNodesAssumption == MaxNodes \in Nat

(* hash & (capacity - 1), of a capacity that is a power of two             *)
IndexOf(k) == Hash[k] % capacity

HashMapInit ==
  /\ bucket = [i \in Buckets |-> Empty]
  /\ free = Empty
  /\ node = [x \in {} |-> x]
  /\ count = 0

----------------------------------------------------------------------------
(* The queue macros of core.h: each yields <<queue, nodes>>.               *)

QueuePush(q, n, x) ==
  IF q.first = nullptr
  THEN <<[first |-> x, last |-> x], [n EXCEPT ![x].next = nullptr]>>
  ELSE <<[q EXCEPT !.last = x], [n EXCEPT ![q.last].next = x, ![x].next = nullptr]>>

QueuePop(q, n) == IF q.first = q.last THEN Empty ELSE [q EXCEPT !.first = n[q.first].next]

(* What next leads to from x on, x included.                               *)
Chain(n, x) ==
  LET closed == {S \in SUBSET DOMAIN n :
                   x \in S /\ \A y \in S : n[y].next # nullptr => n[y].next \in S}
  IN  {y \in DOMAIN n : x # nullptr /\ \A S \in closed : y \in S}

Before(n, q, x) == CHOOSE p \in Chain(n, q.first) : n[p].next = x

(* Mutant: last still points to the removed node.                          *)
RemoveKeepingLast(q, n, x) ==
  IF q.first = x THEN <<QueuePop(q, n), n>>
  ELSE <<q, [n EXCEPT ![Before(n, q, x)].next = n[x].next]>>

QueueRemove(q, n, x) ==
  IF q.first = x THEN <<QueuePop(q, n), n>>
  ELSE <<IF q.last = x THEN [q EXCEPT !.last = Before(n, q, x)] ELSE q,
         [n EXCEPT ![Before(n, q, x)].next = n[x].next]>>

----------------------------------------------------------------------------
(* The operations.                                                         *)

(* The first node of the bucket with the key's hash and the key.           *)
Matches(k)  == {x \in Chain(node, bucket[IndexOf(k)].first) :
                  Hash[node[x].key] = Hash[k] /\ node[x].key = k}
FindNode(k) == IF Matches(k) = {} THEN nullptr
               ELSE CHOOSE x \in Matches(k) : Matches(k) \subseteq Chain(node, x)

Overwrite(k, v) ==
  /\ FindNode(k) # nullptr
  /\ node' = [node EXCEPT ![FindNode(k)].value = v]
  /\ UNCHANGED <<bucket, free, count>>

(* A node from the free list, or a new one from the arena.                 *)
NodeToUse == IF free.first # nullptr THEN free.first ELSE CHOOSE x \in 1..MaxNodes : x \notin DOMAIN node
FreeAfter == IF free.first # nullptr THEN QueuePop(free, node) ELSE free

InsertNew(k, v) ==
  /\ FindNode(k) = nullptr
  /\ free.first # nullptr \/ DOMAIN node # 1..MaxNodes
  /\ LET x    == NodeToUse
         new  == [next |-> nullptr, key |-> k, value |-> v]
         n    == [y \in DOMAIN node \cup {x} |-> IF y = x THEN new ELSE node[y]]
         push == QueuePush(bucket[IndexOf(k)], n, x)
     IN  bucket' = [bucket EXCEPT ![IndexOf(k)] = push[1]] /\ node' = push[2]
  /\ free' = FreeAfter
  /\ count' = count + 1

hashmap_insert(k, v) == Overwrite(k, v) \/ InsertNew(k, v)

hashmap_remove(k) ==
  /\ FindNode(k) # nullptr
  /\ LET x    == FindNode(k)
         out  == QueueRemove(bucket[IndexOf(k)], node, x)
         push == QueuePush(free, [out[2] EXCEPT ![x].next = nullptr], x)
     IN  /\ bucket' = [bucket EXCEPT ![IndexOf(k)] = out[1]]
         /\ free' = push[1]
         /\ node' = push[2]
  /\ count' = count - 1

(* Every bucket's chain is linked behind the free list, in bucket order.   *)
Filled       == {i \in Buckets : bucket[i].first # nullptr}
EndBefore(i) == LET earlier == {j \in Filled : j < i}
                IN  IF earlier = {} THEN free.last ELSE bucket[Max(earlier)].last

hashmap_clear ==
  /\ node' = [x \in DOMAIN node |->
                IF \E i \in Filled : EndBefore(i) = x
                THEN [node[x] EXCEPT !.next = bucket[CHOOSE i \in Filled : EndBefore(i) = x].first]
                ELSE node[x]]
  /\ free' = IF Filled = {} THEN free
             ELSE [first |-> IF free.last = nullptr THEN bucket[Min(Filled)].first ELSE free.first,
                   last  |-> bucket[Max(Filled)].last]
  /\ bucket' = [i \in Buckets |-> Empty]
  /\ count' = 0

HashMapNext ==
  \/ \E k \in Keys, v \in Values : hashmap_insert(k, v)
  \/ \E k \in Keys : hashmap_remove(k)
  \/ hashmap_clear

HashMapSpec == HashMapInit /\ [][HashMapNext]_hashmap_vars

----------------------------------------------------------------------------
Used(i)   == Chain(node, bucket[i].first)
Held      == UNION {Used(i) : i \in Buckets}
FreeNodes == Chain(node, free.first)

(* The map's contents as its users see them: what hashmap_get answers.     *)
hashmap_get == LET found == [k \in Keys |-> FindNode(k)]
               IN  [k \in {x \in Keys : found[x] # nullptr} |-> node[found[k]].value]

(* NodesAreAccounted: each node is in one bucket, its key's, or on the free*)
(* list, never both, each list ends where its last pointer says, and count *)
(* is the number of nodes in buckets (hashmap.c:86-210).                   *)
NodesAreAccounted ==
  /\ \A i, j \in Buckets : i # j => Used(i) \cap Used(j) = {}
  /\ Held \cap FreeNodes = {} /\ Held \cup FreeNodes = DOMAIN node
  /\ \A i \in Buckets : \A x \in Used(i) : IndexOf(node[x].key) = i
  /\ \A q \in {bucket[i] : i \in Buckets} \cup {free} :
       IF q.first = nullptr THEN q.last = nullptr
       ELSE q.last \in Chain(node, q.first) /\ node[q.last].next = nullptr
  /\ count = Cardinality(Held)

(* ImplementsDictionary: an insert changes the value of its key alone,     *)
(* whatever shares its bucket or its hash, a remove forgets its key alone, *)
(* and a clear all of them: each operation is that of a dictionary         *)
(* (hashmap.c:108-210).                                                    *)
Map == INSTANCE Dictionary WITH dict <- hashmap_get
OperationsAreThose ==
  /\ \A k \in Keys, v \in Values : hashmap_insert(k, v) => Map!Insert(k, v)
  /\ \A k \in Keys : hashmap_remove(k) => Map!Delete(k)
  /\ hashmap_clear => Map!Clear
ImplementsDictionary ==
  Map!Init /\ [][hashmap_vars' # hashmap_vars => OperationsAreThose /\ [Map!Next]_hashmap_get]_hashmap_vars
=============================================================================
