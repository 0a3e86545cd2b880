-------------------------------- MODULE Tlsf --------------------------------
(***************************************************************************)
(* The two-level segregated fit allocator of src/core/tlsf.c.  The heap is *)
(* one record: block headers by address, the free lists by class, and the  *)
(* two bitmaps as sets of set bits.  Every function of the file that       *)
(* changes the heap is an operator from heap to heap; the actions are the  *)
(* calls a client may make.  Addresses and sizes are bytes, the word being *)
(* both the alignment and the header overhead, as on 64-bit machines.      *)
(***************************************************************************)
EXTENDS Integers, Sequences, FiniteSets, SequencesExt, FiniteSetsExt

CONSTANTS
  SL_INDEX_COUNT_LOG2, ALIGN_SIZE_LOG2, FL_INDEX_MAX,
  SizeBits,   (* width of size_t and of an address                         *)
  Pools,      (* memory the client may add: records [mem, bytes]           *)
  FirstPool,  (* the pool of tlsf_create_with_pool                         *)
  Requests,   (* sizes asked for                                           *)
  AlignBits   (* logarithms of the alignments asked of tlsf_memalign       *)

VARIABLES
  heap,       (* control_t and every header                                *)
  pools,      (* pools added and not removed                               *)
  live        (* what the client holds: address -> [size, align]           *)

tlsf_vars == <<heap, pools, live>>

(* 1 << n                                                                  *)
Bit[n \in Nat] == IF n = 0 THEN 1 ELSE 2 * Bit[n - 1]

SL_INDEX_COUNT   == Bit[SL_INDEX_COUNT_LOG2]
ALIGN_SIZE       == Bit[ALIGN_SIZE_LOG2]
FL_INDEX_SHIFT   == SL_INDEX_COUNT_LOG2 + ALIGN_SIZE_LOG2
FL_INDEX_COUNT   == FL_INDEX_MAX - FL_INDEX_SHIFT + 1
SMALL_BLOCK_SIZE == Bit[FL_INDEX_SHIFT]
Overhead         == ALIGN_SIZE
block_size_min   == 3 * ALIGN_SIZE
block_size_max   == Bit[FL_INDEX_MAX]
HeaderSize       == block_size_min + Overhead
PoolOverhead     == 2 * Overhead

Null    == -1
Classes == (0..FL_INDEX_COUNT - 1) \X (0..SL_INDEX_COUNT - 1)

----------------------------------------------------------------------------
(* Arithmetic.                                                             *)

fls(x) == IF x = 0 THEN -1 ELSE CHOOSE i \in 0..SizeBits : Bit[i] <= x /\ x < Bit[i + 1]
ffs(bits) == IF bits = {} THEN -1 ELSE Min(bits)

align_up(x, a)   == LET y == (x + a - 1) % Bit[SizeBits] IN y - (y % a)
align_down(x, a) == x - (x % a)

(* A request of zero, above the largest class, or whose rounding wraps     *)
(* adjusts to zero.                                                        *)
adjust_request_size(size, a) ==
  LET aligned == align_up(size, a) IN
  IF size # 0 /\ aligned < block_size_max /\ aligned >= size
  THEN Max({aligned, block_size_min}) ELSE 0

mapping_insert(size) ==
  IF size < SMALL_BLOCK_SIZE
  THEN <<0, size \div (SMALL_BLOCK_SIZE \div SL_INDEX_COUNT)>>
  ELSE <<fls(size) - (FL_INDEX_SHIFT - 1),
         size \div Bit[fls(size) - SL_INDEX_COUNT_LOG2] - SL_INDEX_COUNT>>

mapping_search(size) ==
  mapping_insert(IF size >= SMALL_BLOCK_SIZE
                 THEN size + Bit[fls(size) - SL_INDEX_COUNT_LOG2] - 1 ELSE size)

----------------------------------------------------------------------------
(* Headers.                                                                *)

ToPtr(b)   == b + 2 * Overhead
FromPtr(p) == p - 2 * Overhead
NextOf(h, b) == b + Overhead + h.blk[b].size

(* prev_phys_block lies in the last word of the block before: the owner of *)
(* a used block overwrites it.                                             *)
Clobber(h, b) == [h EXCEPT !.blk[NextOf(h, b)].prevPhys = Null]
LinkNext(h, b) == [h EXCEPT !.blk[NextOf(h, b)].prevPhys = b]

MarkFree(h, b) ==
  [LinkNext(h, b) EXCEPT !.blk[NextOf(h, b)].prevFree = TRUE, !.blk[b].free = TRUE]
MarkUsed(h, b) ==
  Clobber([h EXCEPT !.blk[NextOf(h, b)].prevFree = FALSE, !.blk[b].free = FALSE], b)

SetPrevFree(h, b, v) == [h EXCEPT !.blk[b].prevFree = v]

----------------------------------------------------------------------------
(* Free lists and bitmaps.                                                 *)

Unlink(list, b) == RemoveAt(list, CHOOSE i \in DOMAIN list : list[i] = b)

RemoveFree(h, b, c) ==
  LET rest == Unlink(h.list[c], b)
      bits == IF Head(h.list[c]) = b /\ rest = <<>> THEN h.sl[c[1]] \ {c[2]} ELSE h.sl[c[1]]
  IN  [h EXCEPT !.list[c] = rest, !.sl[c[1]] = bits,
                !.fl = IF bits = {} THEN @ \ {c[1]} ELSE @]

InsertFree(h, b, c) ==
  [h EXCEPT !.list[c] = <<b>> \o @, !.fl = @ \cup {c[1]}, !.sl[c[1]] = @ \cup {c[2]}]

BlockRemove(h, b) == RemoveFree(h, b, mapping_insert(h.blk[b].size))
BlockInsert(h, b) == InsertFree(h, b, mapping_insert(h.blk[b].size))

(* The class of the block a search returns, or none.                       *)
search_suitable_block(h, c) ==
  LET here  == {s \in h.sl[c[1]] : s >= c[2]}
      above == {f \in h.fl : f > c[1]}
  IN  CASE here # {}                -> {<<c[1], ffs(here)>>}
        [] here = {} /\ above # {}  -> {<<ffs(above), ffs(h.sl[ffs(above)])>>}
        [] here = {} /\ above = {}  -> {}

(* Null, or the head of the list found; size 0 and classes off the end of  *)
(* the table find nothing.                                                 *)
Locate(h, size) ==
  IF size = 0 \/ mapping_search(size)[1] >= FL_INDEX_COUNT THEN {}
  ELSE search_suitable_block(h, mapping_search(size))

----------------------------------------------------------------------------
(* Splitting and merging.                                                  *)

CanSplit(h, b, size) == h.blk[b].size >= HeaderSize + size

Rest(b, size) == b + Overhead + size

(* The flags of the new header are whatever the memory held; every caller  *)
(* of block_split sets prevFree.                                           *)
Split(h, b, size) ==
  LET r == Rest(b, size)
      remain == h.blk[b].size - (size + Overhead)
      new == [size |-> remain, free |-> FALSE, prevFree |-> FALSE, prevPhys |-> Null]
  IN  MarkFree([h EXCEPT !.blk = [x \in DOMAIN @ \cup {r} |->
                  IF x = r THEN new ELSE IF x = b THEN [@[b] EXCEPT !.size = size] ELSE @[x]]], r)

(* b's storage joins the block before it; its header is no header any more.*)
Absorb(h, prev, b) ==
  LET both == h.blk[prev].size + h.blk[b].size + Overhead
      g == [h EXCEPT !.blk = [x \in DOMAIN @ \ {b} |->
                IF x = prev THEN [@[prev] EXCEPT !.size = both] ELSE @[x]]]
  IN  LinkNext(g, prev)

PrevOf(h, b) == IF h.blk[b].prevFree THEN h.blk[b].prevPhys ELSE b

MergePrev(h, b) ==
  IF h.blk[b].prevFree THEN Absorb(BlockRemove(h, PrevOf(h, b)), PrevOf(h, b), b) ELSE h

(* Mutant: a freed block is not merged with the free block after it.       *)
MergeNothing(h, b) == h

MergeNext(h, b) ==
  LET n == NextOf(h, b) IN
  IF h.blk[n].free THEN Absorb(BlockRemove(h, n), b, n) ELSE h

TrimFree(h, b, size) ==
  IF ~CanSplit(h, b, size) THEN h
  ELSE BlockInsert(SetPrevFree(LinkNext(Split(h, b, size), b), Rest(b, size), TRUE), Rest(b, size))

TrimUsed(h, b, size) ==
  IF ~CanSplit(h, b, size) THEN h
  ELSE LET r == Rest(b, size)
       IN  BlockInsert(MergeNext(SetPrevFree(Split(h, b, size), r, FALSE), r), r)

(* The leading gap goes back to the lists; the caller uses the second part.*)
TrimLeading(h, b, gap) ==
  LET r == Rest(b, gap - Overhead) IN
  IF ~CanSplit(h, b, gap) THEN <<h, b>>
  ELSE <<BlockInsert(LinkNext(SetPrevFree(Split(h, b, gap - Overhead), r, TRUE), b), b), r>>

PrepareUsed(h, b, size) == MarkUsed(TrimFree(h, b, size), b)

----------------------------------------------------------------------------
(* The calls: each yields the heap after it and the pointer it returns.    *)

Malloc(h, size) ==
  LET adjust == adjust_request_size(size, ALIGN_SIZE) IN
  IF Locate(h, adjust) = {} THEN <<h, Null>>
  ELSE LET c == CHOOSE x \in Locate(h, adjust) : TRUE
           b == Head(h.list[c])
       IN  <<PrepareUsed(RemoveFree(h, b, c), b, adjust), ToPtr(b)>>

(* Bytes from p to the first aligned address with no gap, or room for a    *)
(* free block's header, before it.                                         *)
GapOf(p, align) ==
  LET gap == align_up(p, align) - p IN
  IF gap = 0 \/ gap >= HeaderSize THEN gap
  ELSE align_up(p + gap + Max({HeaderSize - gap, align}), align) - p

Memalign(h, align, size) ==
  LET adjust  == adjust_request_size(size, ALIGN_SIZE)
      withGap == adjust_request_size((adjust + align + HeaderSize) % Bit[SizeBits], align)
      wanted  == IF adjust # 0 /\ align > ALIGN_SIZE THEN withGap ELSE adjust
  IN  IF Locate(h, wanted) = {} THEN <<h, Null>>
      ELSE LET c   == CHOOSE x \in Locate(h, wanted) : TRUE
               b   == Head(h.list[c])
               g   == RemoveFree(h, b, c)
               gap == GapOf(ToPtr(b), align)
               t   == IF gap = 0 THEN <<g, b>> ELSE TrimLeading(g, b, gap)
           IN  <<PrepareUsed(t[1], t[2], adjust), ToPtr(t[2])>>

Free(h, p) ==
  LET g == MarkFree(h, FromPtr(p))
      b == PrevOf(g, FromPtr(p))
  IN  BlockInsert(MergeNext(MergePrev(g, FromPtr(p)), b), b)

(* Of a live pointer and a size that is not zero.                          *)
Realloc(h, p, size) ==
  LET b == FromPtr(p)
      n == NextOf(h, b)
      cursize  == h.blk[b].size
      combined == cursize + h.blk[n].size + Overhead
      adjust   == adjust_request_size(size, ALIGN_SIZE)
      moved    == Malloc(h, size)
      grown    == IF adjust > cursize THEN MarkUsed(MergeNext(h, b), b) ELSE h
  IN  CASE adjust = 0 -> <<h, Null>>
        [] adjust > cursize /\ (~h.blk[n].free \/ adjust > combined) ->
             IF moved[2] = Null THEN moved ELSE <<Free(moved[1], p), moved[2]>>
        [] OTHER -> <<TrimUsed(grown, b, adjust), p>>

(* A pool is one free block and a sentinel of size zero.                   *)
AddPool(h, pool) ==
  LET size == align_down(pool.bytes - PoolOverhead, ALIGN_SIZE)
      b    == pool.mem - Overhead
      s    == b + Overhead + size
      main == [size |-> size, free |-> TRUE, prevFree |-> FALSE, prevPhys |-> Null]
      last == [size |-> 0, free |-> FALSE, prevFree |-> TRUE, prevPhys |-> b]
  IN  BlockInsert([h EXCEPT !.blk = [x \in DOMAIN @ \cup {b, s} |->
                      IF x = b THEN main ELSE IF x = s THEN last ELSE @[x]]], b)

PoolFits(pool) ==
  /\ pool.mem % ALIGN_SIZE = 0
  /\ align_down(pool.bytes - PoolOverhead, ALIGN_SIZE) \in block_size_min..block_size_max

FirstBlock(pool) == pool.mem - Overhead

(* What the assertions of tlsf_remove_pool demand of the caller.           *)
PoolIsFree(h, pool) ==
  h.blk[FirstBlock(pool)].free /\ h.blk[NextOf(h, FirstBlock(pool))].size = 0

RemovePool(h, pool) ==
  LET b == FirstBlock(pool)
      g == BlockRemove(h, b)
  IN  [g EXCEPT !.blk = [x \in DOMAIN @ \ {b, NextOf(h, b)} |-> @[x]]]

----------------------------------------------------------------------------
(* The heap's own checks: TRUE when tlsf_insist objects to nothing.        *)

tlsf_check(h) ==
  \A c \in Classes :
    LET sl_map == c[2] \in h.sl[c[1]] IN
    /\ c[1] \notin h.fl => ~sl_map
    /\ sl_map = (h.list[c] # << >>)
    /\ \A b \in ToSet(h.list[c]) :
         LET next == h.blk[NextOf(h, b)] IN
         /\ h.blk[b].free /\ ~h.blk[b].prevFree /\ ~next.free /\ next.prevFree
         /\ h.blk[b].size >= block_size_min
         /\ mapping_insert(h.blk[b].size) = c

(* The blocks from the first one of a pool to the last, each found by the  *)
(* size of the one before, in no more rounds than there is room for.       *)
Walked(h, b) == IF h.blk[b].size = 0 THEN b ELSE NextOf(h, b)
tlsf_walk_pool(h, pool) ==
  LET rounds == 0..pool.bytes \div block_size_min + 1
      at[k \in rounds] == IF k = 0 THEN FirstBlock(pool) ELSE Walked(h, at[k - 1])
  IN  {b \in {at[k] : k \in rounds} : h.blk[b].size # 0}

(* integrity_walker carries the status of the block before.                *)
tlsf_check_pool(h, pool) ==
  \A b \in tlsf_walk_pool(h, pool) :
    h.blk[b].prevFree = \E a \in tlsf_walk_pool(h, pool) : NextOf(h, a) = b /\ h.blk[a].free

tlsf_block_size(h, p) == h.blk[FromPtr(p)].size

----------------------------------------------------------------------------
(* What the static assertions of the file say of its constants; pools are  *)
(* memory of their own, and none is of just block_size_max bytes, which    *)
(* tlsf_add_pool takes although the table has no class for it.             *)
ASSUME TlsfAssumption ==
  /\ {SL_INDEX_COUNT_LOG2, ALIGN_SIZE_LOG2, FL_INDEX_MAX, SizeBits} \subseteq Nat
  /\ FL_INDEX_MAX > FL_INDEX_SHIFT /\ SizeBits >= FL_INDEX_MAX + 2
  /\ Requests \subseteq 0..Bit[SizeBits] - 1 /\ AlignBits \subseteq 0..SizeBits - 1
  /\ FirstPool \in Pools /\ PoolFits(FirstPool)
  /\ \A p \in Pools :
       /\ p.mem \in Nat /\ p.bytes \in Nat /\ p.mem >= Overhead /\ p.mem + p.bytes <= Bit[SizeBits]
       /\ align_down(p.bytes - PoolOverhead, ALIGN_SIZE) # block_size_max
  /\ \A p, q \in Pools : p # q => p.mem + p.bytes <= q.mem \/ q.mem + q.bytes <= p.mem

----------------------------------------------------------------------------
(* The state machine.                                                      *)

control_construct ==
  [blk |-> << >>, list |-> [c \in Classes |-> << >>], fl |-> {},
   sl |-> [f \in 0..FL_INDEX_COUNT - 1 |-> {}]]

TlsfInit ==
  /\ heap = AddPool(control_construct, FirstPool)
  /\ pools = {FirstPool}
  /\ live = << >>

Hold(p, size, align) ==
  [x \in DOMAIN live \cup {p} |-> IF x = p THEN [size |-> size, align |-> align] ELSE live[x]]
Drop(p) == [x \in DOMAIN live \ {p} |-> live[x]]

tlsf_malloc(size) ==
  /\ heap' = Malloc(heap, size)[1]
  /\ live' = LET p == Malloc(heap, size)[2] IN
             IF p = Null THEN live ELSE Hold(p, size, ALIGN_SIZE)
  /\ UNCHANGED pools

tlsf_memalign(align, size) ==
  /\ heap' = Memalign(heap, align, size)[1]
  /\ live' = LET p == Memalign(heap, align, size)[2] IN
             IF p = Null THEN live ELSE Hold(p, size, align)
  /\ UNCHANGED pools

tlsf_free(p) ==
  /\ heap' = Free(heap, p)
  /\ live' = Drop(p)
  /\ UNCHANGED pools

(* With size zero it frees, with no pointer it is tlsf_malloc.             *)
tlsf_realloc(p, size) ==
  /\ size # 0
  /\ heap' = Realloc(heap, p, size)[1]
  /\ live' = LET q == Realloc(heap, p, size)[2]
                 l == IF q = Null THEN live ELSE Drop(p)
             IN  IF q = Null THEN live
                 ELSE [x \in DOMAIN l \cup {q} |->
                         IF x = q THEN [size |-> size, align |-> ALIGN_SIZE] ELSE l[x]]
  /\ UNCHANGED pools

tlsf_add_pool(pool) ==
  /\ pool \notin pools
  /\ heap' = IF PoolFits(pool) THEN AddPool(heap, pool) ELSE heap
  /\ pools' = IF PoolFits(pool) THEN pools \cup {pool} ELSE pools
  /\ UNCHANGED live

tlsf_remove_pool(pool) ==
  /\ pool \in pools
  /\ PoolIsFree(heap, pool)
  /\ heap' = RemovePool(heap, pool)
  /\ pools' = pools \ {pool}
  /\ UNCHANGED live

TlsfNext ==
  \/ \E n \in Requests : tlsf_malloc(n)
  \/ \E k \in AlignBits, n \in Requests : tlsf_memalign(Bit[k], n)
  \/ \E p \in DOMAIN live : tlsf_free(p)
  \/ \E p \in DOMAIN live, n \in Requests : tlsf_realloc(p, n)
  \/ \E pool \in Pools : tlsf_add_pool(pool)
  \/ \E pool \in Pools : tlsf_remove_pool(pool)

TlsfSpec == TlsfInit /\ [][TlsfNext]_tlsf_vars

----------------------------------------------------------------------------
(* The parts of HeapIsSound.                                               *)

IsBlock(b) == heap.blk[b].size # 0
BlockAddrs == {b \in DOMAIN heap.blk : IsBlock(b)}
FreeBlocks == {b \in BlockAddrs : heap.blk[b].free}

(* From the first header of each pool, each block ends where the next      *)
(* header is, up to the sentinel at the end of the pool.                   *)
PoolsAreTiled ==
  /\ {NextOf(heap, b) : b \in BlockAddrs} \cup {FirstBlock(p) : p \in pools} = DOMAIN heap.blk
  /\ \A a, b \in BlockAddrs : NextOf(heap, a) = NextOf(heap, b) => a = b
  /\ \A s \in DOMAIN heap.blk \ BlockAddrs :
       \E p \in pools : s = p.mem + align_down(p.bytes - PoolOverhead, ALIGN_SIZE)
  /\ \A b \in BlockAddrs : heap.blk[b].size >= block_size_min /\ heap.blk[b].size % ALIGN_SIZE = 0

(* Flags and back pointers of neighbours.                                  *)
FlagsAgree ==
  \A b \in BlockAddrs :
    LET n == heap.blk[NextOf(heap, b)] IN
    /\ n.prevFree = heap.blk[b].free
    /\ heap.blk[b].free => n.prevPhys = b /\ ~n.free

(* Each free block is once in the list of its class, and the bitmaps say   *)
(* which lists are not empty.                                              *)
ListsAreExact ==
  \A c \in Classes :
    /\ ToSet(heap.list[c]) = {b \in FreeBlocks : mapping_insert(heap.blk[b].size) = c}
    /\ IsInjective(heap.list[c])
    /\ (c[2] \in heap.sl[c[1]]) = (heap.list[c] # << >>)
    /\ (c[1] \in heap.fl) = (heap.sl[c[1]] # {})

(* What clients hold is exactly the used blocks, aligned and long enough.  *)
ClientsAreServed ==
  /\ {ToPtr(b) : b \in BlockAddrs \ FreeBlocks} = DOMAIN live
  /\ \A p \in DOMAIN live :
       /\ tlsf_block_size(heap, p) >= live[p].size
       /\ p % live[p].align = 0

(* The checks pass, and walking the pools meets just what clients hold.    *)
ChecksPass ==
  /\ tlsf_check(heap) /\ \A pool \in pools : tlsf_check_pool(heap, pool)
  /\ UNION {{ToPtr(b) : b \in tlsf_walk_pool(heap, pool) \ FreeBlocks} : pool \in pools} = DOMAIN live

(* What a search returns is large enough, and a request                    *)
(* is refused only if no free block is of a class above the request's own: *)
(* the rounding of the search costs one class, never more (tlsf.c:494-529).*)
SearchIsGoodFit ==
  \A n \in Requests :
    LET size == adjust_request_size(n, ALIGN_SIZE) IN
    size # 0 =>
      /\ \A c \in Locate(heap, size) : heap.blk[Head(heap.list[c])].size >= size
      /\ Locate(heap, size) = {} =>
           \A b \in FreeBlocks : heap.blk[b].size >= size =>
             mapping_insert(heap.blk[b].size) = mapping_insert(size)

(* HeapIsSound: after any sequence of calls the blocks tile the pools, no  *)
(* two free neighbours are left unmerged, lists and bitmaps list the free  *)
(* blocks by their size, every pointer a client holds is an aligned block  *)
(* of its own, as large as was asked for, tlsf_check and tlsf_check_pool   *)
(* find nothing wrong, and a search that fails had no block that was       *)
(* larger by a class (tlsf.c:353-1143).                                    *)
HeapIsSound == PoolsAreTiled /\ FlagsAgree /\ ListsAreExact /\ ClientsAreServed /\ ChecksPass /\ SearchIsGoodFit
=============================================================================
