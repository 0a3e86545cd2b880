--------------------------- MODULE Arenas_proofs ----------------------------
(***************************************************************************)
(* Proofs about ArenaAlloc and ArenaTracker, for any number of threads,    *)
(* any sizes and any reservation: the blocks of an arena are apart, usable *)
(* and fresh, and the list of arenas has those that are there.             *)
(***************************************************************************)
EXTENDS ArenaAlloc, ArenaTracker, FiniteSetTheorems, TLAPS

-----------------------------------------------------------------------------
(***************************************************************************)
(* Proofs about ArenaAlloc, for any number of threads, any sizes and any   *)
(* reservation: the blocks are apart, usable and fresh.                    *)
(***************************************************************************)

-----------------------------------------------------------------------------
(* Arithmetic.                                                             *)

LEMMA AlignUpBounds ==
  ASSUME NEW p \in Nat, NEW a \in Nat \ {0}, p + a <= Word
  PROVE  AlignUp(p, a) \in Nat /\ p <= AlignUp(p, a) /\ AlignUp(p, a) < p + a
<1>1. p % a \in 0..(a - 1)
  OBVIOUS
<1>2. Word \in Nat
  BY ConstantsOK
<1> DEFINE q == IF p % a = 0 THEN p ELSE p + (a - (p % a))
<1>3. q \in Nat /\ p <= q /\ q < p + a
  BY <1>1
<1> HIDE DEF q
<1>4. q % Word = q
  BY <1>2, <1>3
<1> QED
  BY <1>3, <1>4 DEF AlignUp, q

LEMMA WordIsPositive == Word \in Nat /\ Word > 0
BY ConstantsOK, RequestsOK, FS_CardinalityType DEF AlignUp

(* Whatever it wraps to, a rounded offset is an offset.                    *)
LEMMA AlignUpType ==
  ASSUME NEW p \in Nat, NEW a \in Nat \ {0}
  PROVE  AlignUp(p, a) \in Nat
<1>1. p % a \in 0..(a - 1)
  OBVIOUS
<1> DEFINE q == IF p % a = 0 THEN p ELSE p + (a - (p % a))
<1>2. q \in Nat
  BY <1>1
<1> HIDE DEF q
<1>3. q % Word \in 0..(Word - 1)
  BY <1>2, WordIsPositive
<1> QED
  BY <1>3, WordIsPositive DEF AlignUp, q

LEMMA ProductMonotone ==
  ASSUME NEW m \in Nat, NEW c \in Nat, NEW d \in Nat, c <= d
  PROVE  m * c \in Nat /\ m * c <= m * d /\ m * (c + 1) = m * c + m
OBVIOUS

-----------------------------------------------------------------------------
(* Type correctness.                                                       *)

LEMMA RequestType ==
  ASSUME NEW r \in Request
  PROVE  r.size \in Nat /\ r.align \in Nat \ {0} /\ r.size \in Sizes /\ r.align \in Alignments
BY ConstantsOK DEF Request

LEMMA ClaimType ==
  ASSUME TypeOK, NEW t \in Threads
  PROVE  /\ Lo(t) \in Nat /\ Hi(t) \in Nat
         /\ Claim(t) \in [lo : Nat, hi : Nat]
         /\ Boundary(Hi(t)) \in Nat
<1>1. req[t] \in Request /\ cur[t] \in Nat
  BY DEF TypeOK
<1>2. req[t].size \in Nat /\ req[t].align \in Nat \ {0}
  BY <1>1, RequestType
<1>3. Lo(t) \in Nat
  BY <1>1, <1>2, AlignUpType DEF Lo
<1>4. Hi(t) \in Nat
  BY <1>2, <1>3, WordIsPositive DEF Hi
<1>5. Boundary(Hi(t)) \in Nat
  BY <1>4, AlignUpType, ConstantsOK DEF Boundary
<1> QED
  BY <1>3, <1>4, <1>5 DEF Claim

LEMMA IntervalType ==
  ASSUME NEW m, m \subseteq Nat, NEW x \in Nat, NEW y \in Nat
  PROVE  m \union x..(y - 1) \subseteq Nat
OBVIOUS

LEMMA TypeInit == Init => TypeOK
<1> SUFFICES ASSUME Init PROVE TypeOK
  OBVIOUS
<1>1. (CHOOSE r \in Request : TRUE) \in Request
  <2>1. PICK s \in Sizes, a \in Alignments : TRUE
    BY ConstantsOK
  <2>2. [size |-> s, align |-> a] \in Request
    BY DEF Request
  <2> QED
    BY <2>2
<1>2. committed \in Nat
  BY AlignUpType, ConstantsOK DEF Init
<1>3. 0..(committed - 1) \subseteq Nat
  BY <1>2
<1>4. req \in [Threads -> Request]
  BY <1>1 DEF Init
<1>5. pc \in [Threads -> {"out", "load", "claim", "check", "commit", "publish",
                         "peak", "raise", "fatal"}]
  BY DEF Init
<1> QED
  BY <1>2, <1>3, <1>4, <1>5, ConstantsOK DEF Init, TypeOK

(* What an operation of a sole caller leaves committed and mapped.         *)
LEMMA EnsureType ==
  ASSUME TypeOK, NEW h \in Nat, Ensure(h)
  PROVE  committed' \in Nat /\ mapped' \subseteq Nat /\ up' \in BOOLEAN
<1>1. Boundary(h) \in Nat
  BY AlignUpType, ConstantsOK DEF Boundary
<1>2. committed \in Nat /\ mapped \subseteq Nat /\ up \in BOOLEAN
  BY DEF TypeOK
<1>3. mapped \union committed..(Boundary(h) - 1) \subseteq Nat
  BY <1>1, <1>2, IntervalType
<1>4. CASE h <= committed
  BY <1>2, <1>4 DEF Ensure
<1>5. CASE ~(h <= committed)
  <2>1. CASE /\ committed' = Boundary(h) /\ up' = up
             /\ mapped' = mapped \union committed..(Boundary(h) - 1)
    BY <1>1, <1>2, <1>3, <2>1
  <2>2. CASE up' = FALSE /\ UNCHANGED <<committed, mapped>>
    BY <1>2, <2>2
  <2> QED
    BY <1>5, <2>1, <2>2 DEF Ensure
<1> QED
  BY <1>4, <1>5

LEMMA TypeStep == TypeOK /\ [Next]_vars => TypeOK'
<1> SUFFICES ASSUME TypeOK, [Next]_vars PROVE TypeOK'
  OBVIOUS
<1> USE DEF caller, arena
<1>1. ASSUME NEW t \in Threads, Alloc(t) PROVE TypeOK'
  <2> USE <1>1
  <2>0. Lo(t) \in Nat /\ Hi(t) \in Nat /\ Claim(t) \in [lo : Nat, hi : Nat]
        /\ Boundary(Hi(t)) \in Nat
    BY ClaimType
  <2>1. ASSUME NEW r \in Request, Call(t, r) PROVE TypeOK'
    BY <2>1 DEF Call, Goto, TypeOK
  <2>2. CASE LoadPos(t)
    BY <2>2 DEF LoadPos, Goto, TypeOK
  <2>3. CASE ClaimPos(t)
    BY <2>0, <2>3 DEF ClaimPos, Goto, TypeOK
  <2>4. CASE ClaimFails(t)
    BY <2>4 DEF ClaimFails, Goto, TypeOK
  <2>5. CASE CheckCommitted(t)
    BY <2>5 DEF CheckCommitted, Goto, TypeOK
  <2>6. CASE Commit(t)
    <3>0. seen[t] \in Nat /\ mapped \subseteq Nat
      BY DEF TypeOK
    <3>1. mapped \union seen[t]..(Boundary(Hi(t)) - 1) \subseteq Nat
      BY <2>0, <3>0, IntervalType
    <3>2. mapped' \subseteq Nat
      BY <2>6, <3>0, <3>1 DEF Commit
    <3>3. pc' \in [Threads -> {"out", "load", "claim", "check", "commit", "publish",
                              "peak", "raise", "fatal"}]
      BY <2>6 DEF Commit, Goto, TypeOK
    <3> QED
      BY <2>6, <3>2, <3>3 DEF Commit, TypeOK
  <2>7. CASE Publish(t)
    BY <2>0, <2>7 DEF Publish, Goto, TypeOK
  <2>8. CASE LoadPeak(t)
    BY <2>8 DEF LoadPeak, Goto, TypeOK
  <2>9. CASE RaisePeak(t)
    BY <2>0, <2>9 DEF RaisePeak, Return, Goto, TypeOK
  <2>10. CASE RaiseFails(t)
    BY <2>10 DEF RaiseFails, TypeOK
  <2>11. CASE PeakIsHigher(t)
    BY <2>0, <2>11 DEF PeakIsHigher, Return, Goto, TypeOK
  <2>12. CASE Exit(t)
    BY <2>12 DEF Exit, TypeOK
  <2> QED
    BY <2>1, <2>2, <2>3, <2>4, <2>5, <2>6, <2>7, <2>8, <2>9, <2>10, <2>11, <2>12 DEF Alloc
<1>2. CASE Sole
  <2>1. ASSUME NEW r \in Request, AllocSt(r) PROVE TypeOK'
    <3> DEFINE lo == AlignUp(pos, r.align)
               hi == (lo + r.size) % Word
    <3>1. lo \in Nat /\ hi \in Nat
      <4>1. lo \in Nat
        BY AlignUpType, RequestType DEF TypeOK
      <4> QED
        BY <4>1, RequestType, WordIsPositive
    <3> HIDE DEF lo, hi
    <3>2. committed' \in Nat /\ mapped' \subseteq Nat /\ up' \in BOOLEAN
      BY <2>1, <3>1, EnsureType DEF AllocSt, TypeOK, lo, hi
    <3>3. pos' \in Nat /\ peak' \in Nat /\ live' \subseteq [lo : Nat, hi : Nat]
      BY <2>1, <3>1, <3>2 DEF AllocSt, TypeOK, lo, hi
    <3> QED
      BY <2>1, <3>2, <3>3 DEF AllocSt, Alone, TypeOK
  <2>2. ASSUME NEW a \in Alignments, Align(a) PROVE TypeOK'
    <3> DEFINE p == AlignUp(pos, a)
    <3>1. p \in Nat
      BY AlignUpType, ConstantsOK DEF TypeOK
    <3> HIDE DEF p
    <3>2. committed' \in Nat /\ mapped' \subseteq Nat /\ up' \in BOOLEAN
      BY <2>2, <3>1, EnsureType DEF Align, TypeOK, p
    <3> QED
      BY <2>2, <3>1, <3>2 DEF Align, Alone, TypeOK, p
  <2>3. CASE TempBegin
    BY <2>3 DEF TempBegin, Alone, TypeOK
  <2>4. CASE TempEnd
    <3>1. Len(scopes) \in Nat /\ Len(scopes) > 0 /\ scopes[Len(scopes)] \in Nat
      BY <2>4 DEF TempEnd, TypeOK
    <3>2. SubSeq(scopes, 1, Len(scopes) - 1) \in Seq(Nat)
      BY <3>1 DEF TypeOK
    <3> QED
      BY <2>4, <3>1, <3>2 DEF TempEnd, GiveBack, Alone, TypeOK
  <2>5. CASE Rewind
    BY <2>5 DEF Rewind, GiveBack, Alone, TypeOK
  <2>6. CASE PinFloor
    BY <2>6 DEF PinFloor, Alone, TypeOK
  <2>7. CASE Destroy
    <3>1. mapped' = {} /\ live' = {} /\ up' = FALSE /\ calls' \in Nat
          /\ UNCHANGED <<pc, req, cur, seen, pos, committed, peak, floor, scopes>>
      BY <2>7 DEF Destroy, Alone, TypeOK
    <3>2. mapped' \subseteq Nat /\ live' \subseteq [lo : Nat, hi : Nat] /\ up' \in BOOLEAN
      BY <3>1
    <3> QED
      BY <3>1, <3>2 DEF TypeOK
  <2>8. ASSUME NEW p \in Header..Reserved, RewindTo(p) PROVE TypeOK'
    BY <2>8, ConstantsOK DEF RewindTo, GiveBack, Alone, TypeOK
  <2>9. ASSUME NEW n \in 1..Reserved, Compact(n) PROVE TypeOK'
    BY <2>9, ConstantsOK DEF Compact, GiveBack, Alone, TypeOK
  <2> QED
    BY <1>2, <2>1, <2>2, <2>3, <2>4, <2>5, <2>6, <2>7, <2>8, <2>9 DEF Sole
<1>3. CASE UNCHANGED vars
  BY <1>3 DEF vars, TypeOK
<1> QED
  BY <1>1, <1>2, <1>3 DEF Next

(* Every variable of ArenaAlloc holds values of its kind.                  *)
THEOREM TypeCorrect == Spec => []TypeOK
BY TypeInit, TypeStep, PTL DEF Spec

-----------------------------------------------------------------------------
(* The inductive invariant.                                                *)

(* Calls whose block does not fit: they are on their way to exit.  Each    *)
(* has moved pos by at most one request beyond the reservation.            *)
Doomed == {t \in Threads : pc[t] = "fatal" \/ (pc[t] = "check" /\ Hi(t) > Reserved)}

Bounds ==
  /\ Header <= floor /\ floor <= pos
  /\ pos <= Reserved + MaxRequest * Cardinality(Doomed)
  /\ committed <= Reserved
  /\ \A i \in 1..Len(scopes) : floor <= scopes[i] /\ scopes[i] <= Reserved

(* What a call knows at each of its steps.                                 *)
ThreadOK(t) ==
  /\ pc[t] = "claim" => req[t].size <= Word - 1 - Lo(t)
  /\ t \in Claimed => Header <= Lo(t) /\ Lo(t) <= Hi(t) /\ Hi(t) <= pos
  /\ pc[t] \in {"commit", "publish"} =>
       seen[t] < Hi(t) /\ Hi(t) <= Boundary(Hi(t)) /\ Boundary(Hi(t)) <= Reserved
  /\ pc[t] = "publish" => seen[t]..(Boundary(Hi(t)) - 1) \subseteq mapped
  /\ pc[t] \in {"peak", "raise"} => Hi(t) <= committed
  /\ pc[t] = "raise" => seen[t] <= peak

BlockOK(b) ==
  Header <= b.lo /\ b.lo <= b.hi /\ b.hi <= pos /\ b.hi <= committed /\ b.hi <= peak

NoOverlap ==
  /\ \A a, b \in live : a = b \/ Apart(a, b)
  /\ \A t \in Claimed : \A b \in live : Apart(Claim(t), b)
  /\ \A t, u \in Claimed : t = u \/ Apart(Claim(t), Claim(u))

Backed == up \/ live # {} => 0..(committed - 1) \subseteq mapped

IInv ==
  /\ TypeOK
  /\ Bounds
  /\ \A t \in Threads : ThreadOK(t)
  /\ \A b \in live : BlockOK(b)
  /\ NoOverlap
  /\ Backed

-----------------------------------------------------------------------------
(* Room: how far pos can be from wrapping.                                 *)

LEMMA DoomedFinite ==
  /\ IsFiniteSet(Doomed) /\ Cardinality(Doomed) \in Nat
  /\ Cardinality(Threads) \in Nat
  /\ Cardinality(Doomed) <= Cardinality(Threads)
  /\ \A t \in Threads : t \notin Doomed => Cardinality(Doomed) + 1 <= Cardinality(Threads)
<1>1. Doomed \subseteq Threads
  BY DEF Doomed
<1>2. IsFiniteSet(Threads) /\ Cardinality(Threads) \in Nat
  BY ConstantsOK, FS_CardinalityType
<1>3. IsFiniteSet(Doomed) /\ Cardinality(Doomed) <= Cardinality(Threads)
  BY <1>1, <1>2, FS_Subset
<1>4. Cardinality(Doomed) \in Nat
  BY <1>3, FS_CardinalityType
<1>5. ASSUME NEW t \in Threads, t \notin Doomed
      PROVE  Cardinality(Doomed) + 1 <= Cardinality(Threads)
  <2>1. Doomed \union {t} \subseteq Threads
    BY <1>1
  <2>2. Cardinality(Doomed \union {t}) = Cardinality(Doomed) + 1
    BY <1>3, <1>5, FS_AddElement
  <2> QED
    BY <1>2, <2>1, <2>2, FS_Subset
<1> QED
  BY <1>2, <1>3, <1>4, <1>5

LEMMA Room ==
  ASSUME TypeOK, Bounds
  PROVE  /\ pos + PageSize < Word
         /\ \A t \in Threads \ Doomed :
              /\ pos + MaxRequest + PageSize < Word
              /\ pos + MaxRequest <= Reserved + MaxRequest * (Cardinality(Doomed) + 1)
<1> DEFINE d == Cardinality(Doomed)
           n == Cardinality(Threads)
<1>1. d \in Nat /\ n \in Nat /\ d <= n
  BY DoomedFinite
<1>2. Reserved + MaxRequest * n + PageSize < Word
  BY RequestsOK
<1>3. pos \in Nat /\ pos <= Reserved + MaxRequest * d
  BY DEF TypeOK, Bounds
<1>4. \A t \in Threads \ Doomed : d + 1 <= n
  BY DoomedFinite
<1> HIDE DEF d, n
<1>5. MaxRequest \in Nat /\ Reserved \in Nat /\ PageSize \in Nat /\ Word \in Nat
  BY ConstantsOK
<1>6. MaxRequest * d \in Nat /\ MaxRequest * n \in Nat /\ MaxRequest * d <= MaxRequest * n
      /\ MaxRequest * (d + 1) = MaxRequest * d + MaxRequest
  BY <1>1, <1>5, ProductMonotone
<1>7. ASSUME NEW t \in Threads \ Doomed
      PROVE  /\ pos + MaxRequest + PageSize < Word
             /\ pos + MaxRequest <= Reserved + MaxRequest * (d + 1)
  <2>1. MaxRequest * (d + 1) <= MaxRequest * n
    BY <1>1, <1>4, <1>5, <1>7, ProductMonotone
  <2> QED
    BY <1>2, <1>3, <1>5, <1>6, <2>1
<1> QED
  BY <1>2, <1>3, <1>5, <1>6, <1>7 DEF d

(* A request that passes the overflow test at a position with room does    *)
(* not wrap: its block is whole and ends within one request of pos.        *)
LEMMA RequestFits ==
  ASSUME NEW p \in Nat, NEW r \in Request, Header <= p, p + MaxRequest < Word,
         r.size <= Word - 1 - AlignUp(p, r.align)
  PROVE  LET lo == AlignUp(p, r.align)
             hi == (lo + r.size) % Word
         IN  lo \in Nat /\ hi \in Nat /\ p <= lo /\ lo <= hi /\ hi <= p + MaxRequest
<1> DEFINE lo == AlignUp(p, r.align)
<1>1. r.size \in Nat /\ r.align \in Nat \ {0} /\ r.align <= MaxRequest
  BY RequestType, RequestsOK
<1>2. r.size + r.align <= MaxRequest \/ r.size > Word - 1 - Header
  BY RequestType, RequestsOK
<1>3. Word \in Nat /\ MaxRequest \in Nat /\ Header \in Nat
  BY ConstantsOK
<1>4. p + r.align <= Word
  BY <1>1, <1>3
<1>5. lo \in Nat /\ p <= lo /\ lo < p + r.align
  BY <1>1, <1>4, AlignUpBounds
<1> HIDE DEF lo
<1>6. r.size <= Word - 1 - lo
  BY DEF lo
<1>7. r.size + r.align <= MaxRequest
  BY <1>1, <1>2, <1>3, <1>5, <1>6
<1>8. lo + r.size \in Nat /\ lo + r.size < Word
  BY <1>1, <1>3, <1>5, <1>6
<1>9. (lo + r.size) % Word = lo + r.size
  BY <1>3, <1>8
<1> QED
  BY <1>1, <1>3, <1>5, <1>7, <1>9 DEF lo

(* A commit boundary is not below the offset it covers.                    *)
LEMMA BoundaryCovers ==
  ASSUME TypeOK, Bounds, NEW h \in Nat, h <= pos
  PROVE  Boundary(h) \in Nat /\ h <= Boundary(h)
<1>1. pos \in Nat /\ Word \in Nat /\ PageSize \in Nat \ {0}
  BY ConstantsOK DEF TypeOK
<1>2. h + PageSize <= Word
  BY <1>1, Room
<1> QED
  BY <1>1, <1>2, AlignUpBounds DEF Boundary

-----------------------------------------------------------------------------
(* What a step of one thread, or the release of blocks, leaves intact.     *)

LEMMA OtherThread ==
  ASSUME TypeOK, TypeOK', NEW u \in Threads, ThreadOK(u),
         pc'[u] = pc[u], req'[u] = req[u], cur'[u] = cur[u], seen'[u] = seen[u],
         pos <= pos', committed <= committed', peak <= peak', mapped \subseteq mapped'
  PROVE  ThreadOK(u)'
<1>1. Lo(u)' = Lo(u) /\ Hi(u)' = Hi(u)
  BY DEF Lo, Hi
<1>2. Boundary(Hi(u)') = Boundary(Hi(u))
  BY <1>1
<1>3. Lo(u) \in Nat /\ Hi(u) \in Nat
  BY ClaimType
<1>4. pos \in Nat /\ pos' \in Nat /\ committed \in Nat /\ committed' \in Nat
      /\ peak \in Nat /\ peak' \in Nat /\ seen[u] \in Nat
  BY DEF TypeOK
<1>5. (u \in Claimed)' <=> u \in Claimed
  BY DEF Claimed
<1>6. (seen[u]..(Boundary(Hi(u)) - 1))' = seen[u]..(Boundary(Hi(u)) - 1)
  BY <1>1, <1>2 DEF Boundary
<1> QED
  BY <1>1, <1>2, <1>3, <1>4, <1>5, <1>6 DEF ThreadOK, Boundary

LEMMA FewerBlocks ==
  ASSUME NoOverlap, live' \subseteq live, Claimed' \subseteq Claimed,
         \A u \in Claimed' : Claim(u)' = Claim(u)
  PROVE  NoOverlap'
BY DEF NoOverlap, Apart

LEMMA DoomedGrows ==
  ASSUME Doomed \subseteq Doomed', IsFiniteSet(Doomed')
  PROVE  Cardinality(Doomed) <= Cardinality(Doomed')
BY FS_Subset

LEMMA BoundsKept ==
  ASSUME TypeOK, TypeOK', Bounds, pos' = pos, floor' = floor, scopes' = scopes,
         committed' <= Reserved, Doomed \subseteq Doomed'
  PROVE  Bounds'
<1>1. Doomed' \subseteq Threads
  BY DEF Doomed
<1>2. IsFiniteSet(Doomed') /\ Cardinality(Doomed') \in Nat
  BY <1>1, ConstantsOK, FS_Subset, FS_CardinalityType
<1>3. Cardinality(Doomed) \in Nat /\ Cardinality(Doomed) <= Cardinality(Doomed')
  BY <1>2, DoomedFinite, DoomedGrows
<1>4. MaxRequest * Cardinality(Doomed) \in Nat
      /\ MaxRequest * Cardinality(Doomed') \in Nat
      /\ MaxRequest * Cardinality(Doomed) <= MaxRequest * Cardinality(Doomed')
  BY <1>2, <1>3, ConstantsOK, ProductMonotone
<1>5. pos' <= Reserved + MaxRequest * Cardinality(Doomed')
  BY <1>4, ConstantsOK DEF Bounds, TypeOK
<1> QED
  BY <1>5 DEF Bounds

LEMMA BlocksKept ==
  ASSUME TypeOK, TypeOK', \A b \in live : BlockOK(b), live' \subseteq live,
         pos <= pos', committed <= committed', peak <= peak'
  PROVE  \A b \in live' : BlockOK(b)'
<1> SUFFICES ASSUME NEW b \in live' PROVE BlockOK(b)'
  OBVIOUS
<1>1. b \in live /\ b.lo \in Nat /\ b.hi \in Nat
  BY DEF TypeOK
<1> QED
  BY <1>1 DEF BlockOK, TypeOK

(* A step of t that touches no field of the arena but up, and leaves its   *)
(* request and position: it moves t to another place, perhaps to exit.     *)
LEMMA LocalStep ==
  ASSUME IInv, TypeOK', NEW t \in Threads, UNCHANGED <<arena, scopes, live>>,
         \A u \in Threads \ {t} : pc'[u] = pc[u] /\ req'[u] = req[u]
                                  /\ cur'[u] = cur[u] /\ seen'[u] = seen[u],
         ThreadOK(t)', t \in Claimed' => t \in Claimed /\ Claim(t)' = Claim(t),
         t \in Doomed => t \in Doomed', up' => up
  PROVE  IInv'
<1>1. pos' = pos /\ committed' = committed /\ peak' = peak /\ floor' = floor
      /\ mapped' = mapped /\ scopes' = scopes /\ live' = live
  BY DEF arena
<1>2. pos \in Nat /\ committed \in Nat /\ peak \in Nat
  BY DEF IInv, TypeOK
<1>3. \A u \in Threads : ThreadOK(u)'
  <2> SUFFICES ASSUME NEW u \in Threads, u # t PROVE ThreadOK(u)'
    OBVIOUS
  <2> QED
    BY <1>1, <1>2, OtherThread DEF IInv
<1>4. Doomed \subseteq Doomed'
  BY DEF Doomed, Hi, Lo
<1>5. Bounds'
  BY <1>1, <1>4, BoundsKept DEF IInv, Bounds
<1>6. \A b \in live' : BlockOK(b)'
  BY <1>1, <1>2, BlocksKept DEF IInv
<1>7. NoOverlap'
  <2>1. \A u \in Claimed' : u \in Claimed /\ Claim(u)' = Claim(u)
    BY DEF Claimed, Claim, Lo, Hi
  <2> QED
    BY <1>1, <2>1, FewerBlocks DEF IInv
<1>8. Backed'
  BY <1>1 DEF IInv, Backed
<1> QED
  BY <1>3, <1>5, <1>6, <1>7, <1>8 DEF IInv

-----------------------------------------------------------------------------
(* The steps of arena_alloc_raw.                                           *)

LEMMA LocalSteps ==
  ASSUME IInv, TypeOK', NEW t \in Threads,
         \/ \E r \in Request : Call(t, r)
         \/ LoadPos(t) \/ ClaimFails(t) \/ CheckCommitted(t)
         \/ LoadPeak(t) \/ RaiseFails(t) \/ Exit(t)
  PROVE  IInv'
<1>0. TypeOK /\ Bounds /\ ThreadOK(t)
  BY DEF IInv
<1>1. Lo(t) \in Nat /\ Hi(t) \in Nat /\ Boundary(Hi(t)) \in Nat
  BY <1>0, ClaimType
<1>2. pos \in Nat /\ committed \in Nat /\ peak \in Nat /\ committed <= Reserved
      /\ seen \in [Threads -> Nat] /\ cur \in [Threads -> Nat] /\ req \in [Threads -> Request]
      /\ DOMAIN pc = Threads /\ Reserved \in Nat /\ Word \in Nat
  BY <1>0, ConstantsOK DEF TypeOK, Bounds
<1>3. ASSUME NEW r \in Request, Call(t, r) PROVE IInv'
  <2>1. pc[t] = "out" /\ pc'[t] = "load"
    BY <1>2, <1>3 DEF Call, Goto
  <2>2. ThreadOK(t)' /\ t \notin Claimed' /\ t \notin Doomed
    BY <2>1 DEF ThreadOK, Claimed, Doomed
  <2> QED
    BY <1>2, <1>3, <2>2, LocalStep DEF Call, Goto
<1>4. CASE LoadPos(t)
  <2>1. pc[t] = "load" /\ t \notin Doomed
    BY <1>4 DEF LoadPos, Goto, Doomed
  <2>2. t \notin Claimed' /\ pc'[t] \in {"claim", "fatal"}
    BY <1>2, <1>4 DEF LoadPos, Goto, Claimed
  <2>3. pc'[t] = "claim" => req'[t].size <= Word - 1 - Lo(t)'
    <3> SUFFICES ASSUME pc'[t] = "claim" PROVE req'[t].size <= Word - 1 - Lo(t)'
      OBVIOUS
    <3>1. ~(req[t].size > Word - 1 - AlignUp(pos, req[t].align))
      BY <1>2, <1>4 DEF LoadPos, Goto
    <3>2. cur'[t] = pos /\ req' = req
      BY <1>2, <1>4, <3>1 DEF LoadPos
    <3>3. Lo(t)' = AlignUp(pos, req[t].align)
      BY <3>2 DEF Lo
    <3>4. req[t] \in Request
      BY <1>2
    <3>5. req[t].size \in Nat /\ AlignUp(pos, req[t].align) \in Nat
      BY <1>2, <3>4, RequestType, AlignUpType
    <3> QED
      BY <1>2, <3>1, <3>2, <3>3, <3>5
  <2>4. ThreadOK(t)'
    BY <2>2, <2>3 DEF ThreadOK
  <2>5. \A u \in Threads \ {t} : pc'[u] = pc[u] /\ cur'[u] = cur[u]
    BY <1>2, <1>4 DEF LoadPos, Goto
  <2> QED
    BY <1>4, <2>1, <2>2, <2>4, <2>5, LocalStep DEF LoadPos
<1>5. CASE ClaimFails(t)
  <2>1. pc[t] = "claim" /\ pc'[t] = "load"
    BY <1>2, <1>5 DEF ClaimFails, Goto
  <2>2. ThreadOK(t)' /\ t \notin Claimed' /\ t \notin Doomed
    BY <2>1 DEF ThreadOK, Claimed, Doomed
  <2> QED
    BY <1>2, <1>5, <2>2, LocalStep DEF ClaimFails, Goto
<1>6. CASE CheckCommitted(t)
  <2>1. pc[t] = "check" /\ req' = req /\ cur' = cur /\ seen'[t] = committed
        /\ pos' = pos /\ committed' = committed
    BY <1>2, <1>6 DEF CheckCommitted, Goto, arena
  <2>2. t \in Claimed /\ Claim(t)' = Claim(t) /\ Lo(t)' = Lo(t) /\ Hi(t)' = Hi(t)
        /\ Boundary(Hi(t)') = Boundary(Hi(t)) /\ Boundary(Hi(t))' = Boundary(Hi(t))
    BY <2>1 DEF Claimed, Claim, Lo, Hi, Boundary
  <2>3. Header <= Lo(t) /\ Lo(t) <= Hi(t) /\ Hi(t) <= pos
    BY <1>0, <2>2 DEF ThreadOK
  <2>4. Hi(t) <= Boundary(Hi(t))
    BY <1>0, <1>1, <2>3, BoundaryCovers
  <2>5. \/ pc'[t] = "peak" /\ Hi(t) <= committed
        \/ pc'[t] = "fatal"
        \/ pc'[t] = "commit" /\ Hi(t) > committed /\ Boundary(Hi(t)) <= Reserved
    BY <1>2, <1>6 DEF CheckCommitted, Goto
  <2>6. ThreadOK(t)'
    BY <1>1, <1>2, <2>1, <2>2, <2>3, <2>4, <2>5 DEF ThreadOK
  <2>7. t \in Doomed => t \in Doomed'
    <3>1. t \in Doomed => Hi(t) > Reserved
      BY <2>1 DEF Doomed
    <3>2. t \in Doomed => pc'[t] = "fatal"
      BY <1>1, <1>2, <2>4, <2>5, <3>1
    <3> QED
      BY <3>2 DEF Doomed
  <2>8. \A u \in Threads \ {t} : pc'[u] = pc[u] /\ seen'[u] = seen[u]
    BY <1>2, <1>6 DEF CheckCommitted, Goto
  <2> QED
    BY <1>6, <2>1, <2>2, <2>6, <2>7, <2>8, LocalStep DEF CheckCommitted
<1>7. CASE LoadPeak(t)
  <2>1. pc[t] = "peak" /\ pc'[t] = "raise" /\ req' = req /\ cur' = cur /\ seen'[t] = peak
        /\ pos' = pos /\ committed' = committed /\ peak' = peak
    BY <1>2, <1>7 DEF LoadPeak, Goto, arena
  <2>2. t \in Claimed /\ Claim(t)' = Claim(t) /\ Lo(t)' = Lo(t) /\ Hi(t)' = Hi(t)
        /\ t \notin Doomed
    BY <2>1 DEF Claimed, Claim, Lo, Hi, Doomed
  <2>3. ThreadOK(t)'
    BY <1>0, <1>2, <2>1, <2>2 DEF ThreadOK
  <2>4. \A u \in Threads \ {t} : pc'[u] = pc[u] /\ seen'[u] = seen[u]
    BY <1>2, <1>7 DEF LoadPeak, Goto
  <2> QED
    BY <1>7, <2>1, <2>2, <2>3, <2>4, LocalStep DEF LoadPeak
<1>8. CASE RaiseFails(t)
  <2>1. pc[t] = "raise" /\ pc' = pc /\ req' = req /\ cur' = cur /\ seen'[t] = peak
        /\ pos' = pos /\ committed' = committed /\ peak' = peak
    BY <1>2, <1>8 DEF RaiseFails, arena
  <2>2. t \in Claimed /\ Claim(t)' = Claim(t) /\ Lo(t)' = Lo(t) /\ Hi(t)' = Hi(t)
        /\ t \notin Doomed
    BY <2>1 DEF Claimed, Claim, Lo, Hi, Doomed
  <2>3. ThreadOK(t)'
    BY <1>0, <1>2, <2>1, <2>2 DEF ThreadOK
  <2>4. \A u \in Threads \ {t} : pc'[u] = pc[u] /\ seen'[u] = seen[u]
    BY <1>2, <1>8 DEF RaiseFails
  <2> QED
    BY <1>8, <2>1, <2>2, <2>3, <2>4, LocalStep DEF RaiseFails
<1>9. CASE Exit(t)
  <2>1. UNCHANGED <<pc, req, cur, seen, pos, committed, peak, mapped>>
        /\ pc[t] = "fatal" /\ up' = FALSE
    BY <1>9 DEF Exit, caller, arena
  <2>2. ThreadOK(t)' /\ t \notin Claimed' /\ t \in Doomed'
    BY <2>1 DEF ThreadOK, Claimed, Doomed
  <2> QED
    BY <1>9, <2>1, <2>2, LocalStep DEF Exit
<1> QED
  BY <1>3, <1>4, <1>5, <1>6, <1>7, <1>8, <1>9

(* The compare and swap on pos: the new block starts where all others end. *)
LEMMA ClaimStep ==
  ASSUME IInv, TypeOK', NEW t \in Threads, ClaimPos(t)
  PROVE  IInv'
<1>0. TypeOK /\ Bounds /\ ThreadOK(t) /\ NoOverlap /\ Backed
      /\ (\A u \in Threads : ThreadOK(u)) /\ (\A b \in live : BlockOK(b))
  BY DEF IInv
<1>1. pc[t] = "claim" /\ pos = cur[t] /\ pos' = Hi(t) /\ pc' = [pc EXCEPT ![t] = "check"]
      /\ UNCHANGED <<req, cur, seen, committed, peak, floor, mapped, scopes, live, up>>
  BY DEF ClaimPos, Goto
<1>2. pos \in Nat /\ pos' \in Nat /\ Header \in Nat /\ Reserved \in Nat /\ MaxRequest \in Nat
      /\ req[t] \in Request /\ Word \in Nat /\ PageSize \in Nat /\ DOMAIN pc = Threads
      /\ committed \in Nat /\ floor \in Nat
  BY <1>0, ConstantsOK DEF TypeOK
<1>3. t \notin Doomed /\ t \notin Claimed
  BY <1>1 DEF Doomed, Claimed
<1>4. Header <= pos /\ floor <= pos /\ pos + MaxRequest < Word
      /\ pos + MaxRequest <= Reserved + MaxRequest * (Cardinality(Doomed) + 1)
  <2>1. pos + MaxRequest + PageSize < Word
        /\ pos + MaxRequest <= Reserved + MaxRequest * (Cardinality(Doomed) + 1)
    BY <1>0, <1>3, Room
  <2>2. floor <= pos /\ Header <= floor
    BY <1>0 DEF Bounds
  <2>3. Header <= pos
    BY <1>2, <2>2
  <2>4. pos + MaxRequest < Word
    BY <1>2, <2>1
  <2> QED
    BY <2>1, <2>2, <2>3, <2>4
<1>5. Lo(t) \in Nat /\ Hi(t) \in Nat /\ pos <= Lo(t) /\ Lo(t) <= Hi(t)
      /\ Hi(t) <= pos + MaxRequest
  <2>1. req[t].size <= Word - 1 - AlignUp(pos, req[t].align)
    BY <1>0, <1>1 DEF ThreadOK, Lo
  <2> QED
    BY <1>1, <1>2, <1>4, <2>1, RequestFits DEF Lo, Hi
<1>6. \A u \in Threads : Lo(u)' = Lo(u) /\ Hi(u)' = Hi(u) /\ Claim(u)' = Claim(u)
  BY <1>1 DEF Lo, Hi, Claim
<1>7. Claimed' = Claimed \union {t}
  BY <1>1, <1>2 DEF Claimed
<1>8. pc'[t] = "check" /\ \A u \in Threads \ {t} : pc'[u] = pc[u]
  BY <1>1, <1>2
<1>9. Bounds'
  <2>1. Doomed' = IF Hi(t) > Reserved THEN Doomed \union {t} ELSE Doomed
    BY <1>1, <1>6, <1>8 DEF Doomed
  <2>2. IsFiniteSet(Doomed) /\ Cardinality(Doomed) \in Nat
    BY DoomedFinite
  <2>3. pos' <= Reserved + MaxRequest * Cardinality(Doomed')
    <3>1. CASE Hi(t) > Reserved
      <4>1. Cardinality(Doomed') = Cardinality(Doomed) + 1
        BY <1>3, <2>1, <2>2, <3>1, FS_AddElement
      <4> QED
        BY <1>1, <1>2, <1>4, <1>5, <2>2, <4>1, ProductMonotone
    <3>2. CASE Hi(t) <= Reserved
      <4>1. MaxRequest * Cardinality(Doomed') \in Nat
        BY <1>2, <1>5, <2>1, <2>2, <3>2, ProductMonotone
      <4> QED
        BY <1>1, <1>2, <1>5, <3>2, <4>1
    <3> QED
      BY <1>2, <1>5, <3>1, <3>2
  <2> QED
    BY <1>0, <1>1, <1>2, <1>4, <1>5, <2>3 DEF Bounds
<1>10. \A u \in Threads : ThreadOK(u)'
  <2>1. ThreadOK(t)'
    BY <1>1, <1>2, <1>4, <1>5, <1>6, <1>8 DEF ThreadOK
  <2>2. ASSUME NEW u \in Threads, u # t PROVE ThreadOK(u)'
    <3>1. pos <= pos' /\ committed <= committed' /\ peak <= peak' /\ mapped \subseteq mapped'
      BY <1>0, <1>1, <1>2, <1>5 DEF TypeOK
    <3> QED
      BY <1>0, <1>1, <1>8, <2>2, <3>1, OtherThread
  <2> QED
    BY <2>1, <2>2
<1>11. \A b \in live' : BlockOK(b)'
  <2>1. pos <= pos' /\ committed <= committed' /\ peak <= peak'
    BY <1>0, <1>1, <1>2, <1>5 DEF TypeOK
  <2> QED
    BY <1>0, <1>1, <2>1, BlocksKept
<1>12. NoOverlap'
  <2>1. \A b \in live : b.hi \in Nat /\ b.hi <= pos
    BY <1>0 DEF BlockOK, TypeOK
  <2>2. \A u \in Claimed : Hi(u) \in Nat /\ Hi(u) <= pos
    BY <1>0, ClaimType DEF ThreadOK, Claimed
  <2>3. \A b \in live : Apart(Claim(t), b)
    BY <1>2, <1>5, <2>1 DEF Apart, Claim
  <2>4. \A u \in Claimed : Apart(Claim(t), Claim(u)) /\ Apart(Claim(u), Claim(t))
    BY <1>2, <1>5, <2>2 DEF Apart, Claim
  <2>5. Claimed \subseteq Threads
    BY DEF Claimed
  <2> QED
    BY <1>0, <1>1, <1>6, <1>7, <2>3, <2>4, <2>5 DEF NoOverlap, Apart
<1>13. Backed'
  BY <1>0, <1>1 DEF Backed
<1> QED
  BY <1>9, <1>10, <1>11, <1>12, <1>13 DEF IInv

(* commit_memory_os, and the compare and swap on committed_size.           *)
LEMMA CommitSteps ==
  ASSUME IInv, TypeOK', NEW t \in Threads, Commit(t) \/ Publish(t)
  PROVE  IInv'
<1>0. TypeOK /\ Bounds /\ ThreadOK(t) /\ NoOverlap /\ Backed
      /\ (\A u \in Threads : ThreadOK(u)) /\ (\A b \in live : BlockOK(b))
  BY DEF IInv
<1>1. UNCHANGED <<req, cur, seen, pos, peak, floor, scopes, live, up>>
  BY DEF Commit, Publish
<1>2. pos \in Nat /\ peak \in Nat /\ committed \in Nat /\ committed' \in Nat
      /\ seen[t] \in Nat /\ Reserved \in Nat /\ DOMAIN pc = Threads
  BY <1>0, ConstantsOK DEF TypeOK
<1>3. Lo(t) \in Nat /\ Hi(t) \in Nat /\ Boundary(Hi(t)) \in Nat
  BY <1>0, ClaimType
<1>4. \A u \in Threads : Lo(u)' = Lo(u) /\ Hi(u)' = Hi(u) /\ Claim(u)' = Claim(u)
                         /\ Boundary(Hi(u))' = Boundary(Hi(u))
  BY <1>1 DEF Lo, Hi, Claim, Boundary
<1>5. pc[t] \in {"commit", "publish"} /\ pc'[t] \in {"publish", "fatal", "check"}
      /\ (\A u \in Threads \ {t} : pc'[u] = pc[u])
      /\ (pc'[t] = "publish" => Commit(t))
  <2>1. CASE Commit(t)
    BY <1>2, <2>1 DEF Commit, Goto
  <2>2. CASE Publish(t)
    BY <1>2, <2>2 DEF Publish, Goto
  <2> QED
    BY <2>1, <2>2
<1>6. seen[t] < Hi(t) /\ Hi(t) <= Boundary(Hi(t)) /\ Boundary(Hi(t)) <= Reserved
      /\ Header <= Lo(t) /\ Lo(t) <= Hi(t) /\ Hi(t) <= pos
  BY <1>0, <1>5 DEF ThreadOK, Claimed
<1>7. committed <= committed' /\ committed' <= Reserved /\ mapped \subseteq mapped'
      /\ (pc'[t] = "publish" => seen[t]..(Boundary(Hi(t)) - 1) \subseteq mapped')
  <2>1. CASE Commit(t)
    BY <1>0, <1>2, <1>5, <2>1 DEF Commit, Goto, Bounds
  <2>2. CASE Publish(t)
    BY <1>0, <1>2, <1>3, <1>5, <1>6, <2>2 DEF Publish, Goto, Bounds
  <2> QED
    BY <2>1, <2>2
<1>8. Claimed' \subseteq Claimed /\ Doomed \subseteq Doomed'
  <2>1. t \in Claimed /\ t \notin Doomed
    BY <1>5 DEF Claimed, Doomed
  <2> QED
    BY <1>4, <1>5, <2>1 DEF Claimed, Doomed
<1>9. Bounds'
  BY <1>0, <1>1, <1>7, <1>8, BoundsKept
<1>10. \A u \in Threads : ThreadOK(u)'
  <2>1. ThreadOK(t)'
    <3>1. pos' = pos /\ seen'[t] = seen[t] /\ Lo(t)' = Lo(t) /\ Hi(t)' = Hi(t)
          /\ Boundary(Hi(t))' = Boundary(Hi(t))
      BY <1>1, <1>4
    <3>2. (seen[t]..(Boundary(Hi(t)) - 1))' = seen[t]..(Boundary(Hi(t)) - 1)
      BY <3>1
    <3> QED
      BY <1>5, <1>6, <1>7, <3>1, <3>2 DEF ThreadOK
  <2>2. ASSUME NEW u \in Threads, u # t PROVE ThreadOK(u)'
    <3>1. pos <= pos' /\ peak <= peak'
      BY <1>1, <1>2
    <3> QED
      BY <1>0, <1>1, <1>5, <1>7, <2>2, <3>1, OtherThread
  <2> QED
    BY <2>1, <2>2
<1>11. \A b \in live' : BlockOK(b)'
  <2>1. pos <= pos' /\ peak <= peak' /\ live' \subseteq live
    BY <1>1, <1>2
  <2> QED
    BY <1>0, <1>7, <2>1, BlocksKept
<1>12. NoOverlap'
  <2>1. \A u \in Claimed' : Claim(u)' = Claim(u)
    BY <1>4 DEF Claimed
  <2> QED
    BY <1>0, <1>1, <1>8, <2>1, FewerBlocks
<1>13. Backed'
  <2>1. CASE Commit(t)
    <3>1. committed' = committed
      BY <2>1 DEF Commit
    <3> QED
      BY <1>0, <1>1, <1>7, <3>1 DEF Backed
  <2>2. CASE Publish(t)
    <3>1. pc[t] = "publish" /\ mapped' = mapped /\ up
      BY <2>2 DEF Publish, Goto
    <3>2. seen[t]..(Boundary(Hi(t)) - 1) \subseteq mapped /\ 0..(committed - 1) \subseteq mapped
      BY <1>0, <3>1 DEF ThreadOK, Backed
    <3>3. CASE committed = seen[t]
      <4>1. committed' = Boundary(Hi(t))
        BY <2>2, <3>3 DEF Publish
      <4>2. 0..(Boundary(Hi(t)) - 1) \subseteq mapped
        BY <1>2, <1>3, <3>2, <3>3
      <4> QED
        BY <3>1, <4>1, <4>2 DEF Backed
    <3>4. CASE committed # seen[t]
      BY <2>2, <3>1, <3>2, <3>4 DEF Publish, Backed
    <3> QED
      BY <3>3, <3>4
  <2> QED
    BY <2>1, <2>2
<1> QED
  BY <1>9, <1>10, <1>11, <1>12, <1>13 DEF IInv

(* The last steps of a call: its block joins the blocks handed out.        *)
LEMMA ReturnSteps ==
  ASSUME IInv, TypeOK', NEW t \in Threads, RaisePeak(t) \/ PeakIsHigher(t)
  PROVE  IInv'
<1>0. TypeOK /\ Bounds /\ ThreadOK(t) /\ NoOverlap /\ Backed
      /\ (\A u \in Threads : ThreadOK(u)) /\ (\A b \in live : BlockOK(b))
  BY DEF IInv
<1>1. UNCHANGED <<req, cur, seen, pos, committed, floor, mapped, scopes, up>>
      /\ pc[t] = "raise" /\ pc' = [pc EXCEPT ![t] = "out"] /\ up
      /\ live' = live \union {Claim(t)}
  <2>1. CASE RaisePeak(t)
    BY <2>1 DEF RaisePeak, Return, Goto
  <2>2. CASE PeakIsHigher(t)
    BY <2>2 DEF PeakIsHigher, Return, Goto, arena
  <2> QED
    BY <2>1, <2>2
<1>2. pos \in Nat /\ peak \in Nat /\ committed \in Nat /\ peak' \in Nat
      /\ seen[t] \in Nat /\ DOMAIN pc = Threads
  BY <1>0 DEF TypeOK
<1>3. Lo(t) \in Nat /\ Hi(t) \in Nat
  BY <1>0, ClaimType
<1>4. \A u \in Threads : Claim(u)' = Claim(u)
  BY <1>1 DEF Lo, Hi, Claim
<1>5. pc'[t] = "out" /\ \A u \in Threads \ {t} : pc'[u] = pc[u]
  BY <1>1, <1>2
<1>6. Hi(t) <= committed /\ seen[t] <= peak
      /\ Header <= Lo(t) /\ Lo(t) <= Hi(t) /\ Hi(t) <= pos
  BY <1>0, <1>1 DEF ThreadOK, Claimed
<1>7. peak <= peak' /\ Hi(t) <= peak'
  <2>1. CASE RaisePeak(t)
    BY <1>2, <1>3, <2>1 DEF RaisePeak
  <2>2. CASE PeakIsHigher(t)
    BY <1>2, <1>3, <1>6, <2>2 DEF PeakIsHigher, arena
  <2> QED
    BY <2>1, <2>2
<1>8. t \in Claimed /\ Claimed' = Claimed \ {t} /\ Claimed \subseteq Threads
  BY <1>1, <1>5 DEF Claimed
<1>9. Bounds'
  <2>1. t \notin Doomed
    BY <1>1 DEF Doomed
  <2>2. \A u \in Threads : Hi(u)' = Hi(u)
    BY <1>1 DEF Hi, Lo
  <2>3. Doomed \subseteq Doomed'
    BY <1>5, <2>1, <2>2 DEF Doomed
  <2>4. committed' <= Reserved
    BY <1>0, <1>1 DEF Bounds
  <2> QED
    BY <1>0, <1>1, <2>3, <2>4, BoundsKept
<1>10. \A u \in Threads : ThreadOK(u)'
  <2>1. ThreadOK(t)'
    BY <1>5 DEF ThreadOK, Claimed
  <2>2. ASSUME NEW u \in Threads, u # t PROVE ThreadOK(u)'
    <3>1. pos <= pos' /\ committed <= committed' /\ mapped \subseteq mapped'
      BY <1>1, <1>2
    <3> QED
      BY <1>0, <1>1, <1>5, <1>7, <2>2, <3>1, OtherThread
  <2> QED
    BY <2>1, <2>2
<1>11. \A b \in live' : BlockOK(b)'
  <2>1. BlockOK(Claim(t))'
    BY <1>1, <1>4, <1>6, <1>7 DEF BlockOK, Claim
  <2>2. ASSUME NEW b \in live PROVE BlockOK(b)'
    <3>1. b.hi \in Nat
      BY <1>0 DEF TypeOK
    <3> QED
      BY <1>0, <1>1, <1>2, <1>7, <3>1 DEF BlockOK
  <2>3. \A b \in live' : b \in live \/ b = Claim(t)
    BY <1>1
  <2>4. BlockOK(Claim(t))' <=> (/\ Header <= Claim(t).lo /\ Claim(t).lo <= Claim(t).hi
                                /\ Claim(t).hi <= pos' /\ Claim(t).hi <= committed'
                                /\ Claim(t).hi <= peak')
    BY <1>4 DEF BlockOK
  <2>5. ASSUME NEW b \in live', b = Claim(t) PROVE BlockOK(b)'
    BY <2>1, <2>4, <2>5 DEF BlockOK
  <2> QED
    BY <2>2, <2>3, <2>5
<1>12. NoOverlap'
  BY <1>0, <1>1, <1>4, <1>8 DEF NoOverlap, Apart
<1>13. Backed'
  BY <1>0, <1>1 DEF Backed
<1> QED
  BY <1>9, <1>10, <1>11, <1>12, <1>13 DEF IInv

-----------------------------------------------------------------------------
(* The operations of a sole caller.                                        *)

(* No call is under way: nothing is claimed and pos is in the reservation. *)
LEMMA AloneFacts ==
  ASSUME IInv, Alone
  PROVE  /\ Header <= floor /\ floor <= pos /\ pos <= Reserved /\ committed <= Reserved
         /\ pos \in Nat /\ floor \in Nat /\ committed \in Nat /\ peak \in Nat
         /\ Header \in Nat /\ Reserved \in Nat
         /\ up /\ 0..(committed - 1) \subseteq mapped
<1>1. Doomed = {}
  BY DEF Alone, Doomed
<1>2. Cardinality(Doomed) = 0
  BY <1>1, FS_EmptySet
<1>3. MaxRequest * 0 = 0 /\ Header \in Nat /\ Reserved \in Nat
  BY ConstantsOK
<1>4. pos <= Reserved
  BY <1>2, <1>3 DEF IInv, Bounds, TypeOK
<1> QED
  BY <1>3, <1>4 DEF IInv, Bounds, TypeOK, Backed, Alone

LEMMA AloneStep ==
  ASSUME IInv, TypeOK', Alone,
         Header <= floor', floor' <= pos', pos' <= Reserved, committed' <= Reserved,
         \A i \in 1..Len(scopes') : floor' <= scopes'[i] /\ scopes'[i] <= Reserved,
         \A b \in live' : BlockOK(b)',
         \A a, b \in live' : a = b \/ Apart(a, b),
         Backed'
  PROVE  IInv'
<1>1. \A t \in Threads : pc'[t] = "out"
  BY DEF Alone, caller
<1>2. Claimed' = {} /\ Doomed' = {}
  BY <1>1 DEF Claimed, Doomed
<1>3. Cardinality(Doomed') = 0
  BY <1>2, FS_EmptySet
<1>4. MaxRequest * Cardinality(Doomed') = 0
  BY <1>3, ConstantsOK
<1>5. Bounds'
  BY <1>4, ConstantsOK DEF Bounds, TypeOK
<1>6. \A t \in Threads : ThreadOK(t)'
  BY <1>1, <1>2 DEF ThreadOK
<1>7. NoOverlap'
  BY <1>2 DEF NoOverlap, Apart
<1> QED
  BY <1>5, <1>6, <1>7 DEF IInv

(* Giving back all above a mark that becomes the position.                 *)
LEMMA GiveBackStep ==
  ASSUME IInv, TypeOK', Alone, NEW mark \in Nat, GiveBack(mark), pos' = mark,
         floor <= mark, mark <= Reserved, UNCHANGED <<committed, peak, floor, mapped, up>>,
         \A i \in 1..Len(scopes') : floor <= scopes'[i] /\ scopes'[i] <= Reserved
  PROVE  IInv'
<1>1. Header <= floor' /\ floor' <= pos' /\ committed' <= Reserved
  BY AloneFacts
<1>2. live' \subseteq live /\ \A b \in live' : b.hi <= mark
  BY DEF GiveBack
<1>3. \A b \in live' : BlockOK(b)'
  BY <1>2 DEF IInv, BlockOK
<1>4. \A a, b \in live' : a = b \/ Apart(a, b)
  BY <1>2 DEF IInv, NoOverlap
<1>5. Backed'
  BY AloneFacts DEF Backed
<1> QED
  BY <1>1, <1>3, <1>4, <1>5, AloneStep

(* What Ensure(h) leaves when the process lives on, and when it exits.     *)
LEMMA EnsureStep ==
  ASSUME IInv, Alone, NEW h \in Nat, Ensure(h), Boundary(h) \in Nat, h <= Boundary(h)
  PROVE  /\ committed' \in Nat /\ committed <= committed' /\ committed' <= Reserved
         /\ 0..(committed' - 1) \subseteq mapped'
         /\ up' => h <= committed'
<1>1. committed \in Nat /\ committed <= Reserved /\ 0..(committed - 1) \subseteq mapped
      /\ Reserved \in Nat /\ up
  BY AloneFacts
<1>2. CASE h <= committed
  BY <1>1, <1>2 DEF Ensure
<1>3. CASE ~(h <= committed)
  <2>1. CASE up' = FALSE /\ UNCHANGED <<committed, mapped>>
    BY <1>1, <2>1
  <2>2. CASE /\ Boundary(h) <= Reserved /\ up' = up
             /\ committed' = Boundary(h)
             /\ mapped' = mapped \union committed..(Boundary(h) - 1)
    BY <1>1, <1>3, <2>2
  <2> QED
    BY <1>3, <2>1, <2>2 DEF Ensure
<1> QED
  BY <1>2, <1>3

LEMMA AloneRoom ==
  ASSUME IInv, Alone
  PROVE  pos + MaxRequest + PageSize < Word
<1>1. PICK t \in Threads : TRUE
  BY ConstantsOK
<1>2. t \notin Doomed
  BY DEF Alone, Doomed
<1> QED
  BY <1>1, <1>2, Room DEF IInv

LEMMA AllocStStep ==
  ASSUME IInv, TypeOK', NEW r \in Request, AllocSt(r)
  PROVE  IInv'
<1> DEFINE lo == AlignUp(pos, r.align)
           hi == (lo + r.size) % Word
           new == [lo |-> lo, hi |-> hi]
<1>0. Alone
  BY DEF AllocSt
<1>1. UNCHANGED <<floor, scopes>>
  BY DEF AllocSt
<1>2. /\ Header <= floor /\ floor <= pos /\ pos <= Reserved /\ committed <= Reserved
      /\ pos \in Nat /\ floor \in Nat /\ committed \in Nat /\ peak \in Nat
      /\ Header \in Nat /\ Reserved \in Nat
      /\ up /\ 0..(committed - 1) \subseteq mapped
  BY <1>0, AloneFacts
<1>3. pos + MaxRequest + PageSize < Word /\ MaxRequest \in Nat /\ PageSize \in Nat \ {0}
      /\ Word \in Nat
  BY <1>0, AloneRoom, ConstantsOK
<1>4. \A i \in 1..Len(scopes') : floor' <= scopes'[i] /\ scopes'[i] <= Reserved
  BY <1>1 DEF IInv, Bounds
<1>5. CASE r.size > Word - 1 - lo
  <2>1. up' = FALSE /\ UNCHANGED <<committed, mapped, pos, peak, live>>
    BY <1>5 DEF AllocSt
  <2>2. \A b \in live' : BlockOK(b)'
    BY <2>1 DEF IInv, BlockOK
  <2>3. \A a, b \in live' : a = b \/ Apart(a, b)
    BY <2>1 DEF IInv, NoOverlap
  <2>4. Backed'
    BY <1>2, <2>1 DEF Backed
  <2> QED
    BY <1>0, <1>1, <1>2, <1>4, <2>1, <2>2, <2>3, <2>4, AloneStep
<1>6. CASE ~(r.size > Word - 1 - lo)
  <2>1. lo \in Nat /\ hi \in Nat /\ pos <= lo /\ lo <= hi /\ hi <= pos + MaxRequest
    <3>1. lo \in Nat /\ r.size \in Nat
      BY <1>2, RequestType, AlignUpType
    <3>2. r.size <= Word - 1 - lo
      BY <1>3, <1>6, <3>1
    <3>3. pos + MaxRequest < Word /\ Header <= pos
      BY <1>2, <1>3
    <3> QED
      BY <1>2, <3>2, <3>3, RequestFits
  <2>2. Ensure(hi)
    BY <1>6 DEF AllocSt
  <2>3. Boundary(hi) \in Nat /\ hi <= Boundary(hi)
    <3> HIDE DEF hi, lo
    <3>1. hi + PageSize <= Word
      BY <1>2, <1>3, <2>1
    <3> QED
      BY <1>3, <2>1, <3>1, AlignUpBounds DEF Boundary
  <2>4. /\ committed' \in Nat /\ committed <= committed' /\ committed' <= Reserved
        /\ 0..(committed' - 1) \subseteq mapped'
        /\ up' => hi <= committed'
    BY <1>0, <2>1, <2>2, <2>3, EnsureStep
  <2>5. IF up' THEN /\ pos' = hi /\ peak' = (IF hi > peak THEN hi ELSE peak)
                    /\ live' = live \union {new}
               ELSE UNCHANGED <<pos, peak, live>>
    BY DEF AllocSt
  <2> HIDE DEF lo, hi
  <2>6. \A b \in live : b.lo \in Nat /\ b.hi \in Nat /\ b.lo <= b.hi /\ Header <= b.lo
                        /\ b.hi <= pos /\ b.hi <= committed /\ b.hi <= peak
    BY DEF IInv, BlockOK, TypeOK
  <2>7. Backed'
    BY <2>4 DEF Backed
  <2>8. CASE up'
    <3>1. \A b \in live' : BlockOK(b)'
      BY <1>2, <2>1, <2>4, <2>5, <2>6, <2>8 DEF BlockOK
    <3>2. \A b \in live : Apart(new, b) /\ Apart(b, new)
      BY <1>2, <2>1, <2>6 DEF Apart
    <3>3. \A a, b \in live' : a = b \/ Apart(a, b)
      BY <2>5, <2>8, <3>2 DEF IInv, NoOverlap
    <3>4. floor' <= pos' /\ pos' <= Reserved
      BY <1>1, <1>2, <2>1, <2>4, <2>5, <2>8
    <3> QED
      BY <1>0, <1>1, <1>2, <1>4, <2>4, <2>7, <3>1, <3>3, <3>4, AloneStep
  <2>9. CASE ~up'
    <3>1. \A b \in live' : BlockOK(b)'
      BY <1>2, <2>4, <2>5, <2>6, <2>9 DEF BlockOK
    <3>2. \A a, b \in live' : a = b \/ Apart(a, b)
      BY <2>5, <2>9 DEF IInv, NoOverlap
    <3> QED
      BY <1>0, <1>1, <1>2, <1>4, <2>4, <2>5, <2>7, <2>9, <3>1, <3>2, AloneStep
  <2> QED
    BY <2>8, <2>9
<1> QED
  BY <1>5, <1>6

LEMMA AlignStep ==
  ASSUME IInv, TypeOK', NEW a \in Alignments, Align(a)
  PROVE  IInv'
<1> DEFINE p == AlignUp(pos, a)
<1>0. Alone /\ UNCHANGED <<peak, floor, scopes, live>>
  BY DEF Align
<1>1. /\ Header <= floor /\ floor <= pos /\ pos <= Reserved /\ committed <= Reserved
      /\ pos \in Nat /\ floor \in Nat /\ committed \in Nat /\ peak \in Nat
      /\ Header \in Nat /\ Reserved \in Nat
      /\ up /\ 0..(committed - 1) \subseteq mapped
  BY <1>0, AloneFacts
<1>2. pos + MaxRequest + PageSize < Word /\ MaxRequest \in Nat /\ PageSize \in Nat \ {0}
      /\ Word \in Nat /\ a \in Nat \ {0} /\ a <= MaxRequest
  BY <1>0, AloneRoom, ConstantsOK, RequestsOK
<1>3. p \in Nat /\ pos <= p /\ p < pos + a
  <2>1. pos + a <= Word
    BY <1>1, <1>2
  <2> QED
    BY <1>1, <1>2, <2>1, AlignUpBounds
<1>4. Ensure(p) /\ pos' = IF up' THEN p ELSE pos
  BY <1>1, <1>3 DEF Align
<1> HIDE DEF p
<1>5. Boundary(p) \in Nat /\ p <= Boundary(p)
  <2>1. p + PageSize <= Word
    BY <1>1, <1>2, <1>3
  <2> QED
    BY <1>2, <1>3, <2>1, AlignUpBounds DEF Boundary
<1>6. /\ committed' \in Nat /\ committed <= committed' /\ committed' <= Reserved
      /\ 0..(committed' - 1) \subseteq mapped'
      /\ up' => p <= committed'
  BY <1>0, <1>3, <1>4, <1>5, EnsureStep
<1>7. pos' \in Nat /\ pos <= pos' /\ pos' <= Reserved /\ floor' <= pos'
  BY <1>0, <1>1, <1>3, <1>4, <1>6
<1>8. \A b \in live' : BlockOK(b)'
  <2>1. peak <= peak' /\ live' \subseteq live
    BY <1>0, <1>1
  <2> QED
    BY <1>6, <1>7, <2>1, BlocksKept DEF IInv
<1>9. \A b, c \in live' : b = c \/ Apart(b, c)
  BY <1>0 DEF IInv, NoOverlap
<1>10. Backed'
  BY <1>6 DEF Backed
<1>11. \A i \in 1..Len(scopes') : floor' <= scopes'[i] /\ scopes'[i] <= Reserved
  BY <1>0 DEF IInv, Bounds
<1> QED
  BY <1>0, <1>1, <1>6, <1>7, <1>8, <1>9, <1>10, <1>11, AloneStep

LEMMA SoleStep ==
  ASSUME IInv, TypeOK', Sole
  PROVE  IInv'
<1>1. ASSUME NEW r \in Request, AllocSt(r) PROVE IInv'
  BY <1>1, AllocStStep
<1>2. ASSUME NEW a \in Alignments, Align(a) PROVE IInv'
  BY <1>2, AlignStep
<1>3. CASE TempBegin
  <2>1. Alone /\ scopes' = Append(scopes, pos) /\ UNCHANGED <<arena, live, up>>
    BY <1>3 DEF TempBegin
  <2>2. UNCHANGED <<pos, committed, peak, floor, mapped, live, up>>
    BY <2>1 DEF arena
  <2>3. \A i \in 1..Len(scopes') : floor' <= scopes'[i] /\ scopes'[i] <= Reserved
    <3>1. scopes \in Seq(Nat) /\ pos \in Nat
      BY DEF IInv, TypeOK
    <3>2. \A i \in 1..Len(scopes) : floor <= scopes[i] /\ scopes[i] <= Reserved
      BY DEF IInv, Bounds
    <3>3. floor <= pos /\ pos <= Reserved
      BY <2>1, AloneFacts
    <3>4. Len(scopes') = Len(scopes) + 1 /\ Len(scopes) \in Nat
          /\ \A i \in 1..Len(scopes') : scopes'[i] = IF i = Len(scopes) + 1 THEN pos ELSE scopes[i]
      BY <2>1, <3>1
    <3> QED
      BY <2>2, <3>2, <3>3, <3>4
  <2>4. \A b \in live' : BlockOK(b)'
    BY <2>2 DEF IInv, BlockOK
  <2>5. \A a, b \in live' : a = b \/ Apart(a, b)
    BY <2>2 DEF IInv, NoOverlap
  <2>6. Backed'
    BY <2>2 DEF IInv, Backed
  <2> QED
    BY <2>1, <2>2, <2>3, <2>4, <2>5, <2>6, AloneFacts, AloneStep
<1>4. CASE TempEnd
  <2>1. scopes \in Seq(Nat) /\ scopes # <<>>
    BY <1>4 DEF TempEnd, IInv, TypeOK
  <2>2. Len(scopes) \in Nat /\ Len(scopes) \in 1..Len(scopes) /\ scopes[Len(scopes)] \in Nat
    BY <2>1
  <2>3. floor <= scopes[Len(scopes)] /\ scopes[Len(scopes)] <= Reserved
    BY <2>2 DEF IInv, Bounds
  <2>4. \A i \in 1..Len(scopes') : floor <= scopes'[i] /\ scopes'[i] <= Reserved
    <3>1. scopes' = SubSeq(scopes, 1, Len(scopes) - 1)
      BY <1>4 DEF TempEnd
    <3>2. Len(scopes') = Len(scopes) - 1 /\ \A i \in 1..Len(scopes') : scopes'[i] = scopes[i]
      <4>1. Len(scopes) - 1 \in Nat /\ Len(scopes) - 1 <= Len(scopes)
        BY <2>2
      <4>2. ASSUME NEW q \in Seq(Nat), NEW n \in Nat, n <= Len(q)
            PROVE  Len(SubSeq(q, 1, n)) = n /\ \A i \in 1..n : SubSeq(q, 1, n)[i] = q[i]
        BY <4>2
      <4> QED
        BY <2>1, <3>1, <4>1, <4>2
    <3> QED
      BY <2>2, <3>2 DEF IInv, Bounds
  <2>5. Alone /\ pos' = scopes[Len(scopes)] /\ GiveBack(scopes[Len(scopes)])
        /\ UNCHANGED <<committed, peak, floor, mapped, up>>
    BY <1>4 DEF TempEnd, GiveBack
  <2> QED
    BY <2>2, <2>3, <2>4, <2>5, GiveBackStep
<1>5. CASE Rewind
  <2>1. Alone /\ pos' = floor /\ GiveBack(floor)
        /\ UNCHANGED <<committed, peak, floor, mapped, up>>
        /\ \A i \in 1..Len(scopes') : floor <= scopes'[i] /\ scopes'[i] <= Reserved
    BY <1>5 DEF Rewind, IInv, Bounds
  <2>2. floor \in Nat /\ floor <= Reserved
    BY <2>1, AloneFacts
  <2> QED
    BY <2>1, <2>2, GiveBackStep
<1>6. CASE PinFloor
  <2>1. Alone /\ scopes' = <<>> /\ floor' = pos /\ pos' = pos
        /\ UNCHANGED <<committed, peak, mapped, live, up>>
    BY <1>6 DEF PinFloor
  <2>2. Header <= floor' /\ floor' <= pos' /\ pos' <= Reserved /\ committed' <= Reserved
    BY <2>1, AloneFacts
  <2>3. \A i \in 1..Len(scopes') : floor' <= scopes'[i] /\ scopes'[i] <= Reserved
    BY <2>1
  <2>4. \A b \in live' : BlockOK(b)'
    BY <2>1 DEF IInv, BlockOK
  <2>5. \A a, b \in live' : a = b \/ Apart(a, b)
    BY <2>1 DEF IInv, NoOverlap
  <2>6. Backed'
    BY <2>1 DEF IInv, Backed
  <2> QED
    BY <2>1, <2>2, <2>3, <2>4, <2>5, <2>6, AloneStep
<1>7. CASE Destroy
  <2>1. Alone /\ live' = {} /\ up' = FALSE /\ UNCHANGED <<pos, committed, floor, scopes>>
    BY <1>7 DEF Destroy
  <2>2. Header <= floor' /\ floor' <= pos' /\ pos' <= Reserved /\ committed' <= Reserved
    BY <2>1, AloneFacts
  <2>3. \A i \in 1..Len(scopes') : floor' <= scopes'[i] /\ scopes'[i] <= Reserved
    BY <2>1 DEF IInv, Bounds
  <2>4. (\A b \in live' : BlockOK(b)') /\ Backed' /\ \A a, b \in live' : a = b \/ Apart(a, b)
    BY <2>1 DEF Backed
  <2> QED
    BY <2>1, <2>2, <2>3, <2>4, AloneStep
<1>8. ASSUME NEW p \in Header..Reserved, RewindTo(p) PROVE IInv'
  <2> DEFINE target == IF p < floor THEN floor ELSE p
             mark   == IF pos > target THEN target ELSE pos
  <2>1. Alone /\ pos' = mark /\ GiveBack(mark)
        /\ UNCHANGED <<committed, peak, floor, mapped, up, scopes>>
    BY <1>8 DEF RewindTo, GiveBack
  <2>2. floor <= pos /\ floor \in Nat /\ pos \in Nat /\ pos <= Reserved /\ p \in Nat
        /\ Reserved \in Nat
    BY <2>1, AloneFacts
  <2>3. mark \in Nat /\ floor <= mark /\ mark <= Reserved
    BY <2>2
  <2> HIDE DEF mark
  <2>4. \A i \in 1..Len(scopes') : floor <= scopes'[i] /\ scopes'[i] <= Reserved
    BY <2>1 DEF IInv, Bounds
  <2> QED
    BY <2>1, <2>3, <2>4, GiveBackStep
<1>9. ASSUME NEW n \in 1..Reserved, Compact(n) PROVE IInv'
  <2>1. Alone /\ n <= pos - floor /\ pos' = pos - n /\ GiveBack(pos - n)
        /\ UNCHANGED <<committed, peak, floor, mapped, up>>
        /\ \A i \in 1..Len(scopes') : floor <= scopes'[i] /\ scopes'[i] <= Reserved
    BY <1>9 DEF Compact, GiveBack, IInv, Bounds
  <2>2. floor <= pos /\ floor \in Nat /\ pos \in Nat /\ pos <= Reserved /\ Reserved \in Nat
    BY <2>1, AloneFacts
  <2>3. pos - n \in Nat /\ floor <= pos - n /\ pos - n <= Reserved
    BY <2>1, <2>2
  <2> QED
    BY <2>1, <2>3, GiveBackStep
<1> QED
  BY <1>1, <1>2, <1>3, <1>4, <1>5, <1>6, <1>7, <1>8, <1>9 DEF Sole

-----------------------------------------------------------------------------
(* The invariant, and what follows from it.                                *)

LEMMA InvInit == Init => IInv
<1> SUFFICES ASSUME Init PROVE IInv
  OBVIOUS
<1>1. TypeOK
  BY TypeInit
<1>2. Claimed = {} /\ Doomed = {} /\ live = {} /\ \A t \in Threads : pc[t] = "out"
  BY DEF Init, Claimed, Doomed
<1>3. MaxRequest * Cardinality(Doomed) = 0
  BY <1>2, FS_EmptySet, ConstantsOK
<1>4. Bounds
  BY <1>3, ConstantsOK DEF Init, Bounds
<1>5. (\A t \in Threads : ThreadOK(t)) /\ (\A b \in live : BlockOK(b)) /\ NoOverlap
  BY <1>2 DEF ThreadOK, NoOverlap
<1>6. Backed
  BY DEF Init, Backed
<1> QED
  BY <1>1, <1>4, <1>5, <1>6 DEF IInv

LEMMA InvStep == IInv /\ [Next]_vars => IInv'
<1> SUFFICES ASSUME IInv, [Next]_vars PROVE IInv'
  OBVIOUS
<1>1. TypeOK'
  BY TypeStep DEF IInv
<1>2. ASSUME NEW t \in Threads, Alloc(t) PROVE IInv'
  BY <1>1, <1>2, LocalSteps, ClaimStep, CommitSteps, ReturnSteps DEF Alloc
<1>3. CASE Sole
  BY <1>1, <1>3, SoleStep
<1>4. CASE UNCHANGED vars
  BY <1>4 DEF vars, caller, arena, IInv, TypeOK, Bounds, Doomed, Claimed, ThreadOK, BlockOK,
              NoOverlap, Backed, Lo, Hi, Claim, Boundary
<1> QED
  BY <1>2, <1>3, <1>4 DEF Next

(* The inductive invariant holds in every reachable state.                 *)
THEOREM Invariant == Spec => []IInv
BY InvInit, InvStep, PTL DEF Spec

LEMMA InvImpliesSafety == IInv => BlocksAreApart /\ BlocksAreUsable /\ CommittedIsMapped
<1> SUFFICES ASSUME IInv PROVE BlocksAreApart /\ BlocksAreUsable /\ CommittedIsMapped
  OBVIOUS
<1>1. BlocksAreApart
  BY DEF IInv, NoOverlap, BlockOK, BlocksAreApart
<1>2. BlocksAreUsable
  <2> SUFFICES ASSUME NEW b \in live
               PROVE  b.lo..(b.hi - 1) \subseteq mapped /\ b.hi <= Reserved
    BY DEF BlocksAreUsable
  <2>1. b.lo \in Nat /\ b.hi \in Nat /\ committed \in Nat /\ Reserved \in Nat
    BY ConstantsOK DEF IInv, TypeOK
  <2>2. b.hi <= committed /\ committed <= Reserved /\ 0..(committed - 1) \subseteq mapped
    BY DEF IInv, BlockOK, Bounds, Backed
  <2>3. b.lo..(b.hi - 1) \subseteq 0..(committed - 1)
    BY <2>1, <2>2
  <2> QED
    BY <2>1, <2>2, <2>3
<1>3. CommittedIsMapped
  BY DEF IInv, Backed, CommittedIsMapped
<1> QED
  BY <1>1, <1>2, <1>3

(* No byte of the arena belongs to two blocks, whatever the interleaving of *)
(* the allocating threads (the compare and swap on pos).                   *)
THEOREM NoSharedBytes == Spec => []BlocksAreApart
BY Invariant, InvImpliesSafety, PTL

(* Every block handed out is memory that was committed before.             *)
THEOREM NoUncommittedBlock == Spec => []BlocksAreUsable
BY Invariant, InvImpliesSafety, PTL

(* committed_size never runs ahead of the system calls.                    *)
THEOREM CommittedIsBacked == Spec => []CommittedIsMapped
BY Invariant, InvImpliesSafety, PTL

-----------------------------------------------------------------------------
(* Action properties.                                                      *)

LEMMA CommittedGrows == IInv /\ [Next]_vars => committed' >= committed
<1> SUFFICES ASSUME IInv, [Next]_vars PROVE committed' >= committed
  OBVIOUS
<1>0. committed \in Nat
  BY DEF IInv, TypeOK
<1> USE DEF arena, caller
<1>1. ASSUME NEW t \in Threads, Publish(t) PROVE committed' >= committed
  <2>1. committed' = (IF committed = seen[t] THEN Boundary(Hi(t)) ELSE committed)
        /\ pc[t] = "publish"
    BY <1>1 DEF Publish, Goto
  <2>2. seen[t] < Hi(t) /\ Hi(t) <= Boundary(Hi(t))
    BY <2>1 DEF IInv, ThreadOK
  <2>3. Hi(t) \in Nat /\ Boundary(Hi(t)) \in Nat /\ seen[t] \in Nat
    BY ClaimType DEF IInv, TypeOK
  <2> QED
    BY <1>0, <2>1, <2>2, <2>3
<1>2. ASSUME NEW t \in Threads, Alloc(t), ~Publish(t) PROVE committed' = committed
  BY <1>2 DEF Alloc, Call, LoadPos, ClaimPos, ClaimFails, CheckCommitted, Commit, LoadPeak,
              RaisePeak, RaiseFails, PeakIsHigher, Exit
<1>3. ASSUME NEW r \in Request, AllocSt(r) PROVE committed' >= committed
  <2> DEFINE lo == AlignUp(pos, r.align)
             hi == (lo + r.size) % Word
  <2>1. CASE r.size > Word - 1 - lo
    BY <1>0, <1>3, <2>1 DEF AllocSt
  <2>2. CASE ~(r.size > Word - 1 - lo)
    <3>1. Ensure(hi) /\ Alone
      BY <1>3, <2>2 DEF AllocSt
    <3>2. /\ pos \in Nat /\ Header <= pos /\ pos + MaxRequest < Word /\ lo \in Nat
          /\ r.size <= Word - 1 - lo
      <4>1. pos \in Nat /\ Header <= floor /\ floor <= pos /\ floor \in Nat /\ Header \in Nat
        BY <3>1, AloneFacts
      <4>2. pos + MaxRequest < Word
        BY <3>1, <4>1, AloneRoom, ConstantsOK
      <4>3. lo \in Nat /\ r.size \in Nat
        BY <4>1, RequestType, AlignUpType
      <4> QED
        BY <2>2, <4>1, <4>2, <4>3, WordIsPositive
    <3>3. hi \in Nat /\ hi <= pos + MaxRequest
      BY <3>2, RequestFits
    <3> HIDE DEF lo, hi
    <3>4. hi + PageSize <= Word
      BY <3>1, <3>2, <3>3, AloneRoom, ConstantsOK
    <3>5. Boundary(hi) \in Nat /\ hi <= Boundary(hi)
      BY <3>3, <3>4, AlignUpBounds, ConstantsOK DEF Boundary
    <3>6. committed' \in Nat /\ committed <= committed'
      BY <3>1, <3>3, <3>5, EnsureStep
    <3> QED
      BY <1>0, <3>6
  <2> QED
    BY <2>1, <2>2
<1>4. ASSUME NEW a \in Alignments, Align(a) PROVE committed' >= committed
  <2> DEFINE p == AlignUp(pos, a)
  <2>1. CASE p < pos
    BY <1>0, <1>4, <2>1 DEF Align
  <2>2. CASE ~(p < pos)
    <3>1. Ensure(p) /\ Alone
      BY <1>4, <2>2 DEF Align
    <3>2. pos \in Nat /\ a \in Nat \ {0} /\ a <= MaxRequest /\ pos + MaxRequest + PageSize < Word
          /\ MaxRequest \in Nat /\ PageSize \in Nat \ {0} /\ Word \in Nat
      BY <3>1, AloneFacts, AloneRoom, ConstantsOK, RequestsOK
    <3>3. pos + a <= Word
      BY <3>2
    <3>4. p \in Nat /\ p < pos + a
      BY <3>2, <3>3, AlignUpBounds
    <3> HIDE DEF p
    <3>5. p + PageSize <= Word
      BY <3>2, <3>4
    <3>6. Boundary(p) \in Nat /\ p <= Boundary(p)
      BY <3>2, <3>4, <3>5, AlignUpBounds DEF Boundary
    <3>7. committed' \in Nat /\ committed <= committed'
      BY <3>1, <3>4, <3>6, EnsureStep
    <3> QED
      BY <1>0, <3>7
  <2> QED
    BY <2>1, <2>2
<1>5. CASE \/ TempBegin \/ TempEnd \/ Rewind \/ PinFloor \/ Destroy
           \/ (\E p \in Header..Reserved : RewindTo(p)) \/ (\E n \in 1..Reserved : Compact(n))
  BY <1>0, <1>5 DEF TempBegin, TempEnd, Rewind, PinFloor, Destroy, RewindTo, Compact
<1>6. CASE UNCHANGED vars
  BY <1>0, <1>6 DEF vars
<1> QED
  BY <1>0, <1>1, <1>2, <1>3, <1>4, <1>5, <1>6 DEF Next, Sole

(* Threads that commit at the same time never take back committed pages    *)
(* (the compare and swap on committed_size).                               *)
THEOREM CommittedMonotone == Spec => CommittedNeverShrinks
<1>1. IInv /\ [Next]_vars => [committed' >= committed]_vars
  BY CommittedGrows
<1> QED
  BY <1>1, Invariant, PTL DEF Spec, CommittedNeverShrinks

LEMMA PinnedStep ==
  IInv /\ [Next]_vars => \A b \in live : b.hi <= floor /\ up' => b \in live' /\ b.hi <= floor'
<1> SUFFICES ASSUME IInv, [Next]_vars, NEW b \in live, b.hi <= floor, up'
             PROVE  b \in live' /\ b.hi <= floor'
  OBVIOUS
<1> USE DEF arena, caller
<1>0. b.hi \in Nat /\ floor \in Nat
  BY DEF IInv, TypeOK
<1>1. ASSUME NEW t \in Threads, Alloc(t) PROVE b \in live' /\ floor' = floor
  BY <1>1 DEF Alloc, Call, LoadPos, ClaimPos, ClaimFails, CheckCommitted, Commit, Publish,
              LoadPeak, RaisePeak, RaiseFails, PeakIsHigher, Exit, Return
<1>2. ASSUME NEW r \in Request, AllocSt(r) PROVE b \in live' /\ floor' = floor
  BY <1>2 DEF AllocSt
<1>3. ASSUME NEW a \in Alignments, Align(a) PROVE b \in live' /\ floor' = floor
  BY <1>3 DEF Align
<1>4. CASE TempBegin
  BY <1>4 DEF TempBegin
<1>5. CASE TempEnd
  <2>1. Len(scopes) \in 1..Len(scopes) /\ scopes[Len(scopes)] \in Nat
    BY <1>5 DEF TempEnd, IInv, TypeOK
  <2>2. floor <= scopes[Len(scopes)]
    BY <2>1 DEF IInv, Bounds
  <2> QED
    BY <1>0, <1>5, <2>1, <2>2 DEF TempEnd, GiveBack
<1>6. CASE Rewind
  BY <1>6 DEF Rewind, GiveBack
<1>7. CASE PinFloor
  <2>1. floor <= pos /\ pos \in Nat
    BY DEF IInv, Bounds, TypeOK
  <2> QED
    BY <1>0, <1>7, <2>1 DEF PinFloor
<1>8. CASE Destroy
  BY <1>8 DEF Destroy
<1>9. ASSUME NEW p \in Header..Reserved, RewindTo(p) PROVE b \in live' /\ floor' = floor
  <2> DEFINE target == IF p < floor THEN floor ELSE p
             mark   == IF pos > target THEN target ELSE pos
  <2>1. pos \in Nat /\ floor <= pos /\ p \in Nat
    BY ConstantsOK DEF IInv, Bounds, TypeOK
  <2>2. b.hi <= mark
    BY <1>0, <2>1
  <2>3. live' = {c \in live : c.hi <= mark} /\ floor' = floor
    BY <1>9 DEF RewindTo, GiveBack
  <2> QED
    BY <2>2, <2>3
<1>10. ASSUME NEW n \in 1..Reserved, Compact(n) PROVE b \in live' /\ floor' = floor
  <2>1. pos \in Nat /\ n \in Nat /\ n <= pos - floor
    BY <1>10, ConstantsOK DEF Compact, IInv, TypeOK
  <2>2. b.hi <= pos - n
    BY <1>0, <2>1
  <2> QED
    BY <1>10, <2>2 DEF Compact, GiveBack
<1>11. CASE UNCHANGED vars
  BY <1>11 DEF vars
<1> QED
  BY <1>1, <1>2, <1>3, <1>4, <1>5, <1>6, <1>7, <1>8, <1>9, <1>10, <1>11 DEF Next, Sole

(* What lies below the rewind floor survives every rewind.                 *)
THEOREM PinnedBlocksStay == Spec => PinnedBlocksSurvive
<1>1. IInv /\ [Next]_vars =>
        [\A b \in live : b.hi <= floor /\ up' => b \in live' /\ b.hi <= floor']_vars
  BY PinnedStep
<1> QED
  BY <1>1, Invariant, PTL DEF Spec, PinnedBlocksSurvive

LEMMA PeakStep ==
  IInv /\ [Next]_vars => peak' >= peak /\ \A b \in live' : b.hi <= peak'
<1> SUFFICES ASSUME IInv, [Next]_vars
             PROVE  peak' >= peak /\ \A b \in live' : b.hi <= peak'
  OBVIOUS
<1> USE DEF arena, caller
<1>0. peak \in Nat /\ peak' \in Nat
  BY TypeStep DEF IInv, TypeOK
<1>1. \A b \in live' : b.hi <= peak'
  BY InvStep DEF IInv, BlockOK
<1>2. ASSUME NEW t \in Threads, RaisePeak(t) PROVE peak' >= peak
  <2>1. Hi(t) \in Nat
    BY ClaimType DEF IInv
  <2> QED
    BY <1>0, <1>2, <2>1 DEF RaisePeak
<1>3. ASSUME NEW t \in Threads, Alloc(t), ~RaisePeak(t) PROVE peak' = peak
  BY <1>3 DEF Alloc, Call, LoadPos, ClaimPos, ClaimFails, CheckCommitted, Commit, Publish,
              LoadPeak, RaiseFails, PeakIsHigher, Exit
<1>4. ASSUME NEW r \in Request, AllocSt(r) PROVE peak' >= peak
  <2> DEFINE hi == (AlignUp(pos, r.align) + r.size) % Word
  <2>1. peak' = peak \/ peak' = IF hi > peak THEN hi ELSE peak
    BY <1>4 DEF AllocSt
  <2> HIDE DEF hi
  <2>2. CASE peak' = peak
    BY <1>0, <2>2
  <2>3. CASE peak' = IF hi > peak THEN hi ELSE peak
    BY <1>0, <2>3
  <2> QED
    BY <2>1, <2>2, <2>3
<1>5. CASE \/ (\E a \in Alignments : Align(a))
           \/ TempBegin \/ TempEnd \/ Rewind \/ PinFloor \/ Destroy
           \/ (\E p \in Header..Reserved : RewindTo(p)) \/ (\E n \in 1..Reserved : Compact(n))
  BY <1>0, <1>1, <1>5 DEF Align, TempBegin, TempEnd, Rewind, PinFloor, Destroy, RewindTo, Compact
<1>6. CASE UNCHANGED vars
  BY <1>0, <1>1, <1>6 DEF vars
<1> QED
  BY <1>0, <1>1, <1>2, <1>3, <1>4, <1>5, <1>6 DEF Next, Sole

(* peak_offset covers every block and no race of two updates lowers it.    *)
THEOREM PeakIsMonotone == Spec => PeakIsHighWater
<1>1. IInv /\ [Next]_vars => [peak' >= peak /\ \A b \in live' : b.hi <= peak']_vars
  BY PeakStep
<1> QED
  BY <1>1, Invariant, PTL DEF Spec, PeakIsHighWater

-----------------------------------------------------------------------------
(* The arena implements ArenaAbstract.                                     *)

LEMMA AddingRefines ==
  ASSUME IInv, IInv', NEW x, live' = live \union {x}
  PROVE  Promise!Allocate \/ live' = live
<1> SUFFICES ASSUME x \notin live PROVE Promise!Allocate
  OBVIOUS
<1>1. x \in live' /\ x = [lo |-> x.lo, hi |-> x.hi] /\ x.lo \in Nat /\ x.hi \in Nat
  BY DEF IInv, TypeOK
<1>2. Header <= x.lo /\ x.lo <= x.hi /\ x.hi <= committed' /\ committed' <= Reserved
  BY <1>1 DEF IInv, BlockOK, Bounds
<1>3. committed' \in Nat /\ Header \in Nat /\ Reserved \in Nat
  BY ConstantsOK DEF IInv, TypeOK
<1>4. x.lo \in Header..Reserved /\ x.hi \in Header..Reserved
  BY <1>1, <1>2, <1>3
<1>5. \A b \in live : x.hi <= b.lo \/ b.hi <= x.lo
  BY <1>1 DEF IInv, NoOverlap, Apart
<1> QED
  BY <1>1, <1>2, <1>4, <1>5 DEF Promise!Allocate, Promise!Apart

LEMMA GivingBackRefines ==
  ASSUME NEW mark \in 0..Reserved, GiveBack(mark)
  PROVE  Promise!Release
BY DEF GiveBack, Promise!Release, Promise!Below

LEMMA StepRefines == IInv /\ [Next]_vars => [Promise!Next]_live
<1> SUFFICES ASSUME IInv, [Next]_vars PROVE Promise!Next \/ live' = live
  BY DEF Promise!Next
<1> USE DEF arena, caller
<1>0. IInv'
  BY InvStep
<1>1. ASSUME NEW t \in Threads, Alloc(t) PROVE Promise!Next \/ live' = live
  <2>1. CASE RaisePeak(t) \/ PeakIsHigher(t)
    <3>1. live' = live \union {Claim(t)}
      BY <2>1 DEF RaisePeak, PeakIsHigher, Return
    <3> QED
      BY <1>0, <3>1, AddingRefines DEF Promise!Next
  <2>2. CASE ~(RaisePeak(t) \/ PeakIsHigher(t))
    BY <1>1, <2>2 DEF Alloc, Call, LoadPos, ClaimPos, ClaimFails, CheckCommitted, Commit,
                      Publish, LoadPeak, RaiseFails, Exit
  <2> QED
    BY <2>1, <2>2
<1>2. ASSUME NEW r \in Request, AllocSt(r) PROVE Promise!Next \/ live' = live
  <2>1. live' = live \/ \E x : live' = live \union {x}
    BY <1>2 DEF AllocSt
  <2> QED
    BY <1>0, <2>1, AddingRefines DEF Promise!Next
<1>3. ASSUME NEW mark \in 0..Reserved, GiveBack(mark) PROVE Promise!Next
  BY <1>3, GivingBackRefines DEF Promise!Next
<1>4. CASE TempEnd
  <2>1. Len(scopes) \in 1..Len(scopes) /\ scopes[Len(scopes)] \in Nat
    BY <1>4 DEF TempEnd, IInv, TypeOK
  <2>2. scopes[Len(scopes)] <= Reserved
    BY <2>1 DEF IInv, Bounds
  <2>3. scopes[Len(scopes)] \in 0..Reserved /\ GiveBack(scopes[Len(scopes)])
    BY <1>4, <2>1, <2>2, ConstantsOK DEF TempEnd, GiveBack
  <2> QED
    BY <1>3, <2>3
<1>5. CASE Rewind
  BY <1>3, <1>5, AloneFacts DEF Rewind
<1>6. CASE Destroy
  <2>1. live' = {} /\ \A b \in live : b.hi \in Nat /\ b.hi > 0
    BY <1>6, ConstantsOK DEF Destroy, IInv, BlockOK, TypeOK
  <2>2. GiveBack(0)
    BY <2>1 DEF GiveBack
  <2> QED
    BY <1>3, <2>2, ConstantsOK
<1>7. ASSUME NEW p \in Header..Reserved, RewindTo(p) PROVE Promise!Next
  <2> DEFINE target == IF p < floor THEN floor ELSE p
             mark   == IF pos > target THEN target ELSE pos
  <2>1. GiveBack(mark) /\ Alone
    BY <1>7 DEF RewindTo, GiveBack
  <2>2. mark \in 0..Reserved
    BY <2>1, AloneFacts
  <2> QED
    BY <1>3, <2>1, <2>2
<1>8. ASSUME NEW n \in 1..Reserved, Compact(n) PROVE Promise!Next
  <2>1. GiveBack(pos - n) /\ Alone /\ n <= pos - floor
    BY <1>8 DEF Compact, GiveBack
  <2>2. pos - n \in 0..Reserved
    BY <2>1, AloneFacts
  <2> QED
    BY <1>3, <2>1, <2>2
<1>9. CASE TempBegin \/ PinFloor \/ \E a \in Alignments : Align(a)
  BY <1>9 DEF TempBegin, PinFloor, Align
<1>10. CASE UNCHANGED vars
  BY <1>10 DEF vars
<1> QED
  BY <1>1, <1>2, <1>4, <1>5, <1>6, <1>7, <1>8, <1>9, <1>10 DEF Next, Sole

(* The arena hands out fresh memory and gives it back from the top only:   *)
(* arena.c implements ArenaAbstract.                                       *)
THEOREM Refinement == Spec => FreshMemory
<1>1. Init => Promise!Init
  BY DEF Init, Promise!Init
<1> QED
  BY <1>1, StepRefines, Invariant, PTL DEF Spec, FreshMemory, Promise!Spec

-----------------------------------------------------------------------------
(***************************************************************************)
(* The list of arenas.  What a thread has left to do and the step it is at *)
(* tell which arenas it holds outside the list; the mutex holder alone     *)
(* changes the list, and an arena leaves the list before its memory goes.  *)
(***************************************************************************)

(* The arenas a thread answers for.                                        *)
Mine(t) == owned[t] \cup ({scratch[t], second[t], hand[t]} \ {Nil})

(* What a thread has left to do is what is left of one of the calls, and   *)
(* its step and the arenas it has agree with that.                         *)
LocalTasks(t) ==
  /\ "init" \in todo[t] => t = Main /\ {"warm", "own"} \subseteq todo[t]
  /\ "gone" \in todo[t] => t = Main /\ owned[t] = {}
  /\ "own" \in todo[t] => todo[t] \subseteq {"init", "warm", "own"}
  /\ "warm" \in todo[t] => todo[t] \subseteq {"init", "warm", "own", "walk"}
  /\ "walk" \in todo[t] => todo[t] \subseteq {"warm", "walk"}
  /\ "visit" \in todo[t] => todo[t] \subseteq {"visit"}
  /\ "drop" \in todo[t] => todo[t] \subseteq {"drop", "forget", "gone"}
  /\ "forget" \in todo[t] => todo[t] \subseteq {"drop", "forget", "gone"}
  /\ "gone" \in todo[t] => todo[t] \subseteq {"drop", "forget", "gone"}
  /\ "gone" \in todo[t] /\ "forget" \notin todo[t] => todo[t] \subseteq {"gone"} /\ scratch[t] = Nil

StepAgrees(t) ==
  /\ step[t] # "init"
  /\ step[t] = "reset" => "init" \in todo[t]
  /\ "init" \in todo[t] => step[t] \in {"start", "reset"}
  /\ step[t] = "push" => \/ "warm" \in todo[t] /\ second[t] = Nil
                         \/ "own" \in todo[t] /\ "warm" \notin todo[t]
  /\ step[t] = "release" => "drop" \in todo[t] \/ ("forget" \in todo[t] /\ scratch[t] # Nil)
  /\ hand[t] # Nil <=> step[t] = "push" \/ "drop" \in todo[t]

LocalHolds(t) ==
  /\ scratch[t] = Nil => second[t] = Nil
  /\ "visit" \in todo[t] => second[t] # Nil
  /\ "walk" \in todo[t] /\ "warm" \notin todo[t] => second[t] # Nil
  /\ scratch[t] # Nil => scratch[t] \notin owned[t] /\ scratch[t] # second[t] /\ scratch[t] # hand[t]
  /\ second[t] # Nil => second[t] \notin owned[t] /\ second[t] # hand[t]
  /\ hand[t] \notin owned[t]

Local == \A t \in ArenaThreads : LocalTasks(t) /\ StepAgrees(t) /\ LocalHolds(t)

(* Before fl_init and while fl_destroy takes the tracker down, the main    *)
(* thread is alone.                                                        *)
Phases ==
  /\ ~initialized \/ "init" \in todo[Main] \/ "gone" \in todo[Main] =>
       \A t \in ArenaThreads : t # Main => todo[t] = {} /\ Mine(t) = {}
  /\ ~initialized => todo[Main] = {} \/ "init" \in todo[Main]
  /\ ~initialized \/ "init" \in todo[Main] => Mine(Main) = {}
  /\ "init" \in todo[Main] /\ step[Main] = "start" => ~initialized
  /\ step[Main] = "reset" => initialized
  /\ \A t \in ArenaThreads : mutex = t <=> "visit" \in todo[t]

Shares ==
  /\ alive = UNION {Mine(t) : t \in ArenaThreads}
  /\ \A t, u \in ArenaThreads : t # u => Mine(t) \cap Mine(u) = {}

Members == {a \in alive : \A t \in ArenaThreads : a \notin Away(t)}

(* A list of M: next and prev undo each other, and whatever holds the head *)
(* and is closed under next holds M.                                       *)
Leads(M) ==
  \A S \in SUBSET Arenas :
    (head # Nil => head \in S) /\ (\A b \in S : next[b] # Nil => next[b] \in S) => M \subseteq S

IsList(M) ==
  /\ head \in M \cup {Nil} /\ tail \in M \cup {Nil} /\ (head = Nil <=> tail = Nil)
  /\ \A a \in M :
       /\ next[a] \in M \cup {Nil} /\ prev[a] \in M \cup {Nil}
       /\ next[a] = Nil <=> a = tail
       /\ prev[a] = Nil <=> a = head
       /\ next[a] # Nil => prev[next[a]] = a
       /\ prev[a] # Nil => next[prev[a]] = a
  /\ Leads(M)

Walks == \A t \in ArenaThreads : mutex = t => cursor[t] \in Members \cup {Nil} /\ reported[t] \subseteq Members

TrackerInv == TrackerTypeOK /\ Local /\ Phases /\ Shares /\ IsList(Members) /\ Walks

-----------------------------------------------------------------------------
LEMMA TaskNames == AllTasks = {"init", "warm", "own", "walk", "visit", "drop", "forget", "gone"}
<1>1. /\ Tasks[1] = "init" /\ Tasks[2] = "warm" /\ Tasks[3] = "own" /\ Tasks[4] = "walk"
      /\ Tasks[5] = "visit" /\ Tasks[6] = "drop" /\ Tasks[7] = "forget" /\ Tasks[8] = "gone"
  BY DEF Tasks
<1>2. 1..8 = {1, 2, 3, 4, 5, 6, 7, 8}
  OBVIOUS
<1>. QED  BY <1>1, <1>2 DEF AllTasks

(* The first of the tasks left.                                            *)
LEMMA First ==
  ASSUME NEW t
  PROVE  /\ Does(t, "init") <=> "init" \in todo[t]
         /\ Does(t, "warm") <=> "warm" \in todo[t] /\ "init" \notin todo[t]
         /\ Does(t, "own") <=> "own" \in todo[t] /\ {"init", "warm"} \cap todo[t] = {}
         /\ Does(t, "walk") <=> "walk" \in todo[t] /\ {"init", "warm", "own"} \cap todo[t] = {}
         /\ Does(t, "visit") <=> "visit" \in todo[t] /\ {"init", "warm", "own", "walk"} \cap todo[t] = {}
         /\ Does(t, "drop") <=> "drop" \in todo[t] /\ {"init", "warm", "own", "walk", "visit"} \cap todo[t] = {}
         /\ Does(t, "forget") <=> /\ "forget" \in todo[t]
                                  /\ {"init", "warm", "own", "walk", "visit", "drop"} \cap todo[t] = {}
         /\ Does(t, "gone") <=> /\ "gone" \in todo[t]
                                /\ {"init", "warm", "own", "walk", "visit", "drop", "forget"} \cap todo[t] = {}
<1>1. /\ Tasks[1] = "init" /\ Tasks[2] = "warm" /\ Tasks[3] = "own" /\ Tasks[4] = "walk"
      /\ Tasks[5] = "visit" /\ Tasks[6] = "drop" /\ Tasks[7] = "forget" /\ Tasks[8] = "gone"
  BY DEF Tasks
<1>2. \A i \in 1..8 : i \in {1, 2, 3, 4, 5, 6, 7, 8}
  OBVIOUS
<1>3. /\ 1..(1 - 1) = {} /\ 1..(2 - 1) = {1} /\ 1..(3 - 1) = {1, 2} /\ 1..(4 - 1) = {1, 2, 3}
      /\ 1..(5 - 1) = {1, 2, 3, 4} /\ 1..(6 - 1) = {1, 2, 3, 4, 5} /\ 1..(7 - 1) = {1, 2, 3, 4, 5, 6}
      /\ 1..(8 - 1) = {1, 2, 3, 4, 5, 6, 7}
  OBVIOUS
<1>4. ASSUME NEW i \in 1..8
      PROVE  Does(t, Tasks[i]) <=> Tasks[i] \in todo[t] /\ \A j \in 1..(i - 1) : Tasks[j] \notin todo[t]
  <2>1. \A k \in 1..8 : Tasks[k] = Tasks[i] => k = i
    BY <1>1, <1>2
  <2>. QED  BY <2>1 DEF Does
<1>5. 1 \in 1..8 /\ 2 \in 1..8 /\ 3 \in 1..8 /\ 4 \in 1..8 /\ 5 \in 1..8 /\ 6 \in 1..8 /\ 7 \in 1..8 /\ 8 \in 1..8
  OBVIOUS
<1>6. Does(t, "init") <=> "init" \in todo[t]
  BY <1>1, <1>3, <1>4, <1>5
<1>7. Does(t, "warm") <=> "warm" \in todo[t] /\ "init" \notin todo[t]
  BY <1>1, <1>3, <1>4, <1>5
<1>8. Does(t, "own") <=> "own" \in todo[t] /\ {"init", "warm"} \cap todo[t] = {}
  BY <1>1, <1>3, <1>4, <1>5
<1>9. Does(t, "walk") <=> "walk" \in todo[t] /\ {"init", "warm", "own"} \cap todo[t] = {}
  BY <1>1, <1>3, <1>4, <1>5
<1>10. Does(t, "visit") <=> "visit" \in todo[t] /\ {"init", "warm", "own", "walk"} \cap todo[t] = {}
  BY <1>1, <1>3, <1>4, <1>5
<1>11. Does(t, "drop") <=> "drop" \in todo[t] /\ {"init", "warm", "own", "walk", "visit"} \cap todo[t] = {}
  BY <1>1, <1>3, <1>4, <1>5
<1>12. Does(t, "forget") <=> /\ "forget" \in todo[t]
                             /\ {"init", "warm", "own", "walk", "visit", "drop"} \cap todo[t] = {}
  BY <1>1, <1>3, <1>4, <1>5
<1>13. Does(t, "gone") <=> /\ "gone" \in todo[t]
                           /\ {"init", "warm", "own", "walk", "visit", "drop", "forget"} \cap todo[t] = {}
  BY <1>1, <1>3, <1>4, <1>5
<1>. QED  BY <1>6, <1>7, <1>8, <1>9, <1>10, <1>11, <1>12, <1>13

-----------------------------------------------------------------------------
(* Lists.                                                                  *)

(* The list is what next leads to from the head.                           *)
LEMMA ListIsRegistered ==
  ASSUME NEW M \in SUBSET Arenas, IsList(M)
  PROVE  Registered = M
<1>1. (head # Nil => head \in M) /\ (\A b \in M : next[b] # Nil => next[b] \in M)
  BY DEF IsList
<1>2. Registered \subseteq M
  BY <1>1 DEF Registered
<1>3. M \subseteq Registered
  BY DEF IsList, Leads, Registered
<1>. QED  BY <1>2, <1>3

LEMMA Pushed ==
  ASSUME TrackerAssumption, TrackerTypeOK, NEW M \in SUBSET Arenas, IsList(M), NEW a \in Arenas \ M, Push(a)
  PROVE  IsList(M \cup {a})'
<1>1. /\ a # Nil /\ Nil \notin M
      /\ next' = [b \in Arenas |-> IF b = a THEN Nil ELSE IF head # Nil /\ b = tail THEN a ELSE next[b]]
      /\ prev' = [prev EXCEPT ![a] = IF head = Nil THEN Nil ELSE tail]
      /\ tail' = a /\ head' = IF head = Nil THEN a ELSE head
  BY DEF Push, TrackerAssumption
<1>2. /\ next'[a] = Nil /\ prev'[a] = IF head = Nil THEN Nil ELSE tail
      /\ \A b \in M : prev'[b] = prev[b] /\ next'[b] = IF head # Nil /\ b = tail THEN a ELSE next[b]
  BY <1>1 DEF TrackerTypeOK
<1>3. /\ head \in M \cup {Nil} /\ tail \in M \cup {Nil}
      /\ \A b \in M : /\ next[b] \in M \cup {Nil} /\ prev[b] \in M \cup {Nil}
                      /\ next[b] = Nil <=> b = tail
                      /\ prev[b] = Nil <=> b = head
                      /\ next[b] # Nil => prev[next[b]] = b
                      /\ prev[b] # Nil => next[prev[b]] = b
  BY DEF IsList
<1>4. head = Nil => M = {}
  <2>. SUFFICES ASSUME head = Nil PROVE M \subseteq {}
    OBVIOUS
  <2>1. {} \in SUBSET Arenas /\ \A b \in {} : next[b] # Nil => next[b] \in {}
    OBVIOUS
  <2>2. Leads(M)
    BY DEF IsList
  <2>. QED  BY <2>1, <2>2 DEF Leads
<1>5. head = Nil <=> tail = Nil
  BY DEF IsList
<1>6. /\ head' \in (M \cup {a}) \cup {Nil} /\ tail' \in (M \cup {a}) \cup {Nil}
      /\ head' # Nil /\ tail' # Nil
  BY <1>1, <1>3
<1>7. CASE head = Nil
  <2>1. M = {} /\ head' = a /\ tail' = a /\ next'[a] = Nil /\ prev'[a] = Nil
    BY <1>1, <1>2, <1>4, <1>7
  <2>2. Leads(M \cup {a})'
    BY <1>1, <2>1 DEF Leads
  <2>. QED  BY <1>1, <2>1, <2>2 DEF IsList
<1>8. CASE head # Nil
  <2>1. /\ head' = head /\ tail' = a /\ tail \in M /\ head \in M
        /\ next'[a] = Nil /\ prev'[a] = tail /\ next'[tail] = a
    BY <1>1, <1>2, <1>3, <1>5, <1>8
  <2>2. ASSUME NEW b \in M
        PROVE  /\ next'[b] \in M \cup {a} /\ prev'[b] \in (M \cup {a}) \cup {Nil}
               /\ next'[b] # Nil /\ b # tail' /\ (prev'[b] = Nil <=> b = head')
               /\ prev'[next'[b]] = b
               /\ prev'[b] # Nil => next'[prev'[b]] = b
    <3>1. CASE b = tail
      <4>1. next'[b] = a /\ prev'[b] = prev[b] /\ next[b] = Nil
        BY <1>2, <1>3, <2>1, <3>1
      <4>2. prev[b] # Nil => prev[b] \in M /\ next[prev[b]] = b /\ prev[b] # tail
        BY <1>1, <1>3, <4>1
      <4>3. prev[b] # Nil => next'[prev[b]] = b
        BY <1>2, <4>2
      <4>. QED  BY <1>1, <1>3, <2>1, <3>1, <4>1, <4>2, <4>3
    <3>2. CASE b # tail
      <4>1. next'[b] = next[b] /\ prev'[b] = prev[b] /\ next[b] \in M
        BY <1>2, <1>3, <2>1, <3>2
      <4>2. prev'[next[b]] = b
        BY <1>2, <1>3, <4>1, <1>1
      <4>3. prev[b] # Nil => prev[b] \in M /\ next[prev[b]] = b /\ prev[b] # tail
        BY <1>1, <1>3
      <4>4. prev[b] # Nil => next'[prev[b]] = b
        BY <1>2, <4>3
      <4>. QED  BY <1>1, <1>3, <2>1, <3>2, <4>1, <4>2, <4>3, <4>4
    <3>. QED  BY <3>1, <3>2
  <2>3. ASSUME NEW S \in SUBSET Arenas, head' # Nil => head' \in S, \A b \in S : next'[b] # Nil => next'[b] \in S
        PROVE  M \cup {a} \subseteq S
    <3>. DEFINE T == S \cap M
    <3>1. head \in T
      BY <2>1, <2>3, <1>8
    <3>2. ASSUME NEW b \in T, next[b] # Nil PROVE next[b] \in T
      <4>1. b # tail /\ next'[b] = next[b] /\ next[b] \in M
        BY <1>2, <1>3, <3>2
      <4>. QED  BY <4>1, <2>3, <3>2
    <3>3. M \subseteq T
      <4>. HIDE DEF T
      <4>1. T \in SUBSET Arenas
        BY DEF T
      <4>. QED  BY <3>1, <3>2, <4>1 DEF IsList, Leads
    <3>4. a \in S
      BY <1>1, <2>1, <2>3, <3>3
    <3>. QED  BY <3>3, <3>4
  <2>4. Leads(M \cup {a})'
    BY <2>3 DEF Leads
  <2>. QED  BY <1>1, <1>6, <2>1, <2>2, <2>4 DEF IsList
<1>. QED  BY <1>7, <1>8

LEMMA Unlinked ==
  ASSUME TrackerAssumption, TrackerTypeOK, NEW M \in SUBSET Arenas, IsList(M), NEW a \in M, Unlink(a)
  PROVE  IsList(M \ {a})'
<1>1. /\ a # Nil /\ Nil \notin M
      /\ head' = IF head = a THEN next[a] ELSE head
      /\ tail' = IF tail = a THEN prev[a] ELSE tail
      /\ next' = IF prev[a] = Nil THEN next ELSE [next EXCEPT ![prev[a]] = next[a]]
      /\ prev' = IF next[a] = Nil THEN prev ELSE [prev EXCEPT ![next[a]] = prev[a]]
  BY DEF Unlink, TrackerAssumption
<1>2. /\ head \in M \cup {Nil} /\ tail \in M \cup {Nil} /\ (head = Nil <=> tail = Nil)
      /\ \A b \in M : /\ next[b] \in M \cup {Nil} /\ prev[b] \in M \cup {Nil}
                      /\ next[b] = Nil <=> b = tail
                      /\ prev[b] = Nil <=> b = head
                      /\ next[b] # Nil => prev[next[b]] = b
                      /\ prev[b] # Nil => next[prev[b]] = b
  BY DEF IsList
<1>3. PICK p, n : p = prev[a] /\ n = next[a]
  OBVIOUS
<1>11. p # a /\ n # a
  <2>1. next[a] # a
    <3>. SUFFICES ASSUME next[a] = a PROVE FALSE
      OBVIOUS
    <3>. DEFINE T == M \ {a}
    <3>1. prev[a] = a /\ head # a
      BY <1>1, <1>2
    <3>2. head # Nil => head \in T
      BY <1>2, <3>1
    <3>3. \A b \in T : next[b] # Nil => next[b] \in T
      BY <1>1, <1>2, <3>1
    <3>4. T \in SUBSET Arenas /\ Leads(M)
      BY DEF IsList
    <3>5. M \subseteq T
      <4>. HIDE DEF T
      <4>. QED  BY <3>2, <3>3, <3>4 DEF Leads
    <3>. QED  BY <3>5
  <2>2. prev[a] # a
    BY <1>1, <1>2, <2>1
  <2>. QED  BY <1>3, <2>1, <2>2
<1>4. /\ p \in M \cup {Nil} /\ n \in M \cup {Nil}
      /\ p # a /\ n # a
      /\ p # Nil => next[p] = a
      /\ n # Nil => prev[n] = a
      /\ n = Nil <=> a = tail
      /\ p = Nil <=> a = head
  BY <1>1, <1>2, <1>3, <1>11
<1>5. ASSUME NEW b \in M
      PROVE  /\ next'[b] = IF p # Nil /\ b = p THEN n ELSE next[b]
             /\ prev'[b] = IF n # Nil /\ b = n THEN p ELSE prev[b]
  BY <1>1, <1>3, <1>4 DEF TrackerTypeOK
<1>6. /\ head' = IF p = Nil THEN n ELSE head
      /\ tail' = IF n = Nil THEN p ELSE tail
  BY <1>1, <1>3, <1>4
<1>7. /\ head' \in (M \ {a}) \cup {Nil} /\ tail' \in (M \ {a}) \cup {Nil}
      /\ head' = Nil <=> tail' = Nil
  BY <1>1, <1>2, <1>4, <1>6
<1>8. ASSUME NEW b \in M \ {a}
      PROVE  /\ next'[b] \in (M \ {a}) \cup {Nil} /\ prev'[b] \in (M \ {a}) \cup {Nil}
             /\ next'[b] = Nil <=> b = tail'
             /\ prev'[b] = Nil <=> b = head'
             /\ next'[b] # Nil => prev'[next'[b]] = b
             /\ prev'[b] # Nil => next'[prev'[b]] = b
  <2>1. /\ b = p <=> next[b] = a
        /\ b = n <=> prev[b] = a
    BY <1>1, <1>2, <1>3, <1>4
  <2>2. /\ next'[b] \in (M \ {a}) \cup {Nil}
        /\ next'[b] = Nil <=> b = tail'
    BY <1>1, <1>2, <1>4, <1>5, <1>6, <2>1
  <2>3. /\ prev'[b] \in (M \ {a}) \cup {Nil}
        /\ prev'[b] = Nil <=> b = head'
    BY <1>1, <1>2, <1>4, <1>5, <1>6, <2>1
  <2>4. next'[b] # Nil => prev'[next'[b]] = b
    BY <1>1, <1>2, <1>4, <1>5, <2>1, <2>2
  <2>5. prev'[b] # Nil => next'[prev'[b]] = b
    BY <1>1, <1>2, <1>4, <1>5, <2>1, <2>3
  <2>. QED  BY <2>2, <2>3, <2>4, <2>5
<1>9. ASSUME NEW S \in SUBSET Arenas, head' # Nil => head' \in S, \A b \in S : next'[b] # Nil => next'[b] \in S
      PROVE  M \ {a} \subseteq S
  <2>. DEFINE T == (S \cap (M \ {a})) \cup (IF p = Nil \/ p \in S THEN {a} ELSE {})
  <2>1. head # Nil => head \in T
    BY <1>1, <1>2, <1>4, <1>6, <1>9
  <2>2. ASSUME NEW b \in T, next[b] # Nil PROVE next[b] \in T
    <3>1. CASE b = a
      <4>1. next[b] = n /\ n \in M \ {a} /\ (p = Nil \/ p \in S)
        BY <1>3, <1>4, <2>2, <3>1
      <4>2. n \in S
        BY <1>4, <1>5, <1>6, <1>9, <4>1
      <4>. QED  BY <4>1, <4>2
    <3>2. CASE b # a /\ b = p
      <4>1. next[b] = a /\ p \in S
        BY <1>1, <1>4, <3>2, <2>2
      <4>. QED  BY <4>1
    <3>3. CASE b # a /\ b # p
      <4>1. b \in S /\ b \in M /\ next'[b] = next[b]
        BY <1>5, <2>2, <3>3
      <4>2. next[b] # a
        BY <1>1, <1>2, <1>3, <3>3, <4>1
      <4>3. next[b] \in S /\ next[b] \in M
        BY <1>2, <1>9, <2>2, <4>1
      <4>. QED  BY <4>2, <4>3
    <3>. QED  BY <3>1, <3>2, <3>3
  <2>3. M \subseteq T
    <3>1. T \in SUBSET Arenas
      OBVIOUS
    <3>. HIDE DEF T
    <3>. QED  BY <2>1, <2>2, <3>1 DEF IsList, Leads
  <2>. QED  BY <2>3
<1>10. Leads(M \ {a})'
  BY <1>9 DEF Leads
<1>. QED  BY <1>7, <1>8, <1>10 DEF IsList

-----------------------------------------------------------------------------
(* What a step of a thread leaves alone.                                   *)
Others(t) ==
  \A u \in ArenaThreads : u # t =>
    /\ todo'[u] = todo[u] /\ step'[u] = step[u] /\ hand'[u] = hand[u]
    /\ owned'[u] = owned[u] /\ scratch'[u] = scratch[u] /\ second'[u] = second[u]

LocalOf(t) == LocalTasks(t) /\ StepAgrees(t) /\ LocalHolds(t)

Up == initialized /\ "init" \notin todo[Main] /\ "gone" \notin todo[Main]

LEMMA LocalOthers ==
  ASSUME Local, NEW t \in ArenaThreads, Others(t), LocalOf(t)'
  PROVE  Local'
<1>. SUFFICES ASSUME NEW u \in ArenaThreads PROVE (LocalTasks(u) /\ StepAgrees(u) /\ LocalHolds(u))'
  BY DEF Local
<1>1. CASE u = t
  BY <1>1 DEF LocalOf
<1>2. CASE u # t
  <2>1. LocalTasks(u) /\ StepAgrees(u) /\ LocalHolds(u)
    BY DEF Local
  <2>2. /\ todo'[u] = todo[u] /\ step'[u] = step[u] /\ hand'[u] = hand[u]
        /\ owned'[u] = owned[u] /\ scratch'[u] = scratch[u] /\ second'[u] = second[u]
    BY <1>2 DEF Others
  <2>3. LocalTasks(u)'
    BY <2>1, <2>2 DEF LocalTasks
  <2>4. StepAgrees(u)'
    BY <2>1, <2>2 DEF StepAgrees
  <2>5. LocalHolds(u)'
    BY <2>1, <2>2 DEF LocalHolds
  <2>. QED  BY <2>3, <2>4, <2>5
<1>. QED  BY <1>1, <1>2

LEMMA OtherSets ==
  ASSUME NEW t \in ArenaThreads, Others(t), NEW u \in ArenaThreads, u # t
  PROVE  Mine(u)' = Mine(u) /\ Away(u)' = Away(u)
<1>1. /\ step'[u] = step[u] /\ hand'[u] = hand[u]
      /\ owned'[u] = owned[u] /\ scratch'[u] = scratch[u] /\ second'[u] = second[u]
  BY DEF Others
<1>2. Mine(u)' = Mine(u)
  BY <1>1 DEF Mine
<1>3. Victim(u)' = Victim(u)
  BY <1>1 DEF Victim
<1>4. Away(u)' = Away(u)
  BY <1>1, <1>3 DEF Away
<1>. QED  BY <1>2, <1>4

(* The arena away is one the thread has.                                   *)
LEMMA AwayIs ==
  ASSUME TrackerAssumption, TrackerTypeOK, Local, NEW t \in ArenaThreads
  PROVE  /\ step[t] = "start" => Away(t) = {}
         /\ step[t] = "push" => Away(t) = {hand[t]}
         /\ step[t] = "reset" => Away(t) = {Nil}
         /\ step[t] = "release" => Away(t) = {Victim(t)}
         /\ step[t] = "release" \/ "drop" \in todo[t] \/ ("forget" \in todo[t] /\ scratch[t] # Nil)
              => Victim(t) \in Mine(t)
         /\ Away(t) \subseteq Mine(t) \cup {Nil}
<1>1. LocalTasks(t) /\ StepAgrees(t) /\ LocalHolds(t)
  BY DEF Local
<1>2. /\ step[t] = "start" => Away(t) = {}
      /\ step[t] = "push" => Away(t) = {hand[t]}
      /\ step[t] = "release" => Away(t) = {Victim(t)}
      /\ step[t] = "reset" => Away(t) = {hand[t]}
  BY DEF Away
<1>3. step[t] = "reset" => hand[t] = Nil
  BY <1>1 DEF StepAgrees, LocalTasks
<1>4. "drop" \in todo[t] => Victim(t) \in Mine(t)
  BY <1>1 DEF StepAgrees, Victim, Mine
<1>5. "forget" \in todo[t] /\ scratch[t] # Nil => Victim(t) \in Mine(t)
  BY <1>1 DEF StepAgrees, Victim, Mine
<1>6. step[t] = "release" => Victim(t) \in Mine(t)
  BY <1>1, <1>4, <1>5 DEF StepAgrees
<1>7. hand[t] \in Mine(t) \cup {Nil}
  BY DEF Mine
<1>8. step[t] \in {"start", "reset", "push", "release"}
  BY <1>1 DEF TrackerTypeOK, StepAgrees
<1>. QED  BY <1>2, <1>3, <1>4, <1>5, <1>6, <1>7, <1>8

LEMMA Idle ==
  ASSUME TrackerTypeOK, Local, NEW t \in ArenaThreads, todo[t] = {}
  PROVE  step[t] = "start" /\ hand[t] = Nil
<1>1. LocalTasks(t) /\ StepAgrees(t)
  BY DEF Local
<1>. QED  BY <1>1 DEF StepAgrees, TrackerTypeOK

(* A thread that has something to do, or an arena, is alone or in time.    *)
LEMMA Phase ==
  ASSUME TrackerAssumption, Local, Phases, NEW t \in ArenaThreads,
         \/ todo[t] # {} /\ {"init", "gone"} \cap todo[t] = {}
         \/ todo[t] = {} /\ Mine(t) # {}
  PROVE  Up
<1>1. CASE t = Main
  BY <1>1 DEF Phases, Up
<1>2. CASE t # Main
  BY <1>2 DEF Phases, Up
<1>. QED  BY <1>1, <1>2

LEMMA StaysUp ==
  ASSUME TrackerAssumption, Phases, Up, initialized' = initialized,
         {"init", "gone"} \cap todo'[Main] = {},
         \A t \in ArenaThreads : mutex' = t <=> "visit" \in todo'[t]
  PROVE  Phases'
BY DEF Phases, Up

LEMMA MembersType ==
  ASSUME TrackerTypeOK
  PROVE  Members \in SUBSET Arenas /\ Members \subseteq alive
BY DEF TrackerTypeOK, Members

LEMMA SameList ==
  ASSUME NEW M, IsList(M), head' = head, tail' = tail, next' = next, prev' = prev
  PROVE  IsList(M)'
<1>1. Leads(M)'
  BY DEF Leads, IsList
<1>. QED  BY <1>1 DEF IsList

(* A step that moves no arena.                                             *)
LEMMA TaskStep ==
  ASSUME TrackerAssumption, TrackerInv, NEW t \in ArenaThreads, Others(t), alive' = alive,
         Mine(t)' = Mine(t), Away(t)' = Away(t), LocalOf(t)'
  PROVE  /\ Local' /\ Shares' /\ Members' = Members
         /\ \A u \in ArenaThreads : Mine(u)' = Mine(u)
<1>1. Local'
  BY LocalOthers DEF TrackerInv
<1>2. \A u \in ArenaThreads : Mine(u)' = Mine(u) /\ Away(u)' = Away(u)
  BY OtherSets
<1>3. Shares'
  BY <1>2 DEF Shares, TrackerInv
<1>4. Members' = Members
  BY <1>2 DEF Members
<1>. QED  BY <1>1, <1>2, <1>3, <1>4

-----------------------------------------------------------------------------
(* The calls.                                                              *)

LEMMA UsesKeeps ==
  ASSUME TrackerAssumption, InitFirst, TrackerInv, NEW t \in ArenaThreads, Uses(t)
  PROVE  TrackerInv'
<1>. USE DEF TrackerInv
<1>1. PICK tasks \in {{"own"}, {"warm"}, {"warm", "walk"}} :
        /\ todo[t] = {} /\ todo' = [todo EXCEPT ![t] = tasks]
        /\ UNCHANGED <<initialized, mutex, list, alive, mine, step, hand, cursor, reported>>
  BY DEF Uses, Begins
<1>2. step[t] = "start" /\ hand[t] = Nil
  BY <1>1, Idle
<1>3. /\ todo'[t] = tasks /\ Others(t)
      /\ alive' = alive /\ head' = head /\ tail' = tail /\ next' = next /\ prev' = prev
      /\ step' = step /\ hand' = hand /\ owned' = owned /\ scratch' = scratch /\ second' = second
      /\ mutex' = mutex /\ cursor' = cursor /\ reported' = reported /\ initialized' = initialized
  BY <1>1 DEF TrackerTypeOK, Others, list, mine
<1>4. LocalTasks(t) /\ StepAgrees(t) /\ LocalHolds(t)
  BY DEF Local
<1>5. LocalOf(t)'
  <2>1. LocalTasks(t)'
    BY <1>1, <1>3 DEF LocalTasks
  <2>2. StepAgrees(t)'
    BY <1>1, <1>2, <1>3 DEF StepAgrees
  <2>3. LocalHolds(t)'
    BY <1>1, <1>3, <1>4 DEF LocalHolds
  <2>. QED  BY <2>1, <2>2, <2>3 DEF LocalOf
<1>6. Mine(t)' = Mine(t) /\ Away(t)' = Away(t)
  BY <1>3 DEF Mine, Away, Victim
<1>7. Local' /\ Shares' /\ Members' = Members
  BY <1>3, <1>5, <1>6, TaskStep
<1>8. TrackerTypeOK'
  BY <1>1, <1>3, TaskNames DEF TrackerTypeOK
<1>9. Phases'
  <2>1. Up
    <3>1. initialized /\ step[Main] # "reset" /\ "gone" \notin todo[Main]
      BY DEF Uses, Ready
    <3>2. StepAgrees(Main)
      BY DEF Local, TrackerAssumption
    <3>. QED  BY <3>1, <3>2 DEF Phases, Up, StepAgrees
  <2>2. {"init", "gone"} \cap todo'[Main] = {}
    BY <1>1, <1>3, <2>1 DEF Others, Up, TrackerAssumption
  <2>3. \A u \in ArenaThreads : mutex' = u <=> "visit" \in todo'[u]
    <3>1. ASSUME NEW u \in ArenaThreads PROVE "visit" \in todo'[u] <=> "visit" \in todo[u]
      BY <1>1, <1>3 DEF Others
    <3>. QED  BY <1>3, <3>1 DEF Phases
  <2>. QED  BY <1>3, <2>1, <2>2, <2>3, StaysUp
<1>10. IsList(Members)'
  BY <1>3, <1>7, SameList
<1>11. Walks'
  BY <1>3, <1>7 DEF Walks
<1>. QED  BY <1>7, <1>8, <1>9, <1>10, <1>11

LEMMA ScratchDestroyKeeps ==
  ASSUME TrackerAssumption, TrackerInv, NEW t \in ArenaThreads, arena_scratch_destroy(t)
  PROVE  TrackerInv'
<1>. USE DEF TrackerInv
<1>1. /\ todo[t] = {} /\ todo' = [todo EXCEPT ![t] = {"forget"}] /\ scratch[t] # Nil
      /\ UNCHANGED <<initialized, mutex, list, alive, mine, step, hand, cursor, reported>>
  BY DEF arena_scratch_destroy, Begins
<1>2. step[t] = "start" /\ hand[t] = Nil
  BY <1>1, Idle
<1>3. /\ todo'[t] = {"forget"} /\ Others(t)
      /\ alive' = alive /\ head' = head /\ tail' = tail /\ next' = next /\ prev' = prev
      /\ step' = step /\ hand' = hand /\ owned' = owned /\ scratch' = scratch /\ second' = second
      /\ mutex' = mutex /\ cursor' = cursor /\ reported' = reported /\ initialized' = initialized
  BY <1>1 DEF TrackerTypeOK, Others, list, mine
<1>4. LocalTasks(t) /\ StepAgrees(t) /\ LocalHolds(t)
  BY DEF Local
<1>5. LocalOf(t)'
  <2>1. LocalTasks(t)'
    BY <1>1, <1>3 DEF LocalTasks
  <2>2. StepAgrees(t)'
    BY <1>1, <1>2, <1>3 DEF StepAgrees
  <2>3. LocalHolds(t)'
    BY <1>1, <1>3, <1>4 DEF LocalHolds
  <2>. QED  BY <2>1, <2>2, <2>3 DEF LocalOf
<1>6. Mine(t)' = Mine(t) /\ Away(t)' = Away(t)
  BY <1>3 DEF Mine, Away, Victim
<1>7. Local' /\ Shares' /\ Members' = Members
  BY <1>3, <1>5, <1>6, TaskStep
<1>8. TrackerTypeOK'
  BY <1>1, <1>3, TaskNames DEF TrackerTypeOK
<1>9. Phases'
  <2>1. Up
    BY <1>1, Phase DEF Mine
  <2>2. {"init", "gone"} \cap todo'[Main] = {}
    BY <1>1, <1>3, <2>1 DEF Others, Up, TrackerAssumption
  <2>3. \A u \in ArenaThreads : mutex' = u <=> "visit" \in todo'[u]
    <3>1. ASSUME NEW u \in ArenaThreads PROVE "visit" \in todo'[u] <=> "visit" \in todo[u]
      BY <1>1, <1>3 DEF Others
    <3>. QED  BY <1>3, <3>1 DEF Phases
  <2>. QED  BY <1>3, <2>1, <2>2, <2>3, StaysUp
<1>10. IsList(Members)'
  BY <1>3, <1>7, SameList
<1>11. Walks'
  BY <1>3, <1>7 DEF Walks
<1>. QED  BY <1>7, <1>8, <1>9, <1>10, <1>11

(* arena_destroy and fl_destroy take an arena in hand.                     *)
LEMMA HandsKeeps ==
  ASSUME TrackerAssumption, TrackerInv, NEW t \in ArenaThreads, NEW a, Hands(t, a), todo[t] = {},
         NEW tasks, todo' = [todo EXCEPT ![t] = tasks],
         \/ tasks = {"drop"}
         \/ /\ tasks = {"drop", "forget", "gone"} /\ t = Main /\ owned[t] = {a}
            /\ \A u \in ArenaThreads \ {Main} : owned[u] = {} /\ scratch[u] = Nil /\ todo[u] = {}
  PROVE  TrackerInv'
<1>. USE DEF TrackerInv
<1>2. step[t] = "start" /\ hand[t] = Nil
  BY Idle
<1>3. /\ todo'[t] = tasks /\ Others(t) /\ a \in owned[t] /\ a \in Arenas /\ a # Nil
      /\ hand'[t] = a /\ owned'[t] = owned[t] \ {a}
      /\ alive' = alive /\ head' = head /\ tail' = tail /\ next' = next /\ prev' = prev
      /\ step' = step /\ scratch' = scratch /\ second' = second
      /\ mutex' = mutex /\ cursor' = cursor /\ reported' = reported /\ initialized' = initialized
  BY DEF Hands, TrackerTypeOK, Others, list, TrackerAssumption
<1>4. LocalTasks(t) /\ StepAgrees(t) /\ LocalHolds(t)
  BY DEF Local
<1>5. LocalOf(t)'
  <2>1. LocalTasks(t)'
    BY <1>3 DEF LocalTasks
  <2>2. StepAgrees(t)'
    BY <1>2, <1>3 DEF StepAgrees
  <2>3. LocalHolds(t)'
    BY <1>3, <1>4 DEF LocalHolds
  <2>. QED  BY <2>1, <2>2, <2>3 DEF LocalOf
<1>6. Mine(t)' = Mine(t) /\ Away(t)' = Away(t)
  <2>1. Mine(t)' = Mine(t)
    BY <1>2, <1>3, <1>4 DEF Mine, LocalHolds
  <2>2. Away(t)' = Away(t)
    BY <1>2, <1>3 DEF Away
  <2>. QED  BY <2>1, <2>2
<1>7. Local' /\ Shares' /\ Members' = Members /\ \A u \in ArenaThreads : Mine(u)' = Mine(u)
  BY <1>3, <1>5, <1>6, TaskStep
<1>8. TrackerTypeOK'
  <2>1. tasks \in SUBSET AllTasks
    BY TaskNames
  <2>2. todo' \in [ArenaThreads -> SUBSET AllTasks]
    BY <2>1 DEF TrackerTypeOK
  <2>3. hand' \in [ArenaThreads -> Arenas \cup {Nil}] /\ owned' \in [ArenaThreads -> SUBSET Arenas]
    BY <1>3 DEF TrackerTypeOK, Hands
  <2>. QED  BY <1>3, <2>2, <2>3 DEF TrackerTypeOK
<1>9. Phases'
  <2>1. Up
    BY <1>3, Phase DEF Mine
  <2>3. \A u \in ArenaThreads : mutex' = u <=> "visit" \in todo'[u]
    <3>1. ASSUME NEW u \in ArenaThreads PROVE "visit" \in todo'[u] <=> "visit" \in todo[u]
      BY <1>3 DEF Others
    <3>. QED  BY <1>3, <3>1 DEF Phases
  <2>4. CASE tasks = {"drop"}
    <3>1. {"init", "gone"} \cap todo'[Main] = {}
      BY <1>3, <2>1, <2>4 DEF Others, Up, TrackerAssumption
    <3>. QED  BY <1>3, <2>1, <2>3, <3>1, StaysUp
  <2>5. CASE t = Main /\ \A u \in ArenaThreads \ {Main} : owned[u] = {} /\ scratch[u] = Nil /\ todo[u] = {}
    <3>1. ASSUME NEW u \in ArenaThreads, u # Main PROVE todo'[u] = {} /\ Mine(u)' = {}
      <4>1. owned[u] = {} /\ scratch[u] = Nil /\ todo[u] = {} /\ todo'[u] = todo[u]
        BY <1>3, <2>5, <3>1 DEF Others
      <4>2. hand[u] = Nil /\ LocalHolds(u)
        BY <4>1, Idle DEF Local
      <4>. QED  BY <1>7, <4>1, <4>2 DEF Mine, LocalHolds
    <3>2. initialized' /\ "init" \notin todo'[Main]
      BY <1>3, <2>1, <2>5 DEF Up
    <3>. QED  BY <2>3, <3>1, <3>2 DEF Phases
  <2>. QED  BY <2>4, <2>5
<1>10. IsList(Members)'
  BY <1>3, <1>7, SameList
<1>11. Walks'
  BY <1>3, <1>7 DEF Walks
<1>. QED  BY <1>7, <1>8, <1>9, <1>10, <1>11

LEMMA DestroyKeeps ==
  ASSUME TrackerAssumption, TrackerInv, NEW t \in ArenaThreads, arena_destroy(t)
  PROVE  TrackerInv'
<1>1. PICK a \in owned[t] : Hands(t, a)
  BY DEF arena_destroy
<1>2. todo[t] = {} /\ todo' = [todo EXCEPT ![t] = {"drop"}]
  BY DEF arena_destroy, Begins
<1>. QED  BY <1>1, <1>2, HandsKeeps

LEMMA DownKeeps ==
  ASSUME TrackerAssumption, TrackerInv, tracker_down
  PROVE  TrackerInv'
<1>1. PICK a \in Arenas : owned[Main] = {a} /\ Hands(Main, a)
  BY DEF tracker_down
<1>2. /\ todo[Main] = {} /\ todo' = [todo EXCEPT ![Main] = {"drop", "forget", "gone"}]
      /\ \A u \in ArenaThreads \ {Main} : owned[u] = {} /\ scratch[u] = Nil /\ todo[u] = {}
      /\ Main \in ArenaThreads
  BY DEF tracker_down, Begins, TrackerAssumption
<1>. QED  BY <1>1, <1>2, HandsKeeps

LEMMA UpKeeps ==
  ASSUME TrackerAssumption, TrackerInv, tracker_up
  PROVE  TrackerInv'
<1>. USE DEF TrackerInv
<1>. DEFINE tasks == {"init", "warm", "own"}
<1>1. /\ todo[Main] = {} /\ todo' = [todo EXCEPT ![Main] = tasks] /\ ~initialized /\ Main \in ArenaThreads
      /\ UNCHANGED <<initialized, mutex, list, alive, mine, step, hand, cursor, reported>>
  BY DEF tracker_up, Begins, TrackerAssumption
<1>2. step[Main] = "start" /\ hand[Main] = Nil
  BY <1>1, Idle
<1>3. /\ todo'[Main] = tasks /\ Others(Main)
      /\ alive' = alive /\ head' = head /\ tail' = tail /\ next' = next /\ prev' = prev
      /\ step' = step /\ hand' = hand /\ owned' = owned /\ scratch' = scratch /\ second' = second
      /\ mutex' = mutex /\ cursor' = cursor /\ reported' = reported /\ initialized' = initialized
  BY <1>1 DEF TrackerTypeOK, Others, list, mine
<1>4. LocalTasks(Main) /\ StepAgrees(Main) /\ LocalHolds(Main)
  BY <1>1 DEF Local
<1>5. LocalOf(Main)'
  <2>1. LocalTasks(Main)'
    BY <1>1, <1>3 DEF LocalTasks
  <2>2. StepAgrees(Main)'
    BY <1>1, <1>2, <1>3 DEF StepAgrees
  <2>3. LocalHolds(Main)'
    BY <1>1, <1>3, <1>4 DEF LocalHolds
  <2>. QED  BY <2>1, <2>2, <2>3 DEF LocalOf
<1>6. Mine(Main)' = Mine(Main) /\ Away(Main)' = Away(Main)
  BY <1>3 DEF Mine, Away, Victim
<1>7. Local' /\ Shares' /\ Members' = Members /\ \A u \in ArenaThreads : Mine(u)' = Mine(u)
  BY <1>1, <1>3, <1>5, <1>6, TaskStep
<1>8. TrackerTypeOK'
  BY <1>1, <1>3, TaskNames DEF TrackerTypeOK
<1>9. Phases'
  <2>1. \A u \in ArenaThreads : u # Main => todo'[u] = {} /\ Mine(u)' = {}
    BY <1>1, <1>3, <1>7 DEF Phases, Others
  <2>2. Mine(Main)' = {}
    BY <1>1, <1>6 DEF Phases
  <2>3. \A u \in ArenaThreads : mutex' = u <=> "visit" \in todo'[u]
    <3>1. ASSUME NEW u \in ArenaThreads PROVE "visit" \in todo'[u] <=> "visit" \in todo[u]
      BY <1>1, <1>3 DEF Others
    <3>. QED  BY <1>3, <3>1 DEF Phases
  <2>. QED  BY <1>1, <1>3, <2>1, <2>2, <2>3 DEF Phases
<1>10. IsList(Members)'
  BY <1>3, <1>7, SameList
<1>11. Walks'
  BY <1>3, <1>7 DEF Walks
<1>. QED  BY <1>7, <1>8, <1>9, <1>10, <1>11

-----------------------------------------------------------------------------
(* An arena is made.                                                       *)

LEMMA NewKeeps ==
  ASSUME TrackerAssumption, TrackerInv, NEW t \in ArenaThreads, arena_new_(t)
  PROVE  TrackerInv'
<1>. USE DEF TrackerInv
<1>1. PICK a \in Arenas \ alive : /\ alive' = alive \cup {a} /\ hand' = [hand EXCEPT ![t] = a]
                                 /\ next' = [next EXCEPT ![a] = Nil] /\ prev' = [prev EXCEPT ![a] = Nil]
  BY DEF arena_new_
<1>2. /\ step[t] = "start" /\ step' = [step EXCEPT ![t] = IF initialized THEN "push" ELSE "init"]
      /\ UNCHANGED <<initialized, mutex, head, tail, mine, todo, cursor, reported, made>>
      /\ \/ "own" \in todo[t] /\ {"init", "warm"} \cap todo[t] = {}
         \/ "warm" \in todo[t] /\ "init" \notin todo[t] /\ second[t] = Nil
  BY First DEF arena_new_, Makes, To
<1>3. LocalTasks(t) /\ StepAgrees(t) /\ LocalHolds(t)
  BY DEF Local
<1>4. Up
  <2>1. "gone" \notin todo[t] /\ "init" \notin todo[t] /\ todo[t] # {}
    BY <1>2, <1>3 DEF LocalTasks
  <2>. QED  BY <2>1, Phase
<1>5. hand[t] = Nil
  BY <1>2, <1>3 DEF StepAgrees, LocalTasks
<1>6. /\ Others(t) /\ a \in Arenas /\ a # Nil /\ a \notin alive
      /\ hand'[t] = a /\ step'[t] = "push"
      /\ head' = head /\ tail' = tail
      /\ todo' = todo /\ owned' = owned /\ scratch' = scratch /\ second' = second
      /\ mutex' = mutex /\ cursor' = cursor /\ reported' = reported /\ initialized' = initialized
  BY <1>1, <1>2, <1>4 DEF TrackerTypeOK, Others, mine, TrackerAssumption, Up
<1>7. a \notin Mine(t) /\ Mine(t)' = Mine(t) \cup {a}
  <2>1. a \notin Mine(t)
    BY <1>6 DEF Shares
  <2>2. Mine(t)' = Mine(t) \cup {a}
    BY <1>5, <1>6 DEF Mine
  <2>. QED  BY <2>1, <2>2
<1>8. LocalOf(t)'
  <2>1. LocalTasks(t)'
    BY <1>3, <1>6 DEF LocalTasks
  <2>2. StepAgrees(t)'
    BY <1>2, <1>3, <1>6 DEF StepAgrees
  <2>3. a # scratch[t] /\ a # second[t] /\ a \notin owned[t]
    BY <1>6, <1>7 DEF Mine
  <2>4. LocalHolds(t)'
    BY <1>3, <1>6, <2>3 DEF LocalHolds
  <2>. QED  BY <2>1, <2>2, <2>4 DEF LocalOf
<1>9. Local'
  BY <1>6, <1>8, LocalOthers
<1>10. \A u \in ArenaThreads : u # t => Mine(u)' = Mine(u) /\ Away(u)' = Away(u)
  BY <1>6, OtherSets
<1>11. Shares'
  <2>1. alive' = UNION {Mine(u)' : u \in ArenaThreads}
    BY <1>1, <1>7, <1>10 DEF Shares
  <2>2. \A u \in ArenaThreads : u # t => a \notin Mine(u)
    BY <1>6 DEF Shares
  <2>3. \A u, v \in ArenaThreads : u # v => Mine(u)' \cap Mine(v)' = {}
    BY <1>7, <1>10, <2>2 DEF Shares
  <2>. QED  BY <2>1, <2>3 DEF Shares
<1>12. Members' = Members
  <2>1. Away(t) = {} /\ Away(t)' = {a}
    BY <1>2, <1>6, AwayIs DEF Away
  <2>2. \A u \in ArenaThreads : a \notin Away(u)
    BY <1>6, AwayIs DEF Shares
  <2>. QED  BY <1>1, <1>10, <2>1, <2>2 DEF Members
<1>13. TrackerTypeOK'
  BY <1>1, <1>2, <1>4, <1>6 DEF TrackerTypeOK, Up
<1>14. Phases'
  BY <1>4, <1>6, StaysUp DEF Phases, Up
<1>15. IsList(Members)'
  <2>1. a \notin Members /\ Members \subseteq Arenas /\ Nil \notin Members
    BY <1>6, MembersType DEF TrackerAssumption
  <2>2. \A b \in Members : next'[b] = next[b] /\ prev'[b] = prev[b]
    BY <1>1, <2>1 DEF TrackerTypeOK
  <2>3. ASSUME NEW S \in SUBSET Arenas, head' # Nil => head' \in S, \A b \in S : next'[b] # Nil => next'[b] \in S
        PROVE  Members \subseteq S
    <3>. DEFINE T == S \cap Members
    <3>1. head # Nil => head \in T
      BY <1>6, <2>3 DEF IsList
    <3>2. \A b \in T : next[b] # Nil => next[b] \in T
      BY <2>2, <2>3 DEF IsList
    <3>3. T \in SUBSET Arenas /\ Leads(Members)
      BY DEF IsList
    <3>4. Members \subseteq T
      <4>. HIDE DEF T
      <4>. QED  BY <3>1, <3>2, <3>3 DEF Leads
    <3>. QED  BY <3>4
  <2>4. Leads(Members)'
    BY <1>12, <2>3 DEF Leads
  <2>5. PICK M : M = Members
    OBVIOUS
  <2>6. /\ head \in M \cup {Nil} /\ tail \in M \cup {Nil} /\ (head = Nil <=> tail = Nil)
        /\ \A b \in M : /\ next[b] \in M \cup {Nil} /\ prev[b] \in M \cup {Nil}
                        /\ next[b] = Nil <=> b = tail
                        /\ prev[b] = Nil <=> b = head
                        /\ next[b] # Nil => prev[next[b]] = b
                        /\ prev[b] # Nil => next[prev[b]] = b
    BY <2>5 DEF IsList
  <2>7. \A b \in M : /\ next'[b] \in M \cup {Nil} /\ prev'[b] \in M \cup {Nil}
                     /\ next'[b] = Nil <=> b = tail'
                     /\ prev'[b] = Nil <=> b = head'
                     /\ next'[b] # Nil => prev'[next'[b]] = b
                     /\ prev'[b] # Nil => next'[prev'[b]] = b
    BY <1>6, <2>1, <2>2, <2>5, <2>6
  <2>. QED  BY <1>6, <1>12, <2>4, <2>5, <2>6, <2>7 DEF IsList
<1>16. Walks'
  BY <1>6, <1>12 DEF Walks
<1>. QED  BY <1>9, <1>11, <1>13, <1>14, <1>15, <1>16

LEMMA TrackerInitKeeps ==
  ASSUME TrackerAssumption, TrackerInv, NEW t \in ArenaThreads, arena_tracker_init(t)
  PROVE  TrackerInv'
<1>. USE DEF TrackerInv
<1>1. LocalTasks(t) /\ StepAgrees(t) /\ LocalHolds(t)
  BY DEF Local
<1>2. /\ step[t] = "start" /\ "init" \in todo[t] /\ t = Main /\ ~initialized
      /\ initialized' = TRUE /\ step' = [step EXCEPT ![t] = "reset"]
      /\ UNCHANGED <<mutex, list, alive, mine, todo, hand, cursor, reported, made>>
  <2>1. step[t] = "start" /\ "init" \in todo[t]
    BY <1>1, First DEF arena_tracker_init, StepAgrees
  <2>2. t = Main
    BY <1>1, <2>1 DEF LocalTasks
  <2>3. ~initialized
    BY <2>1, <2>2 DEF Phases
  <2>. QED  BY <2>1, <2>2, <2>3 DEF arena_tracker_init, To
<1>3. /\ Others(t) /\ step'[t] = "reset" /\ todo' = todo
      /\ alive' = alive /\ head' = head /\ tail' = tail /\ next' = next /\ prev' = prev
      /\ hand' = hand /\ owned' = owned /\ scratch' = scratch /\ second' = second
      /\ mutex' = mutex /\ cursor' = cursor /\ reported' = reported
  BY <1>2 DEF TrackerTypeOK, Others, list, mine
<1>4. hand[t] = Nil
  BY <1>1, <1>2 DEF StepAgrees, LocalTasks
<1>5. LocalOf(t)'
  <2>1. LocalTasks(t)'
    BY <1>1, <1>3 DEF LocalTasks
  <2>2. StepAgrees(t)'
    BY <1>1, <1>2, <1>3 DEF StepAgrees
  <2>3. LocalHolds(t)'
    BY <1>1, <1>3 DEF LocalHolds
  <2>. QED  BY <2>1, <2>2, <2>3 DEF LocalOf
<1>6. Mine(t)' = Mine(t) /\ Mine(t) = {}
  BY <1>2, <1>3 DEF Mine, Phases
<1>7. \A u \in ArenaThreads : Mine(u)' = Mine(u) /\ Mine(u) = {}
  BY <1>2, <1>3, <1>6, OtherSets DEF Phases
<1>8. alive = {} /\ Members = {} /\ Members' = {}
  BY <1>3, <1>7 DEF Members, Shares
<1>9. Local'
  BY <1>3, <1>5, LocalOthers
<1>10. Shares'
  BY <1>3, <1>7 DEF Shares
<1>11. TrackerTypeOK'
  BY <1>2, <1>3 DEF TrackerTypeOK
<1>12. Phases'
  BY <1>2, <1>3, <1>7 DEF Phases
<1>13. IsList(Members)'
  BY <1>3, <1>8, SameList
<1>14. Walks'
  BY <1>3, <1>8 DEF Walks
<1>. QED  BY <1>9, <1>10, <1>11, <1>12, <1>13, <1>14

LEMMA ResetKeeps ==
  ASSUME TrackerAssumption, TrackerInv, NEW t \in ArenaThreads, tracker_reset(t)
  PROVE  TrackerInv'
<1>. USE DEF TrackerInv
<1>1. LocalTasks(t) /\ StepAgrees(t) /\ LocalHolds(t)
  BY DEF Local
<1>2. /\ step[t] = "reset" /\ "init" \in todo[t] /\ t = Main
      /\ todo' = [todo EXCEPT ![t] = @ \ {"init"}] /\ step' = [step EXCEPT ![t] = "start"]
      /\ mutex' = Nil /\ head' = Nil /\ tail' = Nil
      /\ UNCHANGED <<initialized, next, prev, alive, mine, hand, cursor, reported, made>>
  <2>1. step[t] = "reset" /\ "init" \in todo[t] /\ t = Main
    BY <1>1 DEF tracker_reset, StepAgrees, LocalTasks
  <2>2. Does(t, "init")
    BY <2>1, First
  <2>. QED  BY <2>1, <2>2 DEF tracker_reset, Initialised, To, Done
<1>3. /\ Others(t) /\ step'[t] = "start" /\ todo'[t] = todo[t] \ {"init"}
      /\ alive' = alive /\ next' = next /\ prev' = prev /\ initialized' = initialized
      /\ hand' = hand /\ owned' = owned /\ scratch' = scratch /\ second' = second
      /\ cursor' = cursor /\ reported' = reported
  BY <1>2 DEF TrackerTypeOK, Others, mine
<1>4. hand[t] = Nil /\ todo'[t] = {"warm", "own"}
  BY <1>1, <1>2, <1>3 DEF StepAgrees, LocalTasks
<1>5. LocalOf(t)'
  <2>1. LocalTasks(t)'
    BY <1>1, <1>3, <1>4 DEF LocalTasks
  <2>2. StepAgrees(t)'
    BY <1>1, <1>2, <1>3, <1>4 DEF StepAgrees
  <2>3. LocalHolds(t)'
    BY <1>1, <1>3, <1>4 DEF LocalHolds
  <2>. QED  BY <2>1, <2>2, <2>3 DEF LocalOf
<1>6. Mine(t)' = Mine(t) /\ Mine(t) = {}
  BY <1>2, <1>3 DEF Mine, Phases
<1>7. \A u \in ArenaThreads : Mine(u)' = Mine(u) /\ Mine(u) = {}
  BY <1>2, <1>3, <1>6, OtherSets DEF Phases
<1>8. alive = {} /\ Members = {} /\ Members' = {}
  BY <1>3, <1>7 DEF Members, Shares
<1>9. Local'
  BY <1>3, <1>5, LocalOthers
<1>10. Shares'
  BY <1>3, <1>7 DEF Shares
<1>11. TrackerTypeOK'
  BY <1>2, <1>3, <1>4, TaskNames DEF TrackerTypeOK
<1>12. Phases'
  <2>1. \A u \in ArenaThreads : mutex' # u /\ "visit" \notin todo'[u]
    BY <1>2, <1>3, <1>4 DEF Phases, Others, TrackerAssumption
  <2>2. initialized'
    BY <1>2, <1>3, <1>1 DEF Phases
  <2>3. "init" \notin todo'[Main] /\ "gone" \notin todo'[Main]
    BY <1>2, <1>4
  <2>4. \A u \in ArenaThreads : mutex' = u <=> "visit" \in todo'[u]
    BY <2>1
  <2>. QED  BY <2>2, <2>3, <2>4 DEF Phases
<1>13. IsList(Members)'
  <2>1. Leads({})'
    BY DEF Leads
  <2>. QED  BY <1>2, <1>8, <2>1 DEF IsList
<1>14. Walks'
  BY <1>2 DEF Walks, TrackerAssumption
<1>. QED  BY <1>9, <1>10, <1>11, <1>12, <1>13, <1>14

LEMMA ReturnsKeeps ==
  ASSUME TrackerAssumption, TrackerInv, NEW t \in ArenaThreads, scratch_returns(t)
  PROVE  TrackerInv'
<1>. USE DEF TrackerInv
<1>1. LocalTasks(t) /\ StepAgrees(t) /\ LocalHolds(t)
  BY DEF Local
<1>2. PICK task \in {"warm", "forget"} :
        /\ step[t] = "start" /\ task \in todo[t] /\ "init" \notin todo[t]
        /\ task = "warm" => second[t] # Nil
        /\ task = "forget" => "drop" \notin todo[t] /\ scratch[t] = Nil
        /\ todo' = [todo EXCEPT ![t] = @ \ {task}]
        /\ UNCHANGED <<initialized, mutex, list, alive, mine, hand, cursor, reported, made, step>>
  <2>1. CASE Does(t, "warm") /\ second[t] # Nil /\ Done(t, "warm")
    BY <2>1, First DEF scratch_returns, Done
  <2>2. CASE Does(t, "forget") /\ scratch[t] = Nil /\ Done(t, "forget")
    BY <2>2, First DEF scratch_returns, Done
  <2>. QED  BY <2>1, <2>2 DEF scratch_returns
<1>3. /\ Others(t) /\ todo'[t] = todo[t] \ {task}
      /\ alive' = alive /\ head' = head /\ tail' = tail /\ next' = next /\ prev' = prev
      /\ step' = step /\ hand' = hand /\ owned' = owned /\ scratch' = scratch /\ second' = second
      /\ mutex' = mutex /\ cursor' = cursor /\ reported' = reported /\ initialized' = initialized
  BY <1>2 DEF TrackerTypeOK, Others, list, mine
<1>5. LocalOf(t)'
  <2>1. LocalTasks(t)'
    BY <1>1, <1>2, <1>3 DEF LocalTasks
  <2>2. StepAgrees(t)'
    BY <1>1, <1>2, <1>3 DEF StepAgrees
  <2>3. LocalHolds(t)'
    BY <1>1, <1>2, <1>3 DEF LocalHolds
  <2>. QED  BY <2>1, <2>2, <2>3 DEF LocalOf
<1>6. Mine(t)' = Mine(t) /\ Away(t)' = Away(t)
  BY <1>3 DEF Mine, Away, Victim
<1>7. Local' /\ Shares' /\ Members' = Members /\ \A u \in ArenaThreads : Mine(u)' = Mine(u)
  BY <1>3, <1>5, <1>6, TaskStep
<1>8. TrackerTypeOK'
  <2>1. todo' \in [ArenaThreads -> SUBSET AllTasks]
    BY <1>2 DEF TrackerTypeOK
  <2>. QED  BY <1>3, <2>1 DEF TrackerTypeOK
<1>9. Phases'
  <2>1. \A u \in ArenaThreads : u # Main /\ todo[u] = {} => todo'[u] = {}
    BY <1>2, <1>3 DEF Others
  <2>2. \A u \in ArenaThreads : mutex' = u <=> "visit" \in todo'[u]
    <3>1. ASSUME NEW u \in ArenaThreads PROVE "visit" \in todo'[u] <=> "visit" \in todo[u]
      BY <1>2, <1>3 DEF Others
    <3>. QED  BY <1>3, <3>1 DEF Phases
  <2>3. /\ "init" \in todo'[Main] <=> "init" \in todo[Main]
        /\ "gone" \in todo'[Main] <=> "gone" \in todo[Main]
    BY <1>2, <1>3 DEF Others, TrackerAssumption
  <2>4. initialized
    BY <1>2 DEF Phases, LocalTasks
  <2>5. step' = step /\ initialized' = initialized /\ \A u \in ArenaThreads : Mine(u)' = Mine(u)
    BY <1>3, <1>7
  <2>6. \A u \in ArenaThreads : u # Main /\ ("init" \in todo'[Main] \/ "gone" \in todo'[Main])
          => todo'[u] = {} /\ Mine(u)' = {}
    BY <2>1, <2>3, <2>5 DEF Phases
  <2>7. "init" \in todo'[Main] => Mine(Main)' = {}
    BY <2>3, <2>5 DEF Phases, TrackerAssumption
  <2>8. ~("init" \in todo'[Main] /\ step'[Main] = "start")
    BY <2>3, <2>4, <2>5 DEF Phases
  <2>. QED  BY <2>2, <2>4, <2>5, <2>6, <2>7, <2>8 DEF Phases
<1>10. IsList(Members)'
  BY <1>3, <1>7, SameList
<1>11. Walks'
  BY <1>3, <1>7 DEF Walks
<1>. QED  BY <1>7, <1>8, <1>9, <1>10, <1>11

LEMMA RegisterKeeps ==
  ASSUME TrackerAssumption, TrackerInv, NEW t \in ArenaThreads, arena_tracker_register(t)
  PROVE  TrackerInv'
<1>. USE DEF TrackerInv
<1>1. LocalTasks(t) /\ StepAgrees(t) /\ LocalHolds(t)
  BY DEF Local
<1>2. PICK a : a = hand[t]
  OBVIOUS
<1>3. /\ step[t] = "push" /\ mutex = Nil /\ Push(a) /\ Keeps(t) /\ step' = [step EXCEPT ![t] = "start"]
      /\ initialized' = initialized /\ mutex' = mutex /\ alive' = alive
      /\ cursor' = cursor /\ reported' = reported
  BY <1>2 DEF arena_tracker_register, To
<1>4. /\ "init" \notin todo[t] /\ "gone" \notin todo[t] /\ todo[t] # {} /\ "drop" \notin todo[t] /\ "visit" \notin todo[t]
      /\ "forget" \notin todo[t]
      /\ a # Nil
      /\ \/ "warm" \in todo[t] /\ second[t] = Nil
         \/ "own" \in todo[t] /\ "warm" \notin todo[t]
  BY <1>1, <1>2, <1>3 DEF StepAgrees, LocalTasks
<1>5. Up
  BY <1>4, Phase
<1>6. a \in Mine(t) /\ a \in alive /\ a \in Arenas
  BY <1>2, <1>4 DEF Mine, Shares, TrackerTypeOK
<1>7. PICK own \in BOOLEAN : own <=> Does(t, "own")
  OBVIOUS
<1>8. /\ own => "own" \in todo[t] /\ "warm" \notin todo[t]
      /\ ~own => "warm" \in todo[t] /\ second[t] = Nil
      /\ Does(t, "warm") <=> ~own
  BY <1>4, <1>7, First
<1>9. /\ hand' = [hand EXCEPT ![t] = Nil]
      /\ todo' = IF own THEN [todo EXCEPT ![t] = @ \ {"own"}] ELSE todo
      /\ owned' = IF own THEN [owned EXCEPT ![t] = @ \cup {a}] ELSE owned
      /\ scratch' = IF ~own /\ scratch[t] = Nil THEN [scratch EXCEPT ![t] = a] ELSE scratch
      /\ second' = IF ~own /\ scratch[t] # Nil THEN [second EXCEPT ![t] = a] ELSE second
  BY <1>2, <1>3, <1>7, <1>8 DEF Keeps, Done
<1>10. Others(t)
  BY <1>3, <1>9 DEF Others, TrackerTypeOK
<1>11. /\ hand'[t] = Nil /\ step'[t] = "start"
       /\ todo'[t] = IF own THEN todo[t] \ {"own"} ELSE todo[t]
       /\ owned'[t] = IF own THEN owned[t] \cup {a} ELSE owned[t]
       /\ scratch'[t] = IF ~own /\ scratch[t] = Nil THEN a ELSE scratch[t]
       /\ second'[t] = IF ~own /\ scratch[t] # Nil THEN a ELSE second[t]
  BY <1>3, <1>9 DEF TrackerTypeOK
<1>12. a \notin owned[t] /\ a # scratch[t] /\ a # second[t] /\ Nil \notin owned[t]
  BY <1>1, <1>2, <1>4 DEF LocalHolds, TrackerTypeOK, TrackerAssumption
<1>13. Mine(t)' = Mine(t)
  BY <1>1, <1>2, <1>4, <1>8, <1>11 DEF Mine, LocalHolds
<1>14. LocalOf(t)'
  <2>1. LocalTasks(t)'
    BY <1>1, <1>4, <1>8, <1>11 DEF LocalTasks
  <2>2. StepAgrees(t)'
    BY <1>4, <1>11 DEF StepAgrees
  <2>3. LocalHolds(t)'
    <3>1. CASE own
      BY <1>1, <1>4, <1>8, <1>11, <1>12, <3>1 DEF LocalHolds, LocalTasks
    <3>2. CASE ~own
      BY <1>1, <1>4, <1>8, <1>11, <1>12, <3>2 DEF LocalHolds, LocalTasks
    <3>. QED  BY <3>1, <3>2
  <2>. QED  BY <2>1, <2>2, <2>3 DEF LocalOf
<1>15. Local'
  BY <1>10, <1>14, LocalOthers
<1>16. \A u \in ArenaThreads : u # t => Mine(u)' = Mine(u) /\ Away(u)' = Away(u)
  BY <1>10, OtherSets
<1>17. Shares'
  BY <1>3, <1>13, <1>16 DEF Shares
<1>18. a \notin Members /\ Members' = Members \cup {a}
  <2>1. Away(t) = {a} /\ Away(t)' = {}
    BY <1>2, <1>3, <1>11 DEF Away
  <2>2. \A u \in ArenaThreads : u # t => a \notin Away(u)
    BY <1>4, <1>6, AwayIs DEF Shares
  <2>. QED  BY <1>3, <1>6, <1>16, <2>1, <2>2 DEF Members
<1>19. TrackerTypeOK'
  <2>1. /\ todo' \in [ArenaThreads -> SUBSET AllTasks] /\ owned' \in [ArenaThreads -> SUBSET Arenas]
        /\ scratch' \in [ArenaThreads -> Arenas \cup {Nil}] /\ second' \in [ArenaThreads -> Arenas \cup {Nil}]
        /\ hand' \in [ArenaThreads -> Arenas \cup {Nil}]
    BY <1>6, <1>9 DEF TrackerTypeOK
  <2>2. /\ next' \in [Arenas -> Arenas \cup {Nil}] /\ prev' \in [Arenas -> Arenas \cup {Nil}]
        /\ {head', tail'} \subseteq Arenas \cup {Nil}
    BY <1>3, <1>6 DEF TrackerTypeOK, Push
  <2>3. step' \in [ArenaThreads -> {"start", "init", "reset", "push", "release"}]
    BY <1>3 DEF TrackerTypeOK
  <2>. QED  BY <1>3, <2>1, <2>2, <2>3 DEF TrackerTypeOK
<1>20. Phases'
  <2>1. {"init", "gone"} \cap todo'[Main] = {}
    BY <1>5, <1>10, <1>11 DEF Others, Up, TrackerAssumption
  <2>2. \A u \in ArenaThreads : mutex' = u <=> "visit" \in todo'[u]
    <3>1. ASSUME NEW u \in ArenaThreads PROVE "visit" \in todo'[u] <=> "visit" \in todo[u]
      BY <1>10, <1>11 DEF Others
    <3>. QED  BY <1>3, <3>1 DEF Phases
  <2>. QED  BY <1>3, <1>5, <2>1, <2>2, StaysUp
<1>21. IsList(Members)'
  <2>1. PICK M : M = Members
    OBVIOUS
  <2>2. M \in SUBSET Arenas /\ IsList(M) /\ a \in Arenas \ M
    BY <1>6, <1>18, <2>1, MembersType
  <2>3. IsList(M \cup {a})'
    BY <1>3, <2>2, Pushed
  <2>4. M \cup {a} = Members'
    BY <1>18, <2>1
  <2>5. Leads(Members)'
    BY <2>3, <2>4 DEF IsList, Leads
  <2>. QED  BY <2>3, <2>4, <2>5 DEF IsList
<1>22. Walks'
  BY <1>3 DEF Walks, TrackerAssumption
<1>. QED  BY <1>15, <1>17, <1>19, <1>20, <1>21, <1>22

-----------------------------------------------------------------------------
(* An arena goes.                                                          *)

(* The arena that goes is on the list, and its thread is in time.          *)
LEMMA Dropped ==
  ASSUME TrackerAssumption, TrackerInv, NEW t \in ArenaThreads,
         "drop" \in todo[t] \/ ("forget" \in todo[t] /\ scratch[t] # Nil)
  PROVE  /\ Victim(t) \in Mine(t) /\ Victim(t) \in alive /\ Victim(t) \in Arenas /\ Victim(t) # Nil
         /\ initialized /\ "init" \notin todo[Main]
         /\ \A u \in ArenaThreads : u # t => Victim(t) \notin Mine(u) \cup Away(u)
<1>. USE DEF TrackerInv
<1>1. LocalTasks(t) /\ StepAgrees(t) /\ LocalHolds(t)
  BY DEF Local
<1>2. Victim(t) \in Mine(t)
  BY AwayIs
<1>3. Victim(t) \in alive /\ Victim(t) \in Arenas /\ Victim(t) # Nil
  BY <1>2 DEF Shares, TrackerTypeOK, TrackerAssumption
<1>4. initialized /\ "init" \notin todo[Main]
  BY <1>1 DEF Phases, LocalTasks
<1>. QED  BY <1>2, <1>3, <1>4, AwayIs DEF Shares

LEMMA UnregisterKeeps ==
  ASSUME TrackerAssumption, TrackerInv, NEW t \in ArenaThreads, arena_tracker_unregister(t)
  PROVE  TrackerInv'
<1>. USE DEF TrackerInv
<1>1. LocalTasks(t) /\ StepAgrees(t) /\ LocalHolds(t)
  BY DEF Local
<1>2. /\ step[t] = "start" /\ step' = [step EXCEPT ![t] = "release"]
      /\ "drop" \in todo[t] \/ ("forget" \in todo[t] /\ scratch[t] # Nil)
      /\ UNCHANGED <<initialized, mutex, alive, mine, todo, hand, cursor, reported, made>>
  BY First DEF arena_tracker_unregister, Drops, To
<1>3. PICK a : a = Victim(t)
  OBVIOUS
<1>4. /\ a \in Mine(t) /\ a \in alive /\ a \in Arenas /\ a # Nil /\ initialized /\ "init" \notin todo[Main]
      /\ \A u \in ArenaThreads : u # t => a \notin Mine(u) \cup Away(u)
  BY <1>2, <1>3, Dropped
<1>5. mutex = Nil /\ Unlink(a)
  BY <1>3, <1>4 DEF arena_tracker_unregister
<1>6. /\ Others(t) /\ step'[t] = "release" /\ todo' = todo
      /\ alive' = alive /\ initialized' = initialized
      /\ hand' = hand /\ owned' = owned /\ scratch' = scratch /\ second' = second
      /\ mutex' = mutex /\ cursor' = cursor /\ reported' = reported
  BY <1>2 DEF TrackerTypeOK, Others, mine
<1>7. LocalOf(t)'
  <2>1. LocalTasks(t)'
    BY <1>1, <1>6 DEF LocalTasks
  <2>2. StepAgrees(t)'
    BY <1>1, <1>2, <1>6 DEF StepAgrees, LocalTasks
  <2>3. LocalHolds(t)'
    BY <1>1, <1>6 DEF LocalHolds
  <2>. QED  BY <2>1, <2>2, <2>3 DEF LocalOf
<1>8. Local'
  BY <1>6, <1>7, LocalOthers
<1>9. Mine(t)' = Mine(t) /\ \A u \in ArenaThreads : u # t => Mine(u)' = Mine(u) /\ Away(u)' = Away(u)
  BY <1>6, OtherSets DEF Mine
<1>10. Shares'
  BY <1>6, <1>9 DEF Shares
<1>11. a \in Members /\ Members' = Members \ {a}
  <2>1. Away(t) = {} /\ Away(t)' = {a}
    BY <1>2, <1>3, <1>6 DEF Away, Victim
  <2>. QED  BY <1>4, <1>6, <1>9, <2>1 DEF Members
<1>12. TrackerTypeOK'
  <2>1. next[a] \in Arenas \cup {Nil} /\ prev[a] \in Arenas \cup {Nil}
    BY <1>4 DEF TrackerTypeOK
  <2>2. /\ next' \in [Arenas -> Arenas \cup {Nil}] /\ prev' \in [Arenas -> Arenas \cup {Nil}]
        /\ {head', tail'} \subseteq Arenas \cup {Nil}
    BY <1>5, <2>1 DEF TrackerTypeOK, Unlink
  <2>3. step' \in [ArenaThreads -> {"start", "init", "reset", "push", "release"}]
    BY <1>2 DEF TrackerTypeOK
  <2>. QED  BY <1>6, <2>2, <2>3 DEF TrackerTypeOK
<1>13. Phases'
  <2>1. \A u \in ArenaThreads : Mine(u)' = Mine(u)
    BY <1>9
  <2>2. step'[Main] # "reset"
    BY <1>1, <1>4, <1>6 DEF Others, Phases, Local, StepAgrees, TrackerAssumption
  <2>. QED  BY <1>4, <1>6, <2>1, <2>2 DEF Phases
<1>14. IsList(Members)'
  <2>1. PICK M : M = Members
    OBVIOUS
  <2>2. M \in SUBSET Arenas /\ IsList(M) /\ a \in M
    BY <1>11, <2>1, MembersType
  <2>3. IsList(M \ {a})'
    BY <1>5, <2>2, Unlinked
  <2>4. M \ {a} = Members'
    BY <1>11, <2>1
  <2>5. Leads(Members)'
    BY <2>3, <2>4 DEF IsList, Leads
  <2>. QED  BY <2>3, <2>4, <2>5 DEF IsList
<1>15. Walks'
  BY <1>5, <1>6 DEF Walks, TrackerAssumption
<1>. QED  BY <1>8, <1>10, <1>12, <1>13, <1>14, <1>15

LEMMA ReleaseKeeps ==
  ASSUME TrackerAssumption, TrackerInv, NEW t \in ArenaThreads, release_range_os(t)
  PROVE  TrackerInv'
<1>. USE DEF TrackerInv
<1>1. LocalTasks(t) /\ StepAgrees(t) /\ LocalHolds(t)
  BY DEF Local
<1>2. PICK a : a = Victim(t)
  OBVIOUS
<1>3. /\ step[t] = "release" /\ step' = [step EXCEPT ![t] = "start"]
      /\ "drop" \in todo[t] \/ ("forget" \in todo[t] /\ scratch[t] # Nil)
      /\ todo' = [todo EXCEPT ![t] = @ \ {"drop"}] /\ alive' = alive \ {a}
      /\ hand' = [hand EXCEPT ![t] = Nil]
      /\ second' = IF hand[t] = Nil THEN [second EXCEPT ![t] = Nil] ELSE second
      /\ scratch' = IF hand[t] = Nil /\ second[t] = Nil THEN [scratch EXCEPT ![t] = Nil] ELSE scratch
      /\ initialized' = initialized /\ mutex' = mutex /\ owned' = owned
      /\ head' = head /\ tail' = tail /\ next' = next /\ prev' = prev
      /\ cursor' = cursor /\ reported' = reported
  BY <1>1, <1>2 DEF release_range_os, StepAgrees, To, Done, list
<1>4. /\ a \in Mine(t) /\ a \in alive /\ a \in Arenas /\ a # Nil /\ initialized /\ "init" \notin todo[Main]
      /\ \A u \in ArenaThreads : u # t => a \notin Mine(u) \cup Away(u)
  BY <1>2, <1>3, Dropped
<1>5. Others(t)
  BY <1>3 DEF Others, TrackerTypeOK
<1>6. /\ hand'[t] = Nil /\ step'[t] = "start" /\ todo'[t] = todo[t] \ {"drop"} /\ owned'[t] = owned[t]
      /\ scratch'[t] = IF hand[t] = Nil /\ second[t] = Nil THEN Nil ELSE scratch[t]
      /\ second'[t] = IF hand[t] = Nil THEN Nil ELSE second[t]
  BY <1>3 DEF TrackerTypeOK
<1>7. /\ hand[t] # Nil <=> "drop" \in todo[t]
      /\ hand[t] = Nil => "forget" \in todo[t] /\ scratch[t] # Nil
      /\ a = IF hand[t] # Nil THEN hand[t] ELSE IF second[t] # Nil THEN second[t] ELSE scratch[t]
  BY <1>1, <1>2, <1>3 DEF StepAgrees, Victim
<1>8. {"visit", "walk", "warm", "own", "init"} \cap todo[t] = {} /\ Nil \notin owned[t]
  BY <1>1, <1>3 DEF LocalTasks, TrackerTypeOK, TrackerAssumption
<1>9. Mine(t)' = Mine(t) \ {a}
  <2>. USE <1>1, <1>6, <1>7, <1>8 DEF Mine, LocalHolds
  <2>1. CASE hand[t] # Nil
    BY <2>1
  <2>2. CASE hand[t] = Nil /\ second[t] # Nil
    BY <2>2
  <2>3. CASE hand[t] = Nil /\ second[t] = Nil
    BY <2>3
  <2>. QED  BY <2>1, <2>2, <2>3
<1>10. LocalOf(t)'
  <2>1. LocalTasks(t)'
    BY <1>1, <1>6, <1>7 DEF LocalTasks
  <2>2. StepAgrees(t)'
    BY <1>6, <1>8 DEF StepAgrees
  <2>3. LocalHolds(t)'
    BY <1>1, <1>6, <1>8 DEF LocalHolds
  <2>. QED  BY <2>1, <2>2, <2>3 DEF LocalOf
<1>11. Local'
  BY <1>5, <1>10, LocalOthers
<1>12. \A u \in ArenaThreads : u # t => Mine(u)' = Mine(u) /\ Away(u)' = Away(u)
  BY <1>5, OtherSets
<1>13. Shares'
  <2>1. alive' = UNION {Mine(u)' : u \in ArenaThreads}
    BY <1>3, <1>4, <1>9, <1>12 DEF Shares
  <2>2. \A u, v \in ArenaThreads : u # v => Mine(u)' \cap Mine(v)' = {}
    BY <1>9, <1>12 DEF Shares
  <2>. QED  BY <2>1, <2>2 DEF Shares
<1>14. Members' = Members
  <2>1. Away(t) = {a} /\ Away(t)' = {}
    BY <1>2, <1>3, <1>6 DEF Away
  <2>. QED  BY <1>3, <1>4, <1>12, <2>1 DEF Members
<1>15. TrackerTypeOK'
  <2>1. /\ todo' \in [ArenaThreads -> SUBSET AllTasks] /\ hand' \in [ArenaThreads -> Arenas \cup {Nil}]
        /\ scratch' \in [ArenaThreads -> Arenas \cup {Nil}] /\ second' \in [ArenaThreads -> Arenas \cup {Nil}]
        /\ step' \in [ArenaThreads -> {"start", "init", "reset", "push", "release"}]
    BY <1>3 DEF TrackerTypeOK
  <2>. QED  BY <1>3, <2>1 DEF TrackerTypeOK
<1>16. Phases'
  <2>1. \A u \in ArenaThreads : todo'[u] \subseteq todo[u] /\ Mine(u)' \subseteq Mine(u)
    BY <1>5, <1>6, <1>9, <1>12 DEF Others
  <2>2. step'[Main] # "reset"
    BY <1>1, <1>4, <1>5, <1>6 DEF Others, Phases, Local, StepAgrees, TrackerAssumption
  <2>3. \A u \in ArenaThreads : mutex' = u <=> "visit" \in todo'[u]
    <3>1. ASSUME NEW u \in ArenaThreads PROVE "visit" \in todo'[u] <=> "visit" \in todo[u]
      BY <1>5, <1>6 DEF Others
    <3>. QED  BY <1>3, <3>1 DEF Phases
  <2>4. "init" \notin todo'[Main] /\ ("gone" \in todo'[Main] => "gone" \in todo[Main])
    BY <1>4, <2>1 DEF TrackerAssumption
  <2>5. ASSUME "gone" \in todo'[Main], NEW u \in ArenaThreads, u # Main
        PROVE  todo'[u] = {} /\ Mine(u)' = {}
    <3>1. todo[u] = {} /\ Mine(u) = {}
      BY <2>4, <2>5 DEF Phases
    <3>. QED  BY <2>1, <3>1
  <2>6. initialized'
    BY <1>3, <1>4
  <2>. QED  BY <2>2, <2>3, <2>4, <2>5, <2>6 DEF Phases
<1>17. IsList(Members)'
  BY <1>3, <1>14, SameList
<1>18. Walks'
  BY <1>3, <1>14 DEF Walks
<1>. QED  BY <1>11, <1>13, <1>15, <1>16, <1>17, <1>18

LEMMA GoneKeeps ==
  ASSUME TrackerAssumption, TrackerInv, NEW t \in ArenaThreads, arena_tracker_destroy(t)
  PROVE  TrackerInv'
<1>. USE DEF TrackerInv
<1>1. LocalTasks(t) /\ StepAgrees(t) /\ LocalHolds(t)
  BY DEF Local
<1>2. /\ "gone" \in todo[t] /\ {"init", "warm", "own", "walk", "visit", "drop", "forget"} \cap todo[t] = {}
      /\ todo' = [todo EXCEPT ![t] = @ \ {"gone"}]
      /\ initialized' = FALSE /\ head' = Nil /\ tail' = Nil
      /\ UNCHANGED <<mutex, next, prev, alive, mine, step, hand, cursor, reported, made>>
  BY First DEF arena_tracker_destroy, Done
<1>3. t = Main /\ todo[t] \subseteq {"gone"} /\ scratch[t] = Nil /\ second[t] = Nil /\ owned[t] = {}
  BY <1>1, <1>2 DEF LocalTasks, LocalHolds
<1>4. hand[t] = Nil /\ step[t] = "start"
  BY <1>1, <1>2 DEF StepAgrees, TrackerTypeOK
<1>5. /\ Others(t) /\ todo'[t] = {}
      /\ alive' = alive /\ next' = next /\ prev' = prev /\ step' = step
      /\ hand' = hand /\ owned' = owned /\ scratch' = scratch /\ second' = second
      /\ mutex' = mutex /\ cursor' = cursor /\ reported' = reported
  BY <1>2, <1>3 DEF TrackerTypeOK, Others, mine
<1>6. Mine(t)' = {} /\ Mine(t) = {}
  BY <1>3, <1>4, <1>5 DEF Mine
<1>7. \A u \in ArenaThreads : Mine(u)' = {} /\ Mine(u) = {} /\ todo'[u] = {}
  BY <1>2, <1>3, <1>5, <1>6, OtherSets DEF Phases, Others
<1>8. alive = {} /\ Members' = {}
  BY <1>5, <1>7 DEF Members, Shares
<1>9. LocalOf(t)'
  <2>1. LocalTasks(t)'
    BY <1>5 DEF LocalTasks
  <2>2. StepAgrees(t)'
    BY <1>4, <1>5 DEF StepAgrees
  <2>3. LocalHolds(t)'
    BY <1>1, <1>5 DEF LocalHolds
  <2>. QED  BY <2>1, <2>2, <2>3 DEF LocalOf
<1>10. Local'
  BY <1>5, <1>9, LocalOthers
<1>11. Shares'
  BY <1>5, <1>7, <1>8 DEF Shares
<1>12. TrackerTypeOK'
  BY <1>2, <1>5 DEF TrackerTypeOK
<1>13. \A u \in ArenaThreads : mutex' # u
  BY <1>2, <1>3, <1>5 DEF Phases
<1>14. Phases'
  <2>1. step'[Main] # "reset"
    BY <1>3, <1>4, <1>5
  <2>2. Mine(Main)' = {} /\ todo'[Main] = {}
    BY <1>3, <1>7
  <2>. QED  BY <1>7, <1>13, <2>1, <2>2 DEF Phases
<1>15. IsList(Members)'
  <2>1. Leads({})'
    BY DEF Leads
  <2>. QED  BY <1>2, <1>8, <2>1 DEF IsList
<1>16. Walks'
  BY <1>13 DEF Walks
<1>. QED  BY <1>10, <1>11, <1>12, <1>14, <1>15, <1>16

-----------------------------------------------------------------------------
(* Reports.                                                                *)

LEMMA WalkKeeps ==
  ASSUME TrackerAssumption, TrackerInv, NEW t \in ArenaThreads, iterate(t)
  PROVE  TrackerInv'
<1>. USE DEF TrackerInv
<1>1. LocalTasks(t) /\ StepAgrees(t) /\ LocalHolds(t)
  BY DEF Local
<1>2. /\ "walk" \in todo[t] /\ {"init", "warm", "own"} \cap todo[t] = {}
      /\ mutex = Nil /\ mutex' = t
      /\ cursor' = [cursor EXCEPT ![t] = head] /\ reported' = [reported EXCEPT ![t] = {}]
      /\ todo' = [todo EXCEPT ![t] = {"visit"}]
      /\ UNCHANGED <<initialized, list, alive, mine, step, hand, made>>
  BY First DEF iterate
<1>3. /\ Others(t) /\ todo'[t] = {"visit"} /\ cursor'[t] = head /\ reported'[t] = {}
      /\ alive' = alive /\ head' = head /\ tail' = tail /\ next' = next /\ prev' = prev
      /\ step' = step /\ hand' = hand /\ owned' = owned /\ scratch' = scratch /\ second' = second
      /\ initialized' = initialized
  BY <1>2 DEF TrackerTypeOK, Others, list, mine
<1>4. Up
  <2>1. todo[t] # {} /\ {"init", "gone"} \cap todo[t] = {}
    BY <1>1, <1>2 DEF LocalTasks
  <2>. QED  BY <2>1, Phase
<1>5. LocalOf(t)'
  <2>1. LocalTasks(t)'
    BY <1>3 DEF LocalTasks
  <2>2. StepAgrees(t)'
    BY <1>1, <1>2, <1>3 DEF StepAgrees, LocalTasks
  <2>3. LocalHolds(t)'
    BY <1>1, <1>2, <1>3 DEF LocalHolds
  <2>. QED  BY <2>1, <2>2, <2>3 DEF LocalOf
<1>6. Mine(t)' = Mine(t) /\ Away(t)' = Away(t)
  BY <1>3 DEF Mine, Away, Victim
<1>7. Local' /\ Shares' /\ Members' = Members
  BY <1>3, <1>5, <1>6, TaskStep
<1>8. TrackerTypeOK'
  BY <1>2, <1>3, TaskNames DEF TrackerTypeOK
<1>9. Phases'
  <2>1. {"init", "gone"} \cap todo'[Main] = {}
    BY <1>3, <1>4 DEF Others, Up, TrackerAssumption
  <2>2. \A u \in ArenaThreads : mutex' = u <=> "visit" \in todo'[u]
    <3>1. \A u \in ArenaThreads : "visit" \notin todo[u]
      BY <1>2 DEF Phases, TrackerAssumption
    <3>. QED  BY <1>2, <1>3, <3>1 DEF Others
  <2>. QED  BY <1>3, <1>4, <2>1, <2>2, StaysUp
<1>10. IsList(Members)'
  BY <1>3, <1>7, SameList
<1>11. Walks'
  BY <1>2, <1>3, <1>7 DEF Walks, IsList
<1>. QED  BY <1>7, <1>8, <1>9, <1>10, <1>11

LEMMA VisitKeeps ==
  ASSUME TrackerAssumption, TrackerInv, NEW t \in ArenaThreads, visit(t)
  PROVE  TrackerInv'
<1>. USE DEF TrackerInv
<1>1. LocalTasks(t) /\ StepAgrees(t) /\ LocalHolds(t)
  BY DEF Local
<1>2. /\ "visit" \in todo[t] /\ todo[t] = {"visit"} /\ second[t] # Nil /\ scratch[t] # Nil
      /\ UNCHANGED <<initialized, list, alive, mine, step, hand, made>>
  BY <1>1, First DEF visit, LocalTasks, LocalHolds
<1>3. mutex = t
  BY <1>2 DEF Phases
<1>4. Up
  BY <1>2, Phase
<1>5. /\ alive' = alive /\ head' = head /\ tail' = tail /\ next' = next /\ prev' = prev
      /\ step' = step /\ hand' = hand /\ owned' = owned /\ scratch' = scratch /\ second' = second
      /\ initialized' = initialized
  BY <1>2 DEF list, mine
<1>6. CASE cursor[t] = Nil
  <2>1. /\ todo' = [todo EXCEPT ![t] = @ \ {"visit"}] /\ mutex' = Nil
        /\ cursor' = cursor /\ reported' = reported
    BY <1>6 DEF visit, Done
  <2>2. Others(t) /\ todo'[t] = {}
    BY <1>2, <1>5, <2>1 DEF Others, TrackerTypeOK
  <2>3. LocalOf(t)'
    <3>1. LocalTasks(t)'
      BY <2>2 DEF LocalTasks
    <3>2. StepAgrees(t)'
      BY <1>1, <1>2, <1>5, <2>2 DEF StepAgrees
    <3>3. LocalHolds(t)'
      BY <1>1, <1>5, <2>2 DEF LocalHolds
    <3>. QED  BY <3>1, <3>2, <3>3 DEF LocalOf
  <2>4. Mine(t)' = Mine(t) /\ Away(t)' = Away(t)
    BY <1>5 DEF Mine, Away, Victim
  <2>5. Local' /\ Shares' /\ Members' = Members
    BY <1>5, <2>2, <2>3, <2>4, TaskStep
  <2>6. TrackerTypeOK'
    BY <1>5, <2>1 DEF TrackerTypeOK
  <2>7. Phases'
    <3>1. {"init", "gone"} \cap todo'[Main] = {}
      BY <1>4, <2>2 DEF Others, Up, TrackerAssumption
    <3>2. \A u \in ArenaThreads : mutex' = u <=> "visit" \in todo'[u]
      <4>1. \A u \in ArenaThreads : u # t => "visit" \notin todo[u]
        BY <1>3 DEF Phases
      <4>. QED  BY <2>1, <2>2, <4>1 DEF Others, TrackerAssumption
    <3>. QED  BY <1>4, <1>5, <3>1, <3>2, StaysUp
  <2>8. IsList(Members)'
    BY <1>5, <2>5, SameList
  <2>9. Walks'
    BY <2>1 DEF Walks, TrackerAssumption
  <2>. QED  BY <2>5, <2>6, <2>7, <2>8, <2>9
<1>7. CASE cursor[t] # Nil
  <2>1. /\ reported' = [reported EXCEPT ![t] = @ \cup {cursor[t]}]
        /\ cursor' = [cursor EXCEPT ![t] = next[cursor[t]]]
        /\ mutex' = mutex /\ todo' = todo
    BY <1>2, <1>7 DEF visit
  <2>2. cursor[t] \in Members /\ cursor[t] \in Arenas /\ next[cursor[t]] \in Members \cup {Nil}
    BY <1>3, <1>7, MembersType DEF Walks, IsList
  <2>3. Others(t) /\ todo'[t] = todo[t] /\ cursor'[t] = next[cursor[t]] /\ reported'[t] = reported[t] \cup {cursor[t]}
    BY <1>5, <2>1 DEF Others, TrackerTypeOK
  <2>4. LocalOf(t)'
    <3>1. LocalTasks(t)'
      BY <1>1, <1>5, <2>1 DEF LocalTasks
    <3>2. StepAgrees(t)'
      BY <1>1, <1>5, <2>1 DEF StepAgrees
    <3>3. LocalHolds(t)'
      BY <1>1, <1>5, <2>1 DEF LocalHolds
    <3>. QED  BY <3>1, <3>2, <3>3 DEF LocalOf
  <2>5. Mine(t)' = Mine(t) /\ Away(t)' = Away(t)
    BY <1>5 DEF Mine, Away, Victim
  <2>6. Local' /\ Shares' /\ Members' = Members /\ \A u \in ArenaThreads : Mine(u)' = Mine(u)
    BY <1>5, <2>3, <2>4, <2>5, TaskStep
  <2>7. TrackerTypeOK'
    <3>1. cursor' \in [ArenaThreads -> Arenas \cup {Nil}]
      BY <2>1, <2>2 DEF TrackerTypeOK
    <3>2. reported' \in [ArenaThreads -> SUBSET Arenas]
      BY <2>1, <2>2 DEF TrackerTypeOK
    <3>. QED  BY <1>5, <2>1, <3>1, <3>2 DEF TrackerTypeOK
  <2>8. Phases'
    BY <1>4, <1>5, <2>1, StaysUp DEF Phases, Up
  <2>9. IsList(Members)'
    BY <1>5, <2>6, SameList
  <2>10. Walks'
    BY <1>3, <2>1, <2>2, <2>3, <2>6 DEF Walks
  <2>. QED  BY <2>6, <2>7, <2>8, <2>9, <2>10
<1>. QED  BY <1>6, <1>7

-----------------------------------------------------------------------------
LEMMA TrackerInitiates ==
  ASSUME TrackerAssumption, TrackerInit
  PROVE  TrackerInv
<1>. USE DEF TrackerInit
<1>1. TrackerTypeOK
  BY DEF TrackerTypeOK
<1>2. Local
  BY DEF Local, LocalTasks, StepAgrees, LocalHolds
<1>3. \A t \in ArenaThreads : Mine(t) = {}
  BY DEF Mine
<1>4. Phases
  BY <1>3 DEF Phases, TrackerAssumption
<1>5. Shares
  BY <1>3 DEF Shares
<1>6. IsList(Members)
  <2>1. Members = {}
    BY DEF Members
  <2>. QED  BY <2>1 DEF IsList, Leads
<1>7. Walks
  BY DEF Walks, TrackerAssumption
<1>. QED  BY <1>1, <1>2, <1>4, <1>5, <1>6, <1>7 DEF TrackerInv

LEMMA TrackerKeeps ==
  ASSUME TrackerAssumption, InitFirst, TrackerInv, [TrackerNext]_tracker_vars
  PROVE  TrackerInv'
<1>1. ASSUME NEW t \in ArenaThreads,
             \/ arena_new_(t) \/ arena_tracker_init(t) \/ tracker_reset(t) \/ arena_tracker_register(t)
             \/ scratch_returns(t) \/ arena_tracker_unregister(t) \/ release_range_os(t)
             \/ iterate(t) \/ visit(t) \/ arena_tracker_destroy(t)
             \/ Uses(t) \/ arena_scratch_destroy(t) \/ arena_destroy(t)
      PROVE  TrackerInv'
  BY <1>1, NewKeeps, TrackerInitKeeps, ResetKeeps, RegisterKeeps, ReturnsKeeps, UnregisterKeeps, ReleaseKeeps,
     WalkKeeps, VisitKeeps, GoneKeeps, UsesKeeps, ScratchDestroyKeeps, DestroyKeeps
<1>2. CASE tracker_up \/ tracker_down
  BY <1>2, UpKeeps, DownKeeps
<1>3. CASE UNCHANGED tracker_vars
  <2>1. /\ UNCHANGED <<initialized, mutex, head, tail, next, prev, alive, owned, scratch, second, todo, step, hand,
                       cursor, reported>>
    BY <1>3 DEF tracker_vars, list, mine
  <2>2. /\ TrackerTypeOK' /\ \A t : Mine(t)' = Mine(t) /\ Away(t)' = Away(t)
    BY <2>1 DEF TrackerInv, TrackerTypeOK, Mine, Away, Victim
  <2>3. Local'
    BY <2>1 DEF TrackerInv, Local, LocalTasks, StepAgrees, LocalHolds
  <2>4. Phases' /\ Shares' /\ Members' = Members
    BY <2>1, <2>2 DEF TrackerInv, Phases, Shares, Members
  <2>5. IsList(Members)'
    BY <2>1, <2>4, SameList DEF TrackerInv
  <2>6. Walks'
    BY <2>1, <2>4 DEF TrackerInv, Walks
  <2>. QED  BY <2>2, <2>3, <2>4, <2>5, <2>6 DEF TrackerInv
<1>. QED  BY <1>1, <1>2, <1>3 DEF TrackerNext

LEMMA TrackerListed ==
  ASSUME TrackerAssumption, TrackerInv
  PROVE  ArenasAreListed
<1>. USE DEF TrackerInv
<1>1. Members = Registered
  BY MembersType, ListIsRegistered
<1>2. ListIsExact
  BY <1>1 DEF ListIsExact, IsList, Members
<1>3. WalksAreSafe
  <2>. SUFFICES ASSUME NEW t \in ArenaThreads, mutex = t
                PROVE  cursor[t] \in alive \cup {Nil} /\ reported[t] \subseteq alive /\ ~Waits(t)
    BY DEF WalksAreSafe
  <2>1. cursor[t] \in alive \cup {Nil} /\ reported[t] \subseteq alive
    BY DEF Walks, Members
  <2>2. "visit" \in todo[t] /\ todo[t] \subseteq {"visit"} /\ StepAgrees(t)
    BY DEF Phases, Local, LocalTasks
  <2>3. step[t] # "push"
    BY <2>2 DEF StepAgrees
  <2>4. ~Drops(t) /\ ~Does(t, "walk")
    BY <2>2, First DEF Drops
  <2>. QED  BY <2>1, <2>3, <2>4 DEF Waits
<1>. QED  BY <1>2, <1>3 DEF ArenasAreListed

(* The invariant of the list of arenas, when fl_init comes first.          *)
THEOREM TrackerInvariantAlways ==
  ASSUME InitFirst
  PROVE  TrackerSpec => []TrackerInv
<1>1. TrackerInit => TrackerInv
  BY TrackerAssumption, TrackerInitiates
<1>2. TrackerInv /\ [TrackerNext]_tracker_vars => TrackerInv'
  BY TrackerAssumption, TrackerKeeps
<1>. QED  BY <1>1, <1>2, PTL DEF TrackerSpec

(* The list is exactly the live arenas and its walks are safe, for any     *)
(* number of threads, addresses and calls, when fl_init comes first.       *)
THEOREM ArenasAreListedAlways ==
  ASSUME InitFirst
  PROVE  TrackerSpec => []ArenasAreListed
<1>1. TrackerInv => ArenasAreListed
  BY TrackerAssumption, TrackerListed
<1>. QED  BY <1>1, TrackerInvariantAlways, PTL
=============================================================================
