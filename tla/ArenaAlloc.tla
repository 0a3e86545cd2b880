----------------------------- MODULE ArenaAlloc -----------------------------
(***************************************************************************)
(* One arena of src/core/arena.c: a reserved range of addresses, of which  *)
(* a prefix is committed, filled from the bottom.  arena_alloc_raw may be  *)
(* called by any number of threads at once, so each of its accesses to     *)
(* pos, committed_size and peak_offset, and each call to the system, is a  *)
(* step of its own.  The other operations store pos without a compare and  *)
(* swap; their callers hold the arena alone, and so they are one step here *)
(* that no allocation overlaps.  Offsets are unsigned words: they wrap.    *)
(***************************************************************************)
EXTENDS Integers, Sequences, FiniteSets

CONSTANTS
  Threads,
  Word,         (* 2^64 in the program                                      *)
  PageSize,
  Header,       (* ARENA_SIZE: the arena's own header at its base           *)
  Reserved,     (* reserved_size                                            *)
  Sizes,        (* sizes requested                                          *)
  Alignments,   (* alignments requested                                     *)
  MaxRequest,   (* a request and its padding fit into this                  *)
  MaxCalls,     (* bound: calls in a behaviour                              *)
  MaxScopes     (* bound: nested temporary scopes                           *)

(* A byte offset rounded up to a multiple, in word arithmetic.             *)
AlignUp(p, a) == (IF p % a = 0 THEN p ELSE p + (a - (p % a))) % Word

ASSUME ConstantsOK ==
  /\ IsFiniteSet(Threads) /\ Threads # {}
  /\ PageSize \in Nat \ {0} /\ MaxRequest \in Nat /\ Header \in Nat /\ Reserved \in Nat /\ Word \in Nat
  /\ 0 < Header /\ AlignUp(Header, PageSize) \in Header..Reserved
  /\ Sizes \subseteq Nat /\ Sizes # {} /\ Alignments \subseteq Nat \ {0} /\ Alignments # {}
  /\ MaxCalls \in Nat /\ MaxScopes \in Nat

(* Requests are ordinary, or so large that no position lets them pass the  *)
(* overflow test.  In between are sizes that pass it and carry pos so far  *)
(* beyond the reservation that another thread's rounding up would wrap     *)
(* while the first is on its way to exit: no caller asks for such a size.  *)
ASSUME RequestsOK ==
  /\ \A s \in Sizes, a \in Alignments : s + a <= MaxRequest \/ s > Word - 1 - Header
  /\ \A a \in Alignments : a <= MaxRequest
  /\ Reserved + MaxRequest * Cardinality(Threads) + PageSize < Word

VARIABLES
  pc,         (* where each thread is in arena_alloc_raw                    *)
  req,        (* the size and alignment it asked for                        *)
  cur,        (* current_pos as it loaded it                                *)
  seen,       (* current_committed, then current_peak, as it loaded it      *)
  pos, committed, peak, floor,      (* fields of FlArena                    *)
  mapped,     (* bytes of the range the system has made accessible          *)
  scopes,     (* open temporary scopes: the positions they saved, oldest first *)
  live,       (* blocks handed out and not given back                       *)
  up,         (* neither destroyed nor has the process exited               *)
  calls       (* counter of the bound                                       *)

caller == <<pc, req, cur, seen>>
arena  == <<pos, committed, peak, floor, mapped>>
vars   == <<caller, arena, scopes, live, up, calls>>

Request == [size : Sizes, align : Alignments]

(* arena_new_                                                              *)
Init ==
  /\ pc = [t \in Threads |-> "out"]
  /\ req \in [Threads -> {CHOOSE r \in Request : TRUE}]
  /\ cur = [t \in Threads |-> 0] /\ seen = [t \in Threads |-> 0]
  /\ pos = Header /\ peak = Header /\ floor = Header
  /\ committed = AlignUp(Header, PageSize)
  /\ mapped = 0..(committed - 1)
  /\ scopes = <<>> /\ live = {} /\ up = TRUE /\ calls = 0

Goto(t, from, to) == up /\ pc[t] = from /\ pc' = [pc EXCEPT ![t] = to]

(* The block a call is after, were cur still the position.                 *)
Lo(t) == AlignUp(cur[t], req[t].align)
Hi(t) == (Lo(t) + req[t].size) % Word
Claim(t) == [lo |-> Lo(t), hi |-> Hi(t)]

(* The commit boundary that covers offset h.                               *)
Boundary(h) == AlignUp(h, PageSize)

-----------------------------------------------------------------------------
(* arena_alloc_raw                                                         *)

Call(t, r) ==
  /\ Goto(t, "out", "load") /\ req' = [req EXCEPT ![t] = r]
  /\ calls < MaxCalls /\ calls' = calls + 1
  /\ UNCHANGED <<cur, seen, arena, scopes, live, up>>

(* Mutant: no test for a size that wraps.                                  *)
LoadPosUnguarded(t) ==
  /\ Goto(t, "load", "claim") /\ cur' = [cur EXCEPT ![t] = pos]
  /\ UNCHANGED <<req, seen, arena, scopes, live, up, calls>>

(* A size that would wrap past the end of the word is fatal.               *)
LoadPos(t) ==
  /\ LET lo == AlignUp(pos, req[t].align)
     IN  IF req[t].size > Word - 1 - lo
         THEN Goto(t, "load", "fatal") /\ UNCHANGED cur
         ELSE Goto(t, "load", "claim") /\ cur' = [cur EXCEPT ![t] = pos]
  /\ UNCHANGED <<req, seen, arena, scopes, live, up, calls>>

(* Mutant: the position is stored, not compared and swapped.               *)
ClaimPosByStore(t) ==
  /\ Goto(t, "claim", "check")
  /\ pos' = Hi(t)
  /\ UNCHANGED <<req, cur, seen, committed, peak, floor, mapped, scopes, live, up, calls>>

ClaimPos(t) ==
  /\ Goto(t, "claim", "check") /\ pos = cur[t]
  /\ pos' = Hi(t)
  /\ UNCHANGED <<req, cur, seen, committed, peak, floor, mapped, scopes, live, up, calls>>

(* The weak compare and swap failed, or another thread was faster.         *)
ClaimFails(t) ==
  /\ Goto(t, "claim", "load")
  /\ UNCHANGED <<req, cur, seen, arena, scopes, live, up, calls>>

(* Mutant: the start of the block is compared with committed_size.         *)
CheckCommittedStart(t) ==
  /\ \/ Lo(t) <= committed /\ Goto(t, "check", "peak")
     \/ Lo(t) > committed /\ Boundary(Hi(t)) > Reserved /\ Goto(t, "check", "fatal")
     \/ Lo(t) > committed /\ Boundary(Hi(t)) <= Reserved /\ Goto(t, "check", "commit")
  /\ seen' = [seen EXCEPT ![t] = committed]
  /\ UNCHANGED <<req, cur, arena, scopes, live, up, calls>>

CheckCommitted(t) ==
  /\ \/ Hi(t) <= committed /\ Goto(t, "check", "peak")
     \/ Hi(t) > committed /\ Boundary(Hi(t)) > Reserved /\ Goto(t, "check", "fatal")
     \/ Hi(t) > committed /\ Boundary(Hi(t)) <= Reserved /\ Goto(t, "check", "commit")
  /\ seen' = [seen EXCEPT ![t] = committed]
  /\ UNCHANGED <<req, cur, arena, scopes, live, up, calls>>

(* Mutant: only the pages of the block itself are committed.               *)
CommitBlock(t) ==
  /\ Goto(t, "commit", "publish")
  /\ mapped' = mapped \union Lo(t)..(Boundary(Hi(t)) - 1)
  /\ UNCHANGED <<req, cur, seen, pos, committed, peak, floor, scopes, live, up, calls>>

(* commit_memory_os(ptr + current_committed, ...) may fail.                *)
Commit(t) ==
  /\ \/ /\ Goto(t, "commit", "publish")
        /\ mapped' = mapped \union seen[t]..(Boundary(Hi(t)) - 1)
     \/ Goto(t, "commit", "fatal") /\ UNCHANGED mapped
  /\ UNCHANGED <<req, cur, seen, pos, committed, peak, floor, scopes, live, up, calls>>

(* Mutant: committed_size is stored, not compared and swapped.             *)
PublishByStore(t) ==
  /\ Goto(t, "publish", "check")
  /\ committed' = Boundary(Hi(t))
  /\ UNCHANGED <<req, cur, seen, pos, peak, floor, mapped, scopes, live, up, calls>>

(* Mutant: a failed swap is tried again with the stale committed_size.     *)
PublishWithoutReload(t) ==
  /\ Goto(t, "publish", IF committed = seen[t] THEN "check" ELSE "commit")
  /\ committed' = IF committed = seen[t] THEN Boundary(Hi(t)) ELSE committed
  /\ UNCHANGED <<req, cur, seen, pos, peak, floor, mapped, scopes, live, up, calls>>

Publish(t) ==
  /\ Goto(t, "publish", "check")
  /\ committed' = IF committed = seen[t] THEN Boundary(Hi(t)) ELSE committed
  /\ UNCHANGED <<req, cur, seen, pos, peak, floor, mapped, scopes, live, up, calls>>

LoadPeak(t) ==
  /\ Goto(t, "peak", "raise")
  /\ seen' = [seen EXCEPT ![t] = peak]
  /\ UNCHANGED <<req, cur, arena, scopes, live, up, calls>>

Return(t) == Goto(t, "raise", "out") /\ live' = live \union {Claim(t)}

(* Mutant: peak_offset is stored, not compared and swapped.                *)
RaisePeakByStore(t) ==
  /\ Hi(t) > seen[t] /\ peak' = Hi(t)
  /\ Return(t)
  /\ UNCHANGED <<req, cur, seen, pos, committed, floor, mapped, scopes, up, calls>>

RaisePeak(t) ==
  /\ Hi(t) > seen[t] /\ peak = seen[t] /\ peak' = Hi(t)
  /\ Return(t)
  /\ UNCHANGED <<req, cur, seen, pos, committed, floor, mapped, scopes, up, calls>>

RaiseFails(t) ==
  /\ up /\ pc[t] = "raise" /\ Hi(t) > seen[t]
  /\ seen' = [seen EXCEPT ![t] = peak]
  /\ UNCHANGED <<pc, req, cur, arena, scopes, live, up, calls>>

PeakIsHigher(t) ==
  /\ Hi(t) <= seen[t]
  /\ Return(t)
  /\ UNCHANGED <<req, cur, seen, arena, scopes, up, calls>>

(* log_fatal, fl_log_flush, exit: the others run on until the exit.        *)
Exit(t) ==
  /\ up /\ pc[t] = "fatal" /\ up' = FALSE
  /\ UNCHANGED <<caller, arena, scopes, live, calls>>

Alloc(t) ==
  \/ \E r \in Request : Call(t, r)
  \/ LoadPos(t) \/ ClaimPos(t) \/ ClaimFails(t)
  \/ CheckCommitted(t) \/ Commit(t) \/ Publish(t)
  \/ LoadPeak(t) \/ RaisePeak(t) \/ RaiseFails(t) \/ PeakIsHigher(t)
  \/ Exit(t)

-----------------------------------------------------------------------------
(* The operations of a caller that holds the arena alone.                  *)

Alone ==
  /\ up /\ \A t \in Threads : pc[t] = "out"
  /\ calls < MaxCalls /\ calls' = calls + 1
  /\ UNCHANGED caller

(* Commits up to h as arena_align and arena_alloc_raw_st do; they exit     *)
(* when the reservation is used up or the system refuses.                  *)
Ensure(h) ==
  IF h <= committed
  THEN up' = up /\ UNCHANGED <<committed, mapped>>
  ELSE \/ /\ Boundary(h) <= Reserved /\ up' = up
          /\ committed' = Boundary(h)
          /\ mapped' = mapped \union committed..(Boundary(h) - 1)
       \/ up' = FALSE /\ UNCHANGED <<committed, mapped>>

AllocSt(r) ==
  LET lo == AlignUp(pos, r.align)
      hi == (lo + r.size) % Word
  IN  /\ Alone
      /\ IF r.size > Word - 1 - lo
         THEN up' = FALSE /\ UNCHANGED <<committed, mapped>>
         ELSE Ensure(hi)
      /\ IF up'
         THEN /\ pos' = hi
              /\ peak' = IF hi > peak THEN hi ELSE peak
              /\ live' = live \union {[lo |-> lo, hi |-> hi]}
         ELSE UNCHANGED <<pos, peak, live>>
      /\ UNCHANGED <<floor, scopes>>

Align(a) ==
  LET p == AlignUp(pos, a)
  IN  /\ Alone
      /\ IF p < pos THEN up' = FALSE /\ UNCHANGED <<committed, mapped>> ELSE Ensure(p)
      /\ pos' = IF up' THEN p ELSE pos
      /\ UNCHANGED <<peak, floor, scopes, live>>

(* What lies above the mark is given back.                                 *)
GiveBack(mark) == live' = {b \in live : b.hi <= mark}

TempBegin ==
  /\ Alone /\ Len(scopes) < MaxScopes
  /\ scopes' = Append(scopes, pos)
  /\ UNCHANGED <<arena, live, up>>

TempEnd ==
  /\ Alone /\ scopes # <<>>
  /\ pos' = scopes[Len(scopes)]
  /\ scopes' = SubSeq(scopes, 1, Len(scopes) - 1)
  /\ GiveBack(pos')
  /\ UNCHANGED <<committed, peak, floor, mapped, up>>

Rewind ==
  /\ Alone
  /\ pos' = floor /\ GiveBack(floor)
  /\ UNCHANGED <<committed, peak, floor, mapped, scopes, up>>

(* Mutant: the target is not clamped to the rewind floor.                  *)
RewindToUnclamped(p) ==
  /\ Alone
  /\ pos' = IF pos > p THEN p ELSE pos
  /\ GiveBack(pos')
  /\ UNCHANGED <<committed, peak, floor, mapped, scopes, up>>

(* To a pointer into the arena, which another rewind may have overtaken.   *)
RewindTo(p) ==
  LET target == IF p < floor THEN floor ELSE p
  IN  /\ Alone
      /\ pos' = IF pos > target THEN target ELSE pos
      /\ GiveBack(pos')
      /\ UNCHANGED <<committed, peak, floor, mapped, scopes, up>>

(* The bytes given back were allocated: they lie above the floor.          *)
Compact(n) ==
  /\ Alone /\ n <= pos - floor
  /\ pos' = pos - n /\ GiveBack(pos')
  /\ UNCHANGED <<committed, peak, floor, mapped, scopes, up>>

(* arena_pin_rewind_floor, and arena_mt_new_ once it has its wrapper.      *)
PinFloor ==
  /\ Alone /\ scopes = <<>> /\ floor' = pos
  /\ UNCHANGED <<pos, committed, peak, mapped, scopes, live, up>>

Destroy ==
  /\ Alone /\ scopes = <<>>
  /\ mapped' = {} /\ live' = {} /\ up' = FALSE
  /\ UNCHANGED <<pos, committed, peak, floor, scopes>>

Sole ==
  \/ \E r \in Request : AllocSt(r)
  \/ \E a \in Alignments : Align(a)
  \/ TempBegin \/ TempEnd \/ Rewind \/ PinFloor \/ Destroy
  \/ \E p \in Header..Reserved : RewindTo(p)
  \/ \E n \in 1..Reserved : Compact(n)

Next == (\E t \in Threads : Alloc(t)) \/ Sole

(* Every thread is scheduled; a compare and swap that finds the expected   *)
(* value again and again does not fail for ever.                           *)
Fairness ==
  \A t \in Threads :
    /\ WF_vars(LoadPos(t) \/ ClaimFails(t) \/ CheckCommitted(t) \/ Commit(t)
                \/ Publish(t) \/ LoadPeak(t) \/ RaiseFails(t) \/ PeakIsHigher(t) \/ Exit(t))
    /\ SF_vars(ClaimPos(t)) /\ SF_vars(RaisePeak(t))

Spec == Init /\ [][Next]_vars
FairSpec == Spec /\ Fairness

-----------------------------------------------------------------------------
Claimed == {t \in Threads : pc[t] \in {"check", "commit", "publish", "peak", "raise"}}

(* Every variable holds values of its kind (the fields of FlArena).        *)
TypeOK ==
  /\ pc \in [Threads -> {"out", "load", "claim", "check", "commit", "publish",
                         "peak", "raise", "fatal"}]
  /\ req \in [Threads -> Request]
  /\ cur \in [Threads -> Nat] /\ seen \in [Threads -> Nat]
  /\ pos \in Nat /\ committed \in Nat /\ peak \in Nat /\ floor \in Nat
  /\ mapped \subseteq Nat /\ scopes \in Seq(Nat)
  /\ live \subseteq [lo : Nat, hi : Nat]
  /\ up \in BOOLEAN /\ calls \in Nat

Apart(a, b) == a.hi <= b.lo \/ b.hi <= a.lo

(* No byte belongs to two blocks, be they handed out or claimed by a call  *)
(* under way, and none to the arena's header: the compare and swap on pos  *)
(* in arena_alloc_raw, against all that moves pos back.                    *)
BlocksAreApart ==
  /\ \A a, b \in live : a = b \/ Apart(a, b)
  /\ \A t \in Claimed : \A b \in live : Apart(Claim(t), b)
  /\ \A t, u \in Claimed : t = u \/ Apart(Claim(t), Claim(u))
  /\ \A b \in live : Header <= b.lo

(* A block handed out is accessible memory, whoever committed its pages.   *)
BlocksAreUsable ==
  \A b \in live : b.lo..(b.hi - 1) \subseteq mapped /\ b.hi <= Reserved

(* committed_size never runs ahead of commit_memory_os: a thread that finds *)
(* its block below committed_size commits nothing itself.                  *)
CommittedIsMapped == up => 0..(committed - 1) \subseteq mapped

(* Threads that commit at the same time never take back committed pages.   *)
CommittedNeverShrinks == [][committed' >= committed]_vars

(* peak_offset is a high-water mark: it covers every block handed out and  *)
(* no race of two updates lowers it.                                       *)
PeakIsHighWater ==
  [][peak' >= peak /\ \A b \in live' : b.hi <= peak']_vars

(* A block below the rewind floor stays valid for as long as the arena     *)
(* does, whatever is rewound (arena_pin_rewind_floor, arena_rewind_to).    *)
PinnedBlocksSurvive ==
  [][\A b \in live : b.hi <= floor /\ up' => b \in live' /\ b.hi <= floor']_vars

(* Every allocation returns, or the process exits: the retry loops of      *)
(* arena_alloc_raw end.                                                    *)
AllocationsReturn ==
  \A t \in Threads : pc[t] # "out" ~> (pc[t] = "out" \/ ~up)

(* arena_alloc_raw hands out fresh memory, as ArenaAbstract promises.      *)
Promise == INSTANCE ArenaAbstract WITH blocks <- live, Base <- Header, Limit <- Reserved
FreshMemory == Promise!Spec
=============================================================================
