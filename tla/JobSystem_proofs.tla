-------------------------- MODULE JobSystem_proofs --------------------------
(***************************************************************************)
(* Proofs about JobSystem, for any number of threads, jobs, queues and     *)
(* slots: no job runs twice, the free list is sound and what               *)
(* fl_jobs_is_finished answers is true.                                    *)
(*                                                                         *)
(* The argument is about who has a slot to himself.  Every step replaces   *)
(* the top frames of one thread; a quiet step leaves the slots as they     *)
(* are, and any other step is about one slot, which no other frame holds.  *)
(***************************************************************************)
EXTENDS JobSystem, FiniteSetTheorems, SequenceTheorems, TLAPS

-----------------------------------------------------------------------------
(* Frames, counted from the bottom of a stack, where a position keeps its  *)
(* frame until the frames above it are gone.                               *)

Depth(t) == Len(stack[t])
Fr(t, k) == stack[t][Len(stack[t]) - k + 1]

(* The frames that have a slot to themselves: its submitter until it is    *)
(* published or parked, whoever runs its job, and whoever frees it.        *)
FillPCs == {"fill", "depstatus", "publish", "park"}
RunPCs  == {"begin", "body", "drain", "walk", "promote"}
Fills(f) == f.pc \in FillPCs
Holds(f) == f.pc \in FillPCs \union RunPCs \union {"push"}

Filled(s) == \E t \in Threads : \E k \in 1..Depth(t) : Fills(Fr(t, k)) /\ Fr(t, k).job = s

(* A slot may be referred to once its first job is published, and a handle *)
(* once its job is: a slot that is being filled has a newer generation.    *)
Now(s)   == <<s, generation[s]>>
Born(s)  == s \in 1..total /\ (Filled(s) => generation[s] >= 2)
Known(h) == /\ h \in Handles /\ h[1] \in 1..total /\ h[2] <= generation[h[1]]
            /\ Filled(h[1]) => h[2] < generation[h[1]]

(* A holder finds its slot in the state that it left it in.                *)
HolderOK(f) ==
  /\ f.pc \in FillPCs =>
       /\ f.job \in 1..total /\ f.own = Now(f.job)
       /\ status[f.job] = "free" \/ (status[f.job] = "not_started" /\ generation[f.job] = 1)
       /\ f.pc # "fill" => function[f.job] = Now(f.job) /\ phase[Now(f.job)] = "pending"
  /\ f.pc = "begin" => status[f.job] = "claimed" /\ phase[Now(f.job)] = "pending"
  /\ f.pc = "body" => /\ status[f.job] = "claimed" /\ f.own = Now(f.job)
                      /\ phase[Now(f.job)] = "running"
  /\ f.pc \in {"drain", "walk", "promote"} => status[f.job] = "promoting"
  /\ f.pc = "push" => status[f.job] = "free"

(* What frames refer to.                                                   *)
JobLess == {"depgen", "alloc", "scan", "pollgen", "setgen"}
FrameOK(f) ==
  /\ f.pc \in FillPCs \/ f.job = Null \/ Born(f.job)
  /\ f.pc \in JobLess \/ f.job # Null
  /\ f.cur = Null \/ Born(f.cur)
  /\ f.next = Null \/ Born(f.next)
  /\ f.arg = NoHandle \/ Known(f.arg)
  /\ f.pc \in {"depgen", "setgen"} => f.arg # NoHandle
  /\ f.pc \in {"link", "prepend", "recheck", "selfpromote", "added"} => Known(f.own)
  /\ f.pc \in {"depstatus", "park", "link", "prepend", "recheck", "promote"} => f.cur # Null
  /\ f.pc \in {"scan", "match", "claim"} => f.prio \in Levels

(* What a poll has seen of a job that was finished, or not, stays true.    *)
PollOK(f) ==
  /\ f.pc \in Polling => f.arg # NoHandle
  /\ f.pc \in Polling \ {"pollgen"} => f.job = f.arg[1]
  /\ f.pc \in {"pollgen", "pollstatus"} /\ f.late /\ Live(f.arg) => status[f.arg[1]] \in Finished
  /\ f.pc \in {"pollagain", "recycle", "push", "answer"} /\ (f.pc = "pollagain" => Live(f.arg)) =>
       /\ f.late => f.seen \in Finished
       /\ f.seen \in Finished => phase[f.arg] = "done"

(* The phase of a slot's job follows from its status.                      *)
SlotOK(s) ==
  /\ generation[s] >= 1
  /\ ~Filled(s) =>
       /\ function[s] = Now(s)
       /\ status[s] \in {"not_started", "waiting"} => phase[Now(s)] = "pending"
       /\ status[s] \in {"promoting", "completed", "free"} => phase[Now(s)] = "done"

(* Slots that a queue or a list refers to.                                 *)
Referred(s) == \/ \E p \in Levels : \E i \in 1..Len(queue[p]) : queue[p][i] = s
               \/ \E x \in Slots : s \in {first_dependent[x], next_dependent[x]}

(* Where a call that goes on above a frame was made.                        *)
CallPCs == {"body", "walk", "added"}

(* Submitters that have yet to take a slot and a generation.               *)
AllocPCs   == {"depgen", "alloc"}
Allocating == {t \in Threads : \E k \in 1..Depth(t) : Fr(t, k).pc \in AllocPCs}

FrOK(f) == HolderOK(f) /\ FrameOK(f) /\ PollOK(f)

(* TypeOK without the stacks, and for the stacks.                          *)
StackTypeOK == stack \in [Threads -> Seq(Frame)]
DataOK ==
  /\ status \in [Slots -> Statuses] /\ generation \in [Slots -> Nat]
  /\ function \in [Slots -> Handles \union {NoHandle}]
  /\ first_dependent \in [Slots -> Slots \union {Null}]
  /\ next_dependent \in [Slots -> Slots \union {Null}]
  /\ priority \in [Slots -> Nat]
  /\ freeList \in Seq(Slots) /\ total \in Nat
  /\ queue \in [Levels -> Seq(Slots)]
  /\ issued \subseteq Handles /\ adds \in 0..MaxJobs /\ sets \in 0..MaxSets
  /\ phase \in [Handles -> {"none", "pending", "running", "done", "again"}]
  /\ dep \in [Handles -> Handles \union {NoHandle}]

CountOK   == /\ total + Cardinality(Allocating) <= adds
             /\ \A s \in Slots : generation[s] + Cardinality(Allocating) <= adds
StacksOK  == \A t \in Threads : \A k \in 1..Depth(t) - 1 : Fr(t, k).pc \in CallPCs
FramesOK  == \A t \in Threads, f \in Frame : \A k \in 1..Depth(t) : f = Fr(t, k) => FrOK(f)
HoldersOK == \A t, u \in Threads : \A k \in 1..Depth(t), l \in 1..Depth(u) :
               /\ Holds(Fr(t, k)) /\ Holds(Fr(u, l)) /\ Fr(t, k).job = Fr(u, l).job
               => t = u /\ k = l
SlotsOK   == /\ \A s \in 1..total : SlotOK(s)
             /\ \A s \in Slots : s > total => generation[s] = 0 /\ status[s] = "not_started"
FreeOK    == /\ \A i, j \in 1..Len(freeList) : freeList[i] = freeList[j] => i = j
             /\ \A i \in 1..Len(freeList) :
                  /\ freeList[i] \in 1..total /\ status[freeList[i]] = "free"
                  /\ \A t \in Threads : \A k \in 1..Depth(t) :
                       Holds(Fr(t, k)) => Fr(t, k).job # freeList[i]
RefsOK    == /\ \A s \in Slots : Referred(s) => Born(s)
             /\ \A h \in Handles : h \in issued => Known(h)

JInv == /\ DataOK /\ StackTypeOK /\ CountOK /\ StacksOK
        /\ FramesOK /\ HoldersOK /\ SlotsOK /\ FreeOK /\ RefsOK /\ RunsOnce
-----------------------------------------------------------------------------
(* Frames and stacks.                                                      *)

LEMMA BlankFrame ==
  /\ Blank \in Frame
  /\ Blank.pc = "scan" /\ Blank.job = Null /\ Blank.own = NoHandle /\ Blank.arg = NoHandle
  /\ Blank.prio = 0 /\ Blank.cur = Null /\ Blank.next = Null /\ Blank.seen = "free"
  /\ Blank.wait = FALSE /\ Blank.late = FALSE
BY DEF Blank, Frame, PCs, Statuses

(* One thread's frames above lo are replaced by n frames, a below b; the   *)
(* other threads keep theirs.                                              *)
NewFr(t, k) == stack'[t][Len(stack'[t]) - k + 1]

Shift(t, lo, n, a, b) ==
  /\ stack' \in [Threads -> Seq(Frame)]
  /\ lo \in Nat /\ n \in 0..2 /\ lo <= Depth(t) /\ Len(stack'[t]) = lo + n
  /\ \A k \in 1..lo : NewFr(t, k) = Fr(t, k)
  /\ n >= 1 => NewFr(t, lo + 1) = a
  /\ n = 2 => NewFr(t, lo + 2) = b
  /\ \A u \in Threads \ {t} : stack'[u] = stack[u]

LEMMA Frames1 ==
  ASSUME StackTypeOK, NEW t \in Threads
  PROVE  /\ stack[t] \in Seq(Frame) /\ Depth(t) \in Nat
         /\ \A k \in 1..Depth(t) : Fr(t, k) \in Frame
         /\ stack[t] # <<>> => Depth(t) >= 1 /\ Fr(t, Depth(t)) = Top(t) /\ Top(t) \in Frame
         /\ stack[t] = <<>> => Depth(t) = 0
<1>1. stack[t] \in Seq(Frame)
  BY DEF StackTypeOK
<1>2. Len(stack[t]) \in Nat /\ \A i \in 1..Len(stack[t]) : stack[t][i] \in Frame
  BY <1>1, LenProperties, ElementOfSeq
<1>3. \A k \in 1..Depth(t) : Fr(t, k) \in Frame
  <2> TAKE k \in 1..Depth(t)
  <2>1. Len(stack[t]) - k + 1 \in 1..Len(stack[t])
    BY <1>2 DEF Depth
  <2> QED
    BY <1>2, <2>1 DEF Fr
<1>4. ASSUME stack[t] # <<>>
      PROVE  Depth(t) >= 1 /\ Fr(t, Depth(t)) = Top(t) /\ Top(t) \in Frame
  <2>1. Len(stack[t]) \in Nat \ {0}
    BY <1>1, <1>4, EmptySeq
  <2>2. Fr(t, Depth(t)) = stack[t][1] /\ Top(t) = stack[t][1]
    BY <2>1 DEF Fr, Depth, Top
  <2> QED
    BY <1>2, <2>1, <2>2 DEF Depth
<1>5. stack[t] = <<>> => Depth(t) = 0
  BY DEF Depth
<1> QED
  BY <1>1, <1>2, <1>3, <1>4, <1>5 DEF Depth

(* New frames p on top of kept ones r.                                     *)
LEMMA StackShift ==
  ASSUME StackTypeOK, NEW t \in Threads, NEW lo \in Nat,
         NEW p \in Seq(Frame), NEW r \in Seq(Frame), NEW a, NEW b,
         Len(p) \in 0..2, Len(r) = lo, lo <= Depth(t),
         \A k \in 1..lo : r[lo - k + 1] = Fr(t, k),
         Len(p) >= 1 => p[Len(p)] = a, Len(p) = 2 => p[1] = b,
         stack' = [stack EXCEPT ![t] = p \o r]
  PROVE  Shift(t, lo, Len(p), a, b)
<1>1. stack'[t] = p \o r /\ \A u \in Threads \ {t} : stack'[u] = stack[u]
  BY DEF StackTypeOK
<1>2. /\ p \o r \in Seq(Frame) /\ Len(stack'[t]) = Len(p) + lo
      /\ \A i \in 1..Len(p) + lo : stack'[t][i] = IF i <= Len(p) THEN p[i] ELSE r[i - Len(p)]
  <2>1. /\ p \o r \in Seq(Frame)
        /\ Len(p \o r) = Len(p) + Len(r)
        /\ \A i \in 1..Len(p) + Len(r) : (p \o r)[i] = IF i <= Len(p) THEN p[i] ELSE r[i - Len(p)]
    BY ConcatProperties
  <2> HIDE DEF StackTypeOK
  <2> QED
    BY <1>1, <2>1
<1>3. stack' \in [Threads -> Seq(Frame)]
  BY <1>2 DEF StackTypeOK
<1>4. \A k \in 1..lo + Len(p) : NewFr(t, k) = stack'[t][lo + Len(p) - k + 1]
  <2> TAKE k \in 1..lo + Len(p)
  <2>1. NewFr(t, k) = stack'[t][Len(stack'[t]) - k + 1]
    BY DEF NewFr
  <2>2. Len(stack'[t]) - k + 1 = lo + Len(p) - k + 1
    BY <1>2
  <2> QED
    BY <2>1, <2>2
<1>5. \A k \in 1..lo : NewFr(t, k) = Fr(t, k)
  <2> TAKE k \in 1..lo
  <2> DEFINE i == lo + Len(p) - k + 1
  <2>1. i \in 1..Len(p) + lo /\ ~(i <= Len(p)) /\ i - Len(p) = lo - k + 1
    OBVIOUS
  <2>0. k \in 1..lo + Len(p)
    OBVIOUS
  <2>2. NewFr(t, k) = stack'[t][i]
    BY <1>4, <2>0
  <2> HIDE DEF i
  <2>3. stack'[t][i] = r[i - Len(p)]
    BY <1>2, <2>1
  <2> QED
    BY <2>1, <2>2, <2>3
<1>6. ASSUME Len(p) >= 1
      PROVE  NewFr(t, lo + 1) = a
  <2>1. /\ lo + 1 \in 1..lo + Len(p) /\ lo + Len(p) - (lo + 1) + 1 = Len(p)
        /\ Len(p) \in 1..Len(p) + lo /\ Len(p) <= Len(p)
    BY <1>6
  <2> QED
    BY <1>2, <1>4, <1>6, <2>1
<1>7. ASSUME Len(p) = 2
      PROVE  NewFr(t, lo + 2) = b
  <2>1. /\ lo + 2 \in 1..lo + Len(p) /\ lo + Len(p) - (lo + 2) + 1 = 1
        /\ 1 \in 1..Len(p) + lo /\ 1 <= Len(p)
    BY <1>7
  <2> QED
    BY <1>2, <1>4, <1>7, <2>1
<1>8. Len(stack'[t]) = lo + Len(p)
  BY <1>2
<1> QED
  BY <1>1, <1>3, <1>5, <1>6, <1>7, <1>8 DEF Shift

LEMMA EnterShift ==
  ASSUME StackTypeOK, NEW t \in Threads, NEW f \in Frame, NEW d, d = Depth(t), Enter(t, f)
  PROVE  Shift(t, d, 1, f, f)
<1>1. /\ <<f>> \in Seq(Frame) /\ Len(<<f>>) = 1 /\ <<f>>[1] = f
      /\ stack[t] \in Seq(Frame) /\ d = Len(stack[t]) /\ d \in Nat /\ d <= Depth(t)
  BY Frames1 DEF Depth
<1>2. \A k \in 1..d : stack[t][d - k + 1] = Fr(t, k)
  BY <1>1 DEF Fr
<1> DEFINE p == <<f>>
           r == stack[t]
<1>3. /\ p \in Seq(Frame) /\ r \in Seq(Frame) /\ Len(p) = 1 /\ Len(r) = d
      /\ \A k \in 1..d : r[d - k + 1] = Fr(t, k)
      /\ stack' = [stack EXCEPT ![t] = p \o r]
  BY <1>1, <1>2 DEF Enter
<1>4. /\ Len(p) \in 0..2
      /\ Len(p) >= 1 => p[Len(p)] = f
      /\ Len(p) = 2 => p[1] = f
  BY <1>1
<1> HIDE DEF p, r
<1>5. Shift(t, d, Len(p), f, f)
  BY <1>1, <1>3, <1>4, StackShift
<1> QED
  BY <1>3, <1>5

(* The frames below the top one.                                           *)
LEMMA TailFrames ==
  ASSUME StackTypeOK, NEW t \in Threads, stack[t] # <<>>, NEW d, d = Depth(t)
  PROVE  /\ Tail(stack[t]) \in Seq(Frame) /\ d \in Nat \ {0} /\ Len(Tail(stack[t])) = d - 1
         /\ \A k \in 1..d - 1 : Tail(stack[t])[d - 1 - k + 1] = Fr(t, k)
<1>1. stack[t] \in Seq(Frame) /\ d = Len(stack[t]) /\ d \in Nat \ {0}
  BY Frames1 DEF Depth
<1>2. /\ Tail(stack[t]) \in Seq(Frame) /\ Len(Tail(stack[t])) = d - 1
      /\ \A i \in 1..d - 1 : Tail(stack[t])[i] = stack[t][i + 1]
  BY <1>1, HeadTailProperties
<1>3. ASSUME NEW k \in 1..d - 1
      PROVE  Tail(stack[t])[d - 1 - k + 1] = Fr(t, k)
  <2>1. d - 1 - k + 1 \in 1..d - 1 /\ d - 1 - k + 1 + 1 = d - k + 1
    BY <1>1
  <2> QED
    BY <1>1, <1>2, <2>1 DEF Fr
<1> QED
  BY <1>1, <1>2, <1>3

LEMMA BecomeShift ==
  ASSUME StackTypeOK, NEW t \in Threads, stack[t] # <<>>, NEW f \in Frame,
         NEW lo, lo = Depth(t) - 1, Become(t, f)
  PROVE  Shift(t, lo, 1, f, f)
<1> PICK d : d = Depth(t)
  OBVIOUS
<1>1. /\ <<f>> \in Seq(Frame) /\ Len(<<f>>) = 1 /\ <<f>>[1] = f
      /\ d \in Nat /\ lo = d - 1 /\ lo \in Nat /\ lo <= Depth(t)
  BY TailFrames
<1> DEFINE p == <<f>>
           r == Tail(stack[t])
<1>2. /\ p \in Seq(Frame) /\ r \in Seq(Frame) /\ Len(p) = 1 /\ Len(r) = lo
      /\ \A k \in 1..lo : r[lo - k + 1] = Fr(t, k)
      /\ lo \in Nat /\ lo <= Depth(t)
      /\ stack' = [stack EXCEPT ![t] = p \o r]
  BY <1>1, TailFrames DEF Become
<1>7. /\ Len(p) \in 0..2
      /\ Len(p) >= 1 => p[Len(p)] = f
      /\ Len(p) = 2 => p[1] = f
  BY <1>1
<1> HIDE DEF p, r
<1>8. Shift(t, lo, Len(p), f, f)
  BY <1>2, <1>7, StackShift
<1> QED
  BY <1>2, <1>8

LEMMA CallShift ==
  ASSUME StackTypeOK, NEW t \in Threads, stack[t] # <<>>, NEW f \in Frame, NEW g \in Frame,
         NEW lo, lo = Depth(t) - 1, Call(t, f, g)
  PROVE  Shift(t, lo, 2, f, g)
<1> PICK d : d = Depth(t)
  OBVIOUS
<1>1. /\ <<g, f>> \in Seq(Frame) /\ Len(<<g, f>>) = 2 /\ <<g, f>>[1] = g /\ <<g, f>>[2] = f
      /\ d \in Nat /\ lo = d - 1 /\ lo \in Nat /\ lo <= Depth(t)
  BY TailFrames
<1> DEFINE p == <<g, f>>
           r == Tail(stack[t])
<1>2. /\ p \in Seq(Frame) /\ r \in Seq(Frame) /\ Len(p) = 2
      /\ Len(r) = lo /\ \A k \in 1..lo : r[lo - k + 1] = Fr(t, k)
      /\ lo \in Nat /\ lo <= Depth(t)
      /\ stack' = [stack EXCEPT ![t] = p \o r]
  BY <1>1, TailFrames DEF Call
<1>7. /\ Len(p) \in 0..2
      /\ Len(p) >= 1 => p[Len(p)] = f
      /\ Len(p) = 2 => p[1] = g
  BY <1>1
<1> HIDE DEF p, r
<1>8. Shift(t, lo, Len(p), f, g)
  BY <1>2, <1>7, StackShift
<1> QED
  BY <1>2, <1>8

LEMMA ReturnShift ==
  ASSUME StackTypeOK, NEW t \in Threads, stack[t] # <<>>, NEW lo, lo = Depth(t) - 1, Return(t)
  PROVE  Shift(t, lo, 0, Blank, Blank)
<1> PICK d : d = Depth(t)
  OBVIOUS
<1>1. /\ <<>> \in Seq(Frame) /\ Len(<<>>) = 0
      /\ d \in Nat /\ lo = d - 1 /\ lo \in Nat /\ lo <= Depth(t)
  BY TailFrames
<1>2. <<>> \o Tail(stack[t]) = Tail(stack[t])
  BY TailFrames, ConcatEmptySeq
<1>3. stack' = [stack EXCEPT ![t] = <<>> \o Tail(stack[t])]
  BY <1>2 DEF Return
<1> DEFINE p == <<>>
           r == Tail(stack[t])
<1>4. /\ p \in Seq(Frame) /\ r \in Seq(Frame) /\ Len(p) = 0
      /\ Len(r) = lo /\ \A k \in 1..lo : r[lo - k + 1] = Fr(t, k)
      /\ lo \in Nat /\ lo <= Depth(t)
      /\ stack' = [stack EXCEPT ![t] = p \o r]
  BY <1>1, <1>3, TailFrames
<1>7. /\ Len(p) \in 0..2
      /\ Len(p) >= 1 => p[Len(p)] = Blank
      /\ Len(p) = 2 => p[1] = Blank
  BY <1>1
<1> HIDE DEF p, r
<1>8. Shift(t, lo, Len(p), Blank, Blank)
  BY <1>4, <1>7, StackShift
<1> QED
  BY <1>4, <1>8

-----------------------------------------------------------------------------
(* What a shift does to the frames, seen from the positions.               *)

Kept(t, lo, u, k) == u # t \/ k <= lo

LEMMA ShiftTypes ==
  ASSUME StackTypeOK, NEW t \in Threads, NEW lo, NEW n, NEW a, NEW b, Shift(t, lo, n, a, b)
  PROVE  /\ StackTypeOK' /\ Depth(t)' = lo + n
         /\ \A u \in Threads : Depth(u)' \in Nat /\ (u # t => Depth(u)' = Depth(u))
<1>1. /\ stack' \in [Threads -> Seq(Frame)] /\ Len(stack'[t]) = lo + n
      /\ \A u \in Threads \ {t} : stack'[u] = stack[u]
  BY DEF Shift
<1>2. \A u \in Threads : Len(stack'[u]) \in Nat
  BY <1>1, LenProperties
<1> QED
  BY <1>1, <1>2 DEF StackTypeOK, Depth

LEMMA OldPositions ==
  ASSUME StackTypeOK, NEW t \in Threads, NEW lo, NEW n, NEW a, NEW b, Shift(t, lo, n, a, b),
         NEW u \in Threads, NEW k \in 1..Depth(u), Kept(t, lo, u, k)
  PROVE  k \in 1..Depth(u)' /\ Fr(u, k)' = Fr(u, k)
<1>1. Depth(u) \in Nat /\ lo \in Nat /\ n \in 0..2
  BY Frames1 DEF Shift
<1>2. CASE u = t
  <2>1. Len(stack'[t]) = lo + n /\ k \in 1..lo /\ NewFr(t, k) = Fr(t, k)
    BY <1>1, <1>2 DEF Shift, Kept
  <2>2. k \in 1..Len(stack'[t])
    BY <1>1, <2>1
  <2> QED
    BY <1>2, <2>1, <2>2 DEF Depth, Fr, NewFr
<1>3. CASE u # t
  <2>1. stack'[u] = stack[u]
    BY <1>3 DEF Shift
  <2> QED
    BY <2>1 DEF Depth, Fr
<1> QED
  BY <1>2, <1>3

LEMMA NewPositions ==
  ASSUME StackTypeOK, NEW t \in Threads, NEW lo, NEW n, NEW a, NEW b, Shift(t, lo, n, a, b),
         NEW u \in Threads, NEW k \in 1..Depth(u)'
  PROVE  \/ k \in 1..Depth(u) /\ Kept(t, lo, u, k) /\ Fr(u, k)' = Fr(u, k)
         \/ u = t /\ k = lo + 1 /\ n >= 1 /\ Fr(u, k)' = a
         \/ u = t /\ k = lo + 2 /\ n = 2 /\ Fr(u, k)' = b
<1>1. Depth(u) \in Nat /\ lo \in Nat /\ n \in 0..2 /\ lo <= Depth(t)
  BY Frames1 DEF Shift
<1>2. CASE u # t
  <2>1. stack'[u] = stack[u]
    BY <1>2 DEF Shift
  <2> QED
    BY <1>2, <2>1 DEF Depth, Fr, Kept
<1>3. CASE u = t
  <2>1. /\ k \in 1..lo + n /\ NewFr(t, k) = Fr(t, k)'
        /\ \A i \in 1..lo : NewFr(t, i) = Fr(t, i)
        /\ n >= 1 => NewFr(t, lo + 1) = a
        /\ n = 2 => NewFr(t, lo + 2) = b
    BY <1>3 DEF Shift, Depth, Fr, NewFr
  <2>2. CASE k \in 1..lo
    BY <1>1, <1>3, <2>1, <2>2 DEF Kept
  <2>3. CASE k = lo + 1 /\ n >= 1
    BY <1>3, <2>1, <2>3
  <2>4. CASE k = lo + 2 /\ n = 2
    BY <1>3, <2>1, <2>4
  <2> QED
    BY <1>1, <2>1, <2>2, <2>3, <2>4
<1> QED
  BY <1>2, <1>3

(* Conversely, the new frames are there.                                   *)
LEMMA TopPositions ==
  ASSUME StackTypeOK, NEW t \in Threads, NEW lo, NEW n, NEW a, NEW b, Shift(t, lo, n, a, b)
  PROVE  /\ n >= 1 => lo + 1 \in 1..Depth(t)' /\ Fr(t, lo + 1)' = a
         /\ n = 2 => lo + 2 \in 1..Depth(t)' /\ Fr(t, lo + 2)' = b
<1>1. lo \in Nat /\ n \in 0..2 /\ Len(stack'[t]) = lo + n
  BY DEF Shift
<1>2. Depth(t)' = lo + n
  BY <1>1 DEF Depth
<1>3. NewFr(t, lo + 1) = Fr(t, lo + 1)' /\ NewFr(t, lo + 2) = Fr(t, lo + 2)'
  BY DEF NewFr, Fr
<1> QED
  BY <1>1, <1>2, <1>3 DEF Shift

(* A step about slot s: it alone may come to be filled, or cease to be.    *)
LEMMA ShiftFilled ==
  ASSUME StackTypeOK, NEW t \in Threads, NEW lo, NEW n, NEW a, NEW b, Shift(t, lo, n, a, b),
         NEW s,
         \A u \in Threads : \A k \in 1..Depth(u) :
           Kept(t, lo, u, k) /\ Fills(Fr(u, k)) => Fr(u, k).job # s,
         \A k \in 1..Depth(t) : k > lo /\ Fills(Fr(t, k)) => Fr(t, k).job = s,
         n >= 1 /\ Fills(a) => a.job = s, n = 2 => ~Fills(b)
  PROVE  /\ Filled(s)' <=> n >= 1 /\ Fills(a)
         /\ Filled(s) <=> \E k \in 1..Depth(t) : k > lo /\ Fills(Fr(t, k))
         /\ \A x : x # s => (Filled(x)' <=> Filled(x))
<1>0. lo \in Nat /\ n \in 0..2
  BY DEF Shift
<1>1. ASSUME NEW x, Filled(x)'
      PROVE  (Filled(x) /\ x # s) \/ (x = s /\ n >= 1 /\ Fills(a))
  <2>1. PICK u \in Threads : \E k \in 1..Depth(u)' : Fills(Fr(u, k)') /\ (Fr(u, k)').job = x
    BY <1>1 DEF Filled, Fills
  <2>2. PICK k \in 1..Depth(u)' : Fills(Fr(u, k)') /\ (Fr(u, k)').job = x
    BY <2>1
  <2>3. CASE k \in 1..Depth(u) /\ Kept(t, lo, u, k) /\ Fr(u, k)' = Fr(u, k)
    BY <2>2, <2>3 DEF Filled
  <2>4. CASE n >= 1 /\ Fr(u, k)' = a
    BY <2>2, <2>4
  <2>5. CASE n = 2 /\ Fr(u, k)' = b
    BY <2>2, <2>5
  <2> QED
    BY <2>3, <2>4, <2>5, NewPositions
<1>2. ASSUME NEW x, Filled(x), x # s
      PROVE  Filled(x)'
  <2>10. PICK u \in Threads : \E k \in 1..Depth(u) : Fills(Fr(u, k)) /\ Fr(u, k).job = x
    BY <1>2 DEF Filled
  <2>1. PICK k \in 1..Depth(u) : Fills(Fr(u, k)) /\ Fr(u, k).job = x
    BY <2>10
  <2>2. u = t => k <= lo
    BY <1>0, <1>2, <2>1, Frames1
  <2>3. k \in 1..Depth(u)' /\ Fr(u, k)' = Fr(u, k)
    BY <2>2, OldPositions DEF Kept
  <2> QED
    BY <2>1, <2>3 DEF Filled, Fills
<1>3. ASSUME n >= 1, Fills(a)
      PROVE  Filled(s)'
  BY <1>3, TopPositions DEF Filled, Fills
<1>4. Filled(s) <=> \E k \in 1..Depth(t) : k > lo /\ Fills(Fr(t, k))
  <2>1. ASSUME Filled(s)
        PROVE  \E k \in 1..Depth(t) : k > lo /\ Fills(Fr(t, k))
    <3>10. PICK u \in Threads : \E k \in 1..Depth(u) : Fills(Fr(u, k)) /\ Fr(u, k).job = s
      BY <2>1 DEF Filled
    <3>1. PICK k \in 1..Depth(u) : Fills(Fr(u, k)) /\ Fr(u, k).job = s
      BY <3>10
    <3>2. u = t /\ k > lo
      BY <1>0, <3>1, Frames1 DEF Kept
    <3> QED
      BY <3>1, <3>2
  <2>2. ASSUME NEW k \in 1..Depth(t), k > lo, Fills(Fr(t, k))
        PROVE  Filled(s)
    BY <2>2 DEF Filled
  <2> QED
    BY <2>1, <2>2
<1> QED
  BY <1>1, <1>2, <1>3, <1>4

-----------------------------------------------------------------------------
(* Steps, by what they leave alone.                                        *)

LEMMA AllocatingCount ==
  /\ IsFiniteSet(Threads) /\ IsFiniteSet(Allocating) /\ Cardinality(Allocating) \in Nat
  /\ \A t \in Allocating : Cardinality(Allocating) >= 1
<1>1. IsFiniteSet(Threads) /\ Allocating \subseteq Threads
  BY ConstantsOK DEF Threads, Allocating
<1>2. IsFiniteSet(Allocating) /\ Cardinality(Allocating) \in Nat
  BY <1>1, FS_Subset, FS_CardinalityType
<1>3. Cardinality(Allocating) = 0 <=> Allocating = {}
  BY <1>2, FS_EmptySet
<1> QED
  BY <1>1, <1>2, <1>3

(* Slots and generations stay within the bounds of the instance.           *)
LEMMA Bounds ==
  ASSUME DataOK, CountOK
  PROVE  /\ total \in Nat /\ total <= MaxJobs /\ MaxJobs \in Nat /\ 1..total \subseteq Slots
         /\ \A s \in Slots : generation[s] \in Nat /\ generation[s] <= MaxJobs
         /\ \A s \in Slots : generation[s] >= 1 => Now(s) \in Handles /\ Now(s)[1] = s
         /\ \A t \in Allocating : /\ total + 1 <= MaxJobs
                                  /\ \A s \in Slots : generation[s] + 1 <= MaxJobs
<1>1. Cardinality(Allocating) \in Nat /\ \A t \in Allocating : Cardinality(Allocating) >= 1
  BY AllocatingCount
<1>2. adds \in 0..MaxJobs /\ MaxJobs \in Nat /\ total \in Nat /\ generation \in [Slots -> Nat]
  BY ConstantsOK DEF DataOK
<1>3. total <= MaxJobs /\ \A s \in Slots : generation[s] <= MaxJobs
  BY <1>1, <1>2 DEF CountOK
<1>4. \A s \in Slots : generation[s] >= 1 => Now(s) \in Handles /\ Now(s)[1] = s
  BY <1>2, <1>3 DEF Now, Handles
<1> QED
  BY <1>1, <1>2, <1>3, <1>4 DEF CountOK, Slots

LEMMA HolderSlot ==
  ASSUME DataOK, CountOK, SlotsOK, NEW f \in Frame, FrOK(f), Holds(f)
  PROVE  /\ f.job \in 1..total /\ f.job \in Slots /\ generation[f.job] >= 1
         /\ Now(f.job) \in Handles /\ Now(f.job)[1] = f.job
<1>1. f.job \in 1..total
  BY DEF FrOK, HolderOK, FrameOK, Holds, FillPCs, RunPCs, JobLess, Born
<1>2. f.job \in Slots /\ generation[f.job] >= 1
  BY <1>1, Bounds DEF SlotsOK, SlotOK
<1> QED
  BY <1>1, <1>2, Bounds

(* What a frame that stays finds afterwards.                               *)
LEMMA KeptFrame ==
  ASSUME NEW f \in Frame, FrOK(f), total \in Nat, total' \in Nat, total' >= total,
         \A x \in Slots : Born(x) => Born(x)',
         \A h \in Handles : Known(h) => Known(h)',
         \A h \in Handles : Known(h) /\ Live(h)' => Live(h),
         \A h \in Handles : Known(h) /\ Live(h)' /\ status[h[1]] \in Finished
                            => status'[h[1]] \in Finished,
         \A h \in Handles : Known(h) /\ phase[h] = "done" => phase'[h] = "done",
         Holds(f) => /\ status'[f.job] = status[f.job] /\ generation'[f.job] = generation[f.job]
                     /\ function'[f.job] = function[f.job]
                     /\ phase'[Now(f.job)] = phase[Now(f.job)]
  PROVE  FrOK(f)'
<1>1. HolderOK(f)'
  <2>1. HolderOK(f) /\ (Holds(f) => Now(f.job)' = Now(f.job))
    BY DEF FrOK, Now
  <2> QED
    BY <2>1 DEF HolderOK, Holds, FillPCs, RunPCs, Now
<1>2. FrameOK(f)'
  <2>1. /\ f.job \in Slots \union {Null} /\ f.cur \in Slots \union {Null}
        /\ f.next \in Slots \union {Null}
    BY DEF Frame
  <2>2. f.own \in Handles \union {NoHandle} /\ f.arg \in Handles \union {NoHandle}
    BY DEF Frame
  <2>3. Known(f.own) => Known(f.own)'
    BY DEF Known
  <2> QED
    BY <2>1, <2>2, <2>3 DEF FrameOK, FrOK
<1>3. PollOK(f)'
  <2>1. PollOK(f) /\ (f.arg = NoHandle \/ Known(f.arg))
    BY DEF FrOK, FrameOK
  <2>2. Known(f.arg) => f.arg \in Handles
    BY DEF Known
  <2> QED
    BY <2>1, <2>2 DEF PollOK, Polling
<1> QED
  BY <1>1, <1>2, <1>3 DEF FrOK

(* A slot in nobody else's hands.                                          *)
Alone(t, lo, s) ==
  \A u \in Threads : \A k \in 1..Depth(u) :
    Kept(t, lo, u, k) /\ Holds(Fr(u, k)) => Fr(u, k).job # s

NewRefs == /\ \A s \in Slots : Referred(s)' => Born(s)
           /\ \A h \in Handles : h \in issued' => Known(h)

(* The invariants about frames and slots, for a step about slot s.         *)
LEMMA StacksKept ==
  ASSUME StackTypeOK, StacksOK, NEW t \in Threads, NEW lo, NEW n, NEW a, NEW b,
         Shift(t, lo, n, a, b), n = 2 => a.pc \in CallPCs,
         lo = Depth(t) /\ lo > 0 => Fr(t, lo).pc \in CallPCs
  PROVE  StacksOK'
<1>0. /\ lo \in Nat /\ n \in 0..2 /\ lo <= Depth(t) /\ Depth(t)' = lo + n
      /\ \A u \in Threads : Depth(u) \in Nat /\ Depth(u)' \in Nat
  BY Frames1, ShiftTypes DEF Shift
<1>1. SUFFICES ASSUME NEW u \in Threads, NEW k \in 1..Depth(u)' - 1
               PROVE  (Fr(u, k)').pc \in CallPCs
  BY DEF StacksOK
<1>2. k \in 1..Depth(u)'
  BY <1>0
<1>3. CASE k \in 1..Depth(u) /\ Kept(t, lo, u, k) /\ Fr(u, k)' = Fr(u, k)
  <2>1. CASE k \in 1..Depth(u) - 1
    BY <1>3, <2>1 DEF StacksOK
  <2>2. CASE k = Depth(u)
    <3>1. u = t
      BY <1>0, <2>2, ShiftTypes
    <3>2. k = lo /\ lo = Depth(t) /\ lo > 0
      BY <1>0, <1>3, <2>2, <3>1 DEF Kept
    <3> QED
      BY <1>3, <3>1, <3>2
  <2> QED
    BY <1>0, <1>3, <2>1, <2>2
<1>4. CASE u = t /\ k = lo + 1 /\ Fr(u, k)' = a
  BY <1>0, <1>4
<1>5. CASE u = t /\ k = lo + 2
  BY <1>0, <1>5
<1> QED
  BY <1>2, <1>3, <1>4, <1>5, NewPositions

(* The other slots are as they were.                                       *)
Untouched(s) ==
  /\ \A x \in Slots \ {s} : /\ status'[x] = status[x] /\ generation'[x] = generation[x]
                            /\ function'[x] = function[x]
  /\ \A h \in Handles : h[1] # s => phase'[h] = phase[h]

(* Slot s is filled by the top frame, before or after the step, or by none. *)
FilledByTop(t, lo, n, a, b, s) ==
  /\ \A k \in 1..Depth(t) : k > lo /\ Fills(Fr(t, k)) => Fr(t, k).job = s
  /\ n >= 1 /\ Fills(a) => a.job = s
  /\ n = 2 => ~Fills(b)

LEMMA FilledAbout ==
  ASSUME StackTypeOK, NEW t \in Threads, NEW lo, NEW n, NEW a, NEW b, NEW s,
         Shift(t, lo, n, a, b), Alone(t, lo, s), FilledByTop(t, lo, n, a, b, s)
  PROVE  /\ Filled(s)' <=> n >= 1 /\ Fills(a)
         /\ Filled(s) <=> \E k \in 1..Depth(t) : k > lo /\ Fills(Fr(t, k))
         /\ \A x : x # s => (Filled(x)' <=> Filled(x))
<1>1. \A u \in Threads : \A k \in 1..Depth(u) :
        Kept(t, lo, u, k) /\ Fills(Fr(u, k)) => Fr(u, k).job # s
  BY DEF Alone, Fills, Holds
<1> QED
  BY <1>1, ShiftFilled DEF FilledByTop

(* What refers to slots goes on referring to them.                         *)
LEMMA RefsKept ==
  ASSUME DataOK, StackTypeOK, NEW t \in Threads, NEW lo, NEW n, NEW a, NEW b, NEW s,
         Shift(t, lo, n, a, b), Alone(t, lo, s), FilledByTop(t, lo, n, a, b, s),
         Untouched(s), total' \in Nat, total' >= total,
         s \in Slots /\ Born(s) => Born(s)',
         \A h \in Handles : h[1] = s /\ Known(h) => Known(h)'
  PROVE  /\ \A x \in Slots : Born(x) => Born(x)'
         /\ \A h \in Handles : Known(h) => Known(h)'
<1>1. \A x : x # s => (Filled(x)' <=> Filled(x))
  BY FilledAbout
<1>2. total \in Nat /\ generation \in [Slots -> Nat]
  BY DEF DataOK
<1>3. ASSUME NEW x \in Slots, x # s, Born(x)
      PROVE  Born(x)'
  BY <1>1, <1>2, <1>3 DEF Born, Untouched
<1>4. ASSUME NEW h \in Handles, h[1] # s, Known(h)
      PROVE  Known(h)'
  <2>1. h[1] \in Slots /\ generation'[h[1]] = generation[h[1]]
    BY <1>4 DEF Handles, Untouched
  <2> QED
    BY <1>1, <1>2, <1>4, <2>1 DEF Known
<1> QED
  BY <1>3, <1>4

LEMMA FramesKept ==
  ASSUME DataOK, StackTypeOK, CountOK, SlotsOK, FramesOK, DataOK',
         NEW t \in Threads, NEW lo, NEW n, NEW a, NEW b, NEW s,
         Shift(t, lo, n, a, b), Alone(t, lo, s), Untouched(s), total' >= total,
         s \in Slots => generation'[s] >= generation[s],
         \A x \in Slots : Born(x) => Born(x)',
         \A h \in Handles : Known(h) => Known(h)',
         \A h \in Handles : h[1] = s /\ Known(h) /\ Live(h)' /\ status[s] \in Finished
                            => status'[s] \in Finished,
         \A h \in Handles : h[1] = s /\ Known(h) /\ phase[h] = "done" => phase'[h] = "done",
         n >= 1 => FrOK(a)', n = 2 => FrOK(b)'
  PROVE  FramesOK'
<1>1. SUFFICES ASSUME NEW u \in Threads, NEW f \in Frame, NEW k \in 1..Depth(u)', f = Fr(u, k)'
               PROVE  FrOK(f)'
  BY DEF FramesOK
<1>2. CASE n >= 1 /\ Fr(u, k)' = a
  BY <1>1, <1>2
<1>3. CASE n = 2 /\ Fr(u, k)' = b
  BY <1>1, <1>3
<1>4. CASE k \in 1..Depth(u) /\ Kept(t, lo, u, k) /\ Fr(u, k)' = Fr(u, k)
  <2>0. /\ total \in Nat /\ total' \in Nat
        /\ generation \in [Slots -> Nat] /\ generation' \in [Slots -> Nat]
    BY DEF DataOK
  <2>1. f = Fr(u, k) /\ FrOK(f)
    BY <1>1, <1>4 DEF FramesOK
  <2>2. \A h \in Handles : Known(h) /\ Live(h)' => Live(h)
    <3> TAKE h \in Handles
    <3>1. h[1] \in Slots /\ h[2] \in Nat
      BY DEF Handles
    <3>2. generation'[h[1]] >= generation[h[1]]
      BY <2>0, <3>1 DEF Untouched
    <3> QED
      BY <2>0, <3>1, <3>2 DEF Known, Live
  <2>3. \A h \in Handles : Known(h) /\ Live(h)' /\ status[h[1]] \in Finished
                           => status'[h[1]] \in Finished
    <3> TAKE h \in Handles
    <3>1. h[1] \in Slots
      BY DEF Handles
    <3> QED
      BY <3>1 DEF Untouched
  <2>4. \A h \in Handles : Known(h) /\ phase[h] = "done" => phase'[h] = "done"
    BY DEF Untouched
  <2>5. ASSUME Holds(f)
        PROVE  /\ status'[f.job] = status[f.job] /\ generation'[f.job] = generation[f.job]
               /\ function'[f.job] = function[f.job]
               /\ phase'[Now(f.job)] = phase[Now(f.job)]
    <3>1. f.job # s
      BY <1>4, <2>1, <2>5 DEF Alone
    <3>2. f.job \in Slots /\ Now(f.job) \in Handles /\ Now(f.job)[1] = f.job
      BY <2>1, <2>5, HolderSlot
    <3> QED
      BY <3>1, <3>2 DEF Untouched
  <2> QED
    BY <2>0, <2>1, <2>2, <2>3, <2>4, <2>5, KeptFrame
<1> QED
  BY <1>2, <1>3, <1>4, NewPositions

(* The new frame a holds what is being worked on, or takes over.           *)
TakesOver(t, lo, a, s) ==
  Holds(a) => \/ a.job = s
              \/ \E k \in 1..Depth(t) : k > lo /\ Holds(Fr(t, k)) /\ Fr(t, k).job = a.job

LEMMA HoldersKept ==
  ASSUME StackTypeOK, HoldersOK, NEW t \in Threads, NEW lo, NEW n, NEW a, NEW b, NEW s,
         Shift(t, lo, n, a, b), Alone(t, lo, s),
         n >= 1 => TakesOver(t, lo, a, s), n = 2 => ~Holds(b)
  PROVE  HoldersOK'
<1> DEFINE Old(u, k) == k \in 1..Depth(u) /\ Kept(t, lo, u, k) /\ Fr(u, k)' = Fr(u, k)
<1>0. lo \in Nat
  BY DEF Shift
<1>1. ASSUME NEW u \in Threads, NEW k \in 1..Depth(u)', Holds(Fr(u, k)')
      PROVE  \/ Old(u, k)
             \/ u = t /\ k = lo + 1 /\ Holds(a) /\ TakesOver(t, lo, a, s) /\ Fr(u, k)' = a
  BY <1>1, NewPositions
<1>2. ASSUME NEW u \in Threads, NEW k \in 1..Depth(u)', Old(u, k), Holds(Fr(u, k)'),
             Holds(a), TakesOver(t, lo, a, s)
      PROVE  (Fr(u, k)').job # a.job
  <2>1. Holds(Fr(u, k)) /\ Fr(u, k).job # s /\ (Fr(u, k)').job = Fr(u, k).job
    BY <1>2 DEF Alone
  <2>2. ASSUME NEW i \in 1..Depth(t), i > lo, Holds(Fr(t, i)), Fr(t, i).job = a.job
        PROVE  Fr(u, k).job # a.job
    BY <1>0, <1>2, <2>1, <2>2 DEF HoldersOK, Kept
  <2> QED
    BY <1>2, <2>1, <2>2 DEF TakesOver
<1>3. SUFFICES ASSUME NEW u \in Threads, NEW v \in Threads,
                      NEW k \in 1..Depth(u)', NEW l \in 1..Depth(v)',
                      Holds(Fr(u, k)'), Holds(Fr(v, l)'), (Fr(u, k)').job = (Fr(v, l)').job
               PROVE  u = v /\ k = l
  BY DEF HoldersOK, Holds
<1>4. CASE Old(u, k) /\ Old(v, l)
  BY <1>3, <1>4 DEF HoldersOK
<1> HIDE DEF Old
<1>5. CASE Old(u, k) /\ ~Old(v, l)
  BY <1>1, <1>2, <1>3, <1>5
<1>6. CASE ~Old(u, k) /\ Old(v, l)
  BY <1>1, <1>2, <1>3, <1>6
<1>7. CASE ~Old(u, k) /\ ~Old(v, l)
  BY <1>1, <1>3, <1>7
<1> QED
  BY <1>4, <1>5, <1>6, <1>7

LEMMA SlotsKept ==
  ASSUME DataOK, DataOK', StackTypeOK, CountOK, SlotsOK,
         NEW t \in Threads, NEW lo, NEW n, NEW a, NEW b, NEW s \in Slots \union {Null},
         Shift(t, lo, n, a, b), Alone(t, lo, s), FilledByTop(t, lo, n, a, b, s),
         Untouched(s), s \in Slots => s \in 1..total' /\ SlotOK(s)',
         total' = total \/ (s = total + 1 /\ total' = s)
  PROVE  SlotsOK'
<1>0. total \in Nat /\ total' \in Nat /\ 1..total \subseteq Slots
  BY Bounds DEF DataOK
<1>1. ASSUME NEW x \in 1..total', x # s
      PROVE  SlotOK(x)'
  <2>1. x \in 1..total /\ x \in Slots
    BY <1>0, <1>1
  <2>2. SlotOK(x) /\ generation[x] >= 1
    BY <2>1 DEF SlotsOK, SlotOK
  <2>3. Now(x) \in Handles /\ Now(x)[1] = x
    BY <2>1, <2>2, Bounds
  <2>4. Filled(x)' <=> Filled(x)
    BY <1>1, FilledAbout
  <2>5. /\ status'[x] = status[x] /\ generation'[x] = generation[x] /\ function'[x] = function[x]
        /\ phase'[Now(x)] = phase[Now(x)]
    BY <1>1, <2>1, <2>3 DEF Untouched
  <2>6. Now(x)' = Now(x)
    BY <2>5 DEF Now
  <2> QED
    BY <2>2, <2>4, <2>5, <2>6 DEF SlotOK
<1>2. ASSUME NEW x \in Slots, x > total'
      PROVE  generation'[x] = 0 /\ status'[x] = "not_started"
  <2>1. x # s /\ x > total
    BY <1>0, <1>2, ConstantsOK DEF Slots
  <2> QED
    BY <1>2, <2>1 DEF SlotsOK, Untouched
<1>3. ASSUME NEW x \in 1..total', x = s
      PROVE  SlotOK(x)'
  <2>1. x \in Slots
    BY <1>0, <1>3 DEF Null
  <2> QED
    BY <1>3, <2>1
<1> QED
  BY <1>1, <1>2, <1>3 DEF SlotsOK

LEMMA FreeKept ==
  ASSUME DataOK, StackTypeOK, CountOK, FreeOK,
         NEW t \in Threads, NEW lo, NEW n, NEW a, NEW b, NEW s,
         Shift(t, lo, n, a, b), Untouched(s), total' \in Nat, total' >= total,
         n >= 1 => TakesOver(t, lo, a, s), n = 2 => ~Holds(b),
         freeList' = freeList, \A i \in 1..Len(freeList) : freeList[i] # s
  PROVE  FreeOK'
<1>1. ASSUME NEW i \in 1..Len(freeList)
      PROVE  freeList[i] \in 1..total' /\ status'[freeList[i]] = "free"
  <2>1. freeList[i] \in 1..total /\ status[freeList[i]] = "free" /\ freeList[i] # s
    BY DEF FreeOK
  <2>2. freeList[i] \in Slots \ {s} /\ total \in Nat
    BY <2>1, Bounds
  <2> QED
    BY <2>1, <2>2 DEF Untouched
<1>2. ASSUME NEW i \in 1..Len(freeList), NEW u \in Threads, NEW k \in 1..Depth(u)',
             Holds(Fr(u, k)')
      PROVE  (Fr(u, k)').job # freeList[i]
  <2>1. CASE k \in 1..Depth(u) /\ Fr(u, k)' = Fr(u, k)
    BY <1>2, <2>1 DEF FreeOK
  <2>2. CASE n >= 1 /\ Fr(u, k)' = a
    BY <1>2, <2>2 DEF FreeOK, TakesOver
  <2> QED
    BY <1>2, <2>1, <2>2, NewPositions
<1> QED
  BY <1>1, <1>2 DEF FreeOK, Holds

LEMMA CountKept ==
  ASSUME DataOK, DataOK', StackTypeOK, CountOK,
         NEW t \in Threads, NEW lo, NEW n, NEW a, NEW b, Shift(t, lo, n, a, b),
         n >= 1 /\ a.pc \in AllocPCs => t \in Allocating, n = 2 => b.pc \notin AllocPCs,
         total' = total, generation' = generation, adds' >= adds
  PROVE  CountOK'
<1>1. Allocating' \subseteq Allocating
  <2>1. SUFFICES ASSUME NEW u \in Threads, NEW k \in 1..Depth(u)', (Fr(u, k)').pc \in AllocPCs
                 PROVE  u \in Allocating
    BY DEF Allocating
  <2> QED
    BY <2>1, NewPositions DEF Allocating
<1>2. /\ Cardinality(Allocating) \in Nat /\ Cardinality(Allocating)' \in Nat
      /\ Cardinality(Allocating') <= Cardinality(Allocating)
  BY <1>1, AllocatingCount, FS_Subset, FS_CardinalityType
<1>3. total \in Nat /\ adds \in Nat /\ adds' \in Nat /\ generation \in [Slots -> Nat]
  BY ConstantsOK DEF DataOK
<1> QED
  BY <1>2, <1>3 DEF CountOK

(* The thread's own top frame, as a position.                              *)
LEMMA TopFrame ==
  ASSUME JInv, NEW t \in Threads, stack[t] # <<>>, NEW d, d = Depth(t),
         NEW top, top = Top(t)
  PROVE  /\ d \in Nat \ {0} /\ top \in Frame /\ d \in 1..Depth(t) /\ Fr(t, d) = top /\ FrOK(top)
         /\ \A k \in 1..Depth(t) : k > d - 1 => Fr(t, k) = top
         /\ top.pc \in AllocPCs => t \in Allocating
<1>1. /\ d \in Nat \ {0} /\ top \in Frame /\ d \in 1..Depth(t) /\ Fr(t, d) = top
  BY Frames1 DEF JInv
<1>2. FrOK(top)
  BY <1>1 DEF JInv, FramesOK
<1> QED
  BY <1>1, <1>2 DEF Allocating

(* What a frame holds nobody else holds, and it is not free.               *)
LEMMA HeldAlone ==
  ASSUME JInv, NEW t \in Threads, stack[t] # <<>>, NEW lo, lo = Depth(t) - 1,
         NEW top, top = Top(t), Holds(top)
  PROVE  /\ Alone(t, lo, top.job)
         /\ \A i \in 1..Len(freeList) : freeList[i] # top.job
         /\ top.job \in Slots /\ top.job \in 1..total
         /\ generation[top.job] >= 1 /\ Now(top.job) \in Handles
<1> PICK d : d = Depth(t)
  OBVIOUS
<1>1. /\ d \in Nat \ {0} /\ lo = d - 1 /\ top \in Frame
      /\ d \in 1..Depth(t) /\ Fr(t, d) = top /\ FrOK(top)
  BY TopFrame
<1>2. ASSUME NEW u \in Threads, NEW k \in 1..Depth(u), Kept(t, lo, u, k), Holds(Fr(u, k)),
             Fr(u, k).job = top.job
      PROVE  FALSE
  <2>1. u = t /\ k = d
    BY <1>1, <1>2 DEF JInv, HoldersOK
  <2> QED
    BY <1>1, <1>2, <2>1 DEF Kept
<1>3. \A i \in 1..Len(freeList) : freeList[i] # top.job
  BY <1>1 DEF JInv, FreeOK
<1> QED
  BY <1>1, <1>2, <1>3, HolderSlot DEF Alone, JInv

(* A slot whose job waits, is ready or has completed is held by nobody.    *)
LEMMA ReadyAlone ==
  ASSUME JInv, NEW s \in Slots, Born(s), status[s] \in {"not_started", "waiting", "completed"}
  PROVE  /\ \A t \in Threads : \A lo : Alone(t, lo, s)
         /\ \A i \in 1..Len(freeList) : freeList[i] # s
         /\ ~Filled(s) /\ s \in 1..total /\ generation[s] >= 1 /\ Now(s) \in Handles
<1>1. ASSUME NEW u \in Threads, NEW k \in 1..Depth(u), Holds(Fr(u, k)), Fr(u, k).job = s
      PROVE  FALSE
  <2>1. PICK f \in Frame : f = Fr(u, k)
    BY Frames1 DEF JInv
  <2>2. FrOK(f) /\ f.job = s /\ Holds(f)
    BY <1>1, <2>1 DEF JInv, FramesOK
  <2>3. Fills(f) => Filled(s)
    BY <1>1, <2>1 DEF Filled
  <2> QED
    BY <2>2, <2>3 DEF FrOK, HolderOK, Holds, Fills, FillPCs, RunPCs, Born
<1>2. ~Filled(s)
  BY <1>1 DEF Filled, Fills, Holds
<1>3. \A i \in 1..Len(freeList) : freeList[i] # s
  BY DEF JInv, FreeOK
<1>4. s \in 1..total /\ generation[s] >= 1 /\ Now(s) \in Handles
  BY Bounds DEF Born, JInv, SlotsOK, SlotOK
<1> QED
  BY <1>1, <1>2, <1>3, <1>4 DEF Alone

(* A quiet step leaves the slots as they are.                              *)
QuietSlots ==
  UNCHANGED <<status, generation, function, total, phase>>

LEMMA QuietShift ==
  ASSUME JInv, DataOK', CountOK', QuietSlots,
         NEW t \in Threads, NEW lo, NEW n \in 0..1, NEW a, NEW s \in Slots \union {Null},
         Shift(t, lo, n, a, a), Alone(t, lo, s),
         \A k \in 1..Depth(t) : k > lo /\ Fills(Fr(t, k)) => Fr(t, k).job = s /\ n = 1 /\ Fills(a),
         n = 1 /\ Fills(a) => a.job = s /\ \E k \in 1..Depth(t) : k > lo /\ Fills(Fr(t, k)),
         n = 1 => TakesOver(t, lo, a, s), s \in Slots => s \in 1..total,
         lo = Depth(t) /\ lo > 0 => Fr(t, lo).pc \in CallPCs,
         n = 1 => FrOK(a), NewRefs,
         FreeOK' \/ (freeList' = freeList /\ \A i \in 1..Len(freeList) : freeList[i] # s)
  PROVE  JInv'
<1>1. /\ FilledByTop(t, lo, n, a, a, s) /\ Untouched(s)
      /\ total \in Nat /\ total' = total /\ generation' = generation /\ status' = status
      /\ function' = function /\ phase' = phase
  BY DEF FilledByTop, Untouched, QuietSlots, JInv, DataOK
<1>2. \A x : Filled(x)' <=> Filled(x)
  BY <1>1, FilledAbout DEF JInv
<1>3. /\ \A x : Born(x)' <=> Born(x)
      /\ \A h : Known(h)' <=> Known(h)
      /\ \A h : Live(h)' <=> Live(h)
      /\ \A x : SlotOK(x) => SlotOK(x)'
  BY <1>1, <1>2 DEF Born, Known, Live, SlotOK, Now
<1>4. n = 1 => FrOK(a)'
  BY <1>1, <1>3 DEF FrOK, HolderOK, FrameOK, PollOK, Now
<1>5. FramesOK'
  <2>1. generation \in [Slots -> Nat]
    BY DEF JInv, DataOK
  <2> QED
    BY <1>1, <1>3, <1>4, <2>1, FramesKept DEF JInv
<1>6. HoldersOK'
  BY HoldersKept DEF JInv
<1>7. SlotsOK'
  <2>1. s \in Slots => s \in 1..total' /\ SlotOK(s)'
    BY <1>1, <1>3 DEF JInv, SlotsOK
  <2> QED
    BY <1>1, <2>1, SlotsKept DEF JInv
<1>8. FreeOK'
  BY <1>1, FreeKept DEF JInv
<1>9. RefsOK'
  BY <1>3 DEF NewRefs, RefsOK
<1>10. StacksOK' /\ StackTypeOK'
  BY StacksKept, ShiftTypes DEF JInv
<1>11. RunsOnce'
  BY <1>1 DEF JInv, RunsOnce
<1> QED
  BY <1>5, <1>6, <1>7, <1>8, <1>9, <1>10, <1>11 DEF JInv

LEMMA NullAlone ==
  ASSUME JInv, NEW t \in Threads, NEW lo
  PROVE  Alone(t, lo, Null) /\ \A i \in 1..Len(freeList) : freeList[i] # Null
<1>1. ASSUME NEW u \in Threads, NEW k \in 1..Depth(u), Holds(Fr(u, k))
      PROVE  Fr(u, k).job # Null
  <2>1. PICK f \in Frame : f = Fr(u, k)
    BY Frames1 DEF JInv
  <2>2. FrOK(f) /\ Holds(f)
    BY <1>1, <2>1 DEF JInv, FramesOK
  <2>3. f.job \in 1..total /\ total \in Nat
    BY <2>2, HolderSlot DEF JInv, DataOK
  <2> QED
    BY <2>1, <2>3 DEF Null
<1>2. \A i \in 1..Len(freeList) : freeList[i] # Null
  BY Bounds DEF JInv, FreeOK, Null
<1> QED
  BY <1>1, <1>2 DEF Alone

LEMMA QuietBecome ==
  ASSUME JInv, NEW t \in Threads, stack[t] # <<>>, NEW top, top = Top(t),
         NEW g \in Frame, Become(t, g), FrOK(g),
         DataOK', QuietSlots, freeList' = freeList, adds' = adds,
         NewRefs,
         Holds(g) => Holds(top) /\ g.job = top.job, Fills(g) <=> Fills(top),
         g.pc \in AllocPCs => top.pc \in AllocPCs
  PROVE  JInv'
<1> PICK d : d = Depth(t)
  OBVIOUS
<1> PICK lo : lo = d - 1
  OBVIOUS
<1>1. StackTypeOK /\ Shift(t, lo, 1, g, g)
  BY BecomeShift DEF JInv
<1>2. /\ d \in Nat \ {0} /\ d \in 1..Depth(t) /\ Fr(t, d) = top
      /\ \A k \in 1..Depth(t) : k > lo => Fr(t, k) = top
      /\ top.pc \in AllocPCs => t \in Allocating
  BY TopFrame
<1>3. CountOK'
  <2>1. adds' >= adds /\ total' = total /\ generation' = generation
    BY ConstantsOK DEF JInv, DataOK, QuietSlots
  <2> QED
    BY <1>1, <1>2, <2>1, CountKept DEF JInv
<1>4. ASSUME NEW s \in Slots \union {Null}, s = IF Holds(top) THEN top.job ELSE Null
      PROVE  JInv'
  <2>1. Alone(t, lo, s) /\ \A i \in 1..Len(freeList) : freeList[i] # s
    BY <1>4, HeldAlone, NullAlone
  <2>2. s \in Slots => s \in 1..total
    BY <1>4, HeldAlone DEF Slots, Null
  <2>3. /\ \A k \in 1..Depth(t) : k > lo /\ Fills(Fr(t, k)) => Fr(t, k).job = s /\ Fills(g)
        /\ Fills(g) => g.job = s /\ \E k \in 1..Depth(t) : k > lo /\ Fills(Fr(t, k))
        /\ TakesOver(t, lo, g, s)
    BY <1>2, <1>4 DEF Holds, Fills, TakesOver
  <2>4. lo \in Nat /\ ~(lo = Depth(t)) /\ 1 \in 0..1
    BY <1>2
  <2> QED
    BY <1>1, <1>3, <2>1, <2>2, <2>3, <2>4, QuietShift
<1>5. (IF Holds(top) THEN top.job ELSE Null) \in Slots \union {Null}
  BY HeldAlone
<1> QED
  BY <1>4, <1>5

LEMMA QuietReturn ==
  ASSUME JInv, NEW t \in Threads, stack[t] # <<>>, NEW top, top = Top(t), ~Fills(top),
         Return(t), DataOK', QuietSlots, freeList' = freeList, adds' = adds,
         NewRefs
  PROVE  JInv'
<1> PICK d : d = Depth(t)
  OBVIOUS
<1> PICK lo : lo = d - 1
  OBVIOUS
<1>1. StackTypeOK /\ Shift(t, lo, 0, Blank, Blank)
  BY ReturnShift DEF JInv
<1>2. /\ d \in Nat \ {0} /\ \A k \in 1..Depth(t) : k > lo => Fr(t, k) = top
  BY TopFrame
<1>3. CountOK'
  <2>1. adds' >= adds /\ total' = total /\ generation' = generation
    BY ConstantsOK DEF JInv, DataOK, QuietSlots
  <2> QED
    BY <1>1, <2>1, CountKept DEF JInv
<1>4. Alone(t, lo, Null) /\ \A i \in 1..Len(freeList) : freeList[i] # Null
  BY NullAlone
<1>5. /\ \A k \in 1..Depth(t) : ~(k > lo /\ Fills(Fr(t, k)))
      /\ Null \notin Slots /\ Null \in Slots \union {Null}
      /\ lo \in Nat /\ ~(lo = Depth(t)) /\ 0 \in 0..1
  BY <1>2 DEF Null, Slots
<1> QED
  BY <1>1, <1>3, <1>4, <1>5, QuietShift, SMTT(30)

LEMMA QuietEnter ==
  ASSUME JInv, NEW t \in Threads, stack[t] = <<>> \/ Top(t).pc \in CallPCs,
         NEW g \in Frame, Enter(t, g), FrOK(g), ~Holds(g),
         DataOK', CountOK', QuietSlots, freeList' = freeList,
         NewRefs
  PROVE  JInv'
<1> PICK d : d = Depth(t)
  OBVIOUS
<1>1. StackTypeOK /\ Shift(t, d, 1, g, g) /\ d \in Nat
  BY EnterShift, Frames1 DEF JInv
<1>2. d > 0 => Fr(t, d).pc \in CallPCs
  BY <1>1, Frames1
<1>3. Alone(t, d, Null) /\ \A i \in 1..Len(freeList) : freeList[i] # Null
  BY NullAlone
<1>4. /\ \A k \in 1..Depth(t) : ~(k > d /\ Fills(Fr(t, k)))
      /\ ~Fills(g) /\ TakesOver(t, d, g, Null)
      /\ Null \notin Slots /\ Null \in Slots \union {Null} /\ 1 \in 0..1
  BY <1>1 DEF Null, Slots, Holds, Fills, TakesOver
<1>5. d = Depth(t) /\ d > 0 => Fr(t, d).pc \in CallPCs
  BY <1>2
<1> QED
  BY <1>1, <1>3, <1>4, <1>5, QuietShift

(* A loud step is about one slot: what was filled and referred to stays so, *)
LEMMA LoudRefs ==
  ASSUME JInv, NEW t \in Threads, stack[t] # <<>>, NEW top, top = Top(t), NEW lo, lo = Depth(t) - 1,
         NEW n, NEW a, NEW b, NEW s \in Slots, Shift(t, lo, n, a, b),
         Alone(t, lo, s), Fills(top) => top.job = s,
         n >= 1 /\ Fills(a) => a.job = s /\ Fills(top), n = 2 => ~Fills(b),
         Untouched(s), generation' = generation, total' = total
  PROVE  /\ FilledByTop(t, lo, n, a, b, s)
         /\ Filled(s)' <=> n >= 1 /\ Fills(a)
         /\ Filled(s) <=> Fills(top)
         /\ \A x \in Slots : Born(x) => Born(x)'
         /\ \A h \in Handles : Known(h) => Known(h)'
         /\ \A h \in Handles : Live(h)' <=> Live(h)
<1> PICK d : d = Depth(t)
  OBVIOUS
<1>1. /\ d \in 1..Depth(t) /\ d \in Nat /\ lo = d - 1
      /\ \A k \in 1..Depth(t) : k > lo => Fr(t, k) = top
  BY TopFrame
<1>2. FilledByTop(t, lo, n, a, b, s)
  BY <1>1 DEF FilledByTop
<1>3. /\ Filled(s)' <=> n >= 1 /\ Fills(a)
      /\ Filled(s) <=> \E k \in 1..Depth(t) : k > lo /\ Fills(Fr(t, k))
  BY <1>2, FilledAbout DEF JInv
<1>4. Filled(s) <=> Fills(top)
  <2>1. d > lo
    BY <1>1
  <2> QED
    BY <1>1, <1>3, <2>1
<1>5. total \in Nat /\ generation \in [Slots -> Nat]
  BY DEF JInv, DataOK
<1>6. Born(s) => Born(s)'
  BY <1>3, <1>4, <1>5 DEF Born
<1>7. \A h \in Handles : h[1] = s /\ Known(h) => Known(h)'
  BY <1>3, <1>4, <1>5 DEF Known
<1>8. total' \in Nat /\ total' >= total
  BY <1>5
<1>9. /\ \A x \in Slots : Born(x) => Born(x)'
      /\ \A h \in Handles : Known(h) => Known(h)'
  BY <1>2, <1>6, <1>7, <1>8, RefsKept DEF JInv
<1> QED
  BY <1>2, <1>3, <1>4, <1>9 DEF Live

(* and it keeps the invariant if the slot and the new frames are left well. *)
LEMMA LoudStep ==
  ASSUME JInv, NEW t \in Threads, stack[t] # <<>>, NEW top, top = Top(t), NEW lo, lo = Depth(t) - 1,
         NEW n, NEW a, NEW b, NEW s \in Slots, Shift(t, lo, n, a, b),
         Alone(t, lo, s), FilledByTop(t, lo, n, a, b, s), Fills(top) => top.job = s,
         n >= 1 /\ Fills(a) => a.job = s /\ Fills(top), n = 2 => ~Fills(b),
         Untouched(s), generation' = generation, total' = total,
         n >= 1 => TakesOver(t, lo, a, s) /\ a.pc \notin AllocPCs,
         n = 2 => ~Holds(b) /\ b.pc \notin AllocPCs /\ a.pc \in CallPCs,
         s \in 1..total, \A i \in 1..Len(freeList) : freeList[i] # s,
         DataOK', RunsOnce', freeList' = freeList, issued' = issued, adds' = adds,
         \A x \in Slots : Referred(x)' => Born(x),
         status[s] \in Finished => status'[s] \in Finished \/ Fills(top),
         \A h \in Handles : h[1] = s /\ Known(h) /\ phase[h] = "done" => phase'[h] = "done",
         SlotOK(s)', n >= 1 => FrOK(a)', n = 2 => FrOK(b)'
  PROVE  JInv'
<1>1. /\ FilledByTop(t, lo, n, a, b, s)
      /\ Filled(s) <=> Fills(top)
      /\ \A x \in Slots : Born(x) => Born(x)'
      /\ \A h \in Handles : Known(h) => Known(h)'
      /\ \A h \in Handles : Live(h)' <=> Live(h)
  BY LoudRefs
<1>2. /\ Depth(t) \in Nat \ {0} /\ ~(lo = Depth(t)) /\ StackTypeOK
      /\ total \in Nat /\ generation \in [Slots -> Nat] /\ adds \in Nat
  <2>1. Depth(t) \in Nat \ {0}
    BY TopFrame
  <2>2. StackTypeOK /\ total \in Nat /\ generation \in [Slots -> Nat] /\ adds \in Nat
    BY ConstantsOK DEF JInv, DataOK
  <2> QED
    BY <2>1, <2>2
<1>3. /\ total' \in Nat /\ total' >= total /\ generation'[s] >= generation[s] /\ adds' >= adds
  BY <1>2
<1>4. \A h \in Handles : h[1] = s /\ Known(h) /\ Live(h)' /\ status[s] \in Finished
                         => status'[s] \in Finished
  BY <1>1, <1>2 DEF Known, Live
<1>5. FramesOK'
  BY <1>1, <1>3, <1>4, FramesKept DEF JInv
<1>6. HoldersOK'
  BY HoldersKept DEF JInv
<1>7. SlotsOK'
  BY <1>1, SlotsKept DEF JInv
<1>8. FreeOK'
  BY <1>3, FreeKept DEF JInv
<1>9. RefsOK'
  BY <1>1 DEF JInv, RefsOK
<1>10. StacksOK' /\ StackTypeOK'
  BY <1>2, StacksKept, ShiftTypes DEF JInv
<1>11. CountOK'
  BY <1>3, CountKept DEF JInv
<1> QED
  BY <1>5, <1>6, <1>7, <1>8, <1>9, <1>10, <1>11 DEF JInv

(* Steps that change the stack alone.                                      *)
Still == UNCHANGED <<slotVars, poolVars, queue, issued, ghosts>>

LEMMA StillData ==
  ASSUME JInv, Still, adds' \in 0..MaxJobs, sets' \in 0..MaxSets
  PROVE  /\ DataOK' /\ QuietSlots /\ freeList' = freeList
         /\ NewRefs
<1> USE DEF Still, slotVars, poolVars, ghosts
<1>1. DataOK'
  BY DEF JInv, DataOK
<1>2. \A x \in Slots : Referred(x)' => Referred(x)
  BY DEF Referred
<1> QED
  BY <1>1, <1>2 DEF JInv, RefsOK, NewRefs, QuietSlots

LEMMA StillBecome ==
  ASSUME JInv, NEW t \in Threads, stack[t] # <<>>, NEW top, top = Top(t),
         NEW g \in Frame, Become(t, g), FrOK(g), Still, adds' = adds, sets' = sets,
         Holds(g) => Holds(top) /\ g.job = top.job, Fills(g) <=> Fills(top),
         g.pc \in AllocPCs => top.pc \in AllocPCs
  PROVE  JInv'
<1>1. adds' \in 0..MaxJobs /\ sets' \in 0..MaxSets
  BY DEF JInv, DataOK
<1> QED
  BY <1>1, StillData, QuietBecome

LEMMA StillReturn ==
  ASSUME JInv, NEW t \in Threads, stack[t] # <<>>, NEW top, top = Top(t), ~Fills(top),
         Return(t), Still, adds' = adds, sets' = sets
  PROVE  JInv'
<1>1. adds' \in 0..MaxJobs /\ sets' \in 0..MaxSets
  BY DEF JInv, DataOK
<1> QED
  BY <1>1, StillData, QuietReturn

SameBut(g, f, pc) ==
  /\ g \in Frame /\ g.pc = pc /\ g.job = f.job /\ g.own = f.own /\ g.arg = f.arg
  /\ g.prio = f.prio /\ g.cur = f.cur /\ g.next = f.next /\ g.seen = f.seen
  /\ g.wait = f.wait /\ g.late = f.late

LEMMA Goes ==
  ASSUME NEW f \in Frame, NEW pc \in PCs
  PROVE  SameBut([f EXCEPT !.pc = pc], f, pc)
BY DEF Frame, SameBut

HoldPCs == FillPCs \union RunPCs \union {"push"}

LEMMA StillGoto ==
  ASSUME JInv, NEW t \in Threads, stack[t] # <<>>, NEW top \in Frame, top = Top(t),
         NEW pc \in PCs \ AllocPCs, Goto(t, pc), Still, adds' = adds, sets' = sets,
         pc \in FillPCs <=> top.pc \in FillPCs, pc \in HoldPCs => top.pc \in HoldPCs,
         \A g \in Frame : SameBut(g, top, pc) => FrOK(g)
  PROVE  JInv'
<1> PICK g : g = [top EXCEPT !.pc = pc]
  OBVIOUS
<1>1. SameBut(g, top, pc) /\ Become(t, g)
  BY Goes DEF Goto
<1>2. g \in Frame /\ FrOK(g) /\ g.pc = pc /\ g.job = top.job
  BY <1>1 DEF SameBut
<1> QED
  BY <1>1, <1>2, StillBecome DEF Holds, Fills, HoldPCs

(* A call that has nothing to allocate is entered.                         *)
LEMMA EnterCount ==
  ASSUME JInv, NEW t \in Threads, NEW g \in Frame, Enter(t, g), g.pc \notin AllocPCs,
         Still, adds' = adds, sets' = sets
  PROVE  CountOK'
<1> PICK d : d = Depth(t)
  OBVIOUS
<1>1. StackTypeOK /\ Shift(t, d, 1, g, g)
  BY EnterShift DEF JInv
<1>2. /\ DataOK' /\ total' = total /\ generation' = generation /\ adds \in Nat /\ adds' >= adds
  BY StillData, ConstantsOK DEF JInv, DataOK, Still, slotVars, poolVars
<1> QED
  BY <1>1, <1>2, CountKept DEF JInv

-----------------------------------------------------------------------------
(* fl_jobs_add_*.                                                          *)

(* A handle that is still live names a slot that is not being filled.      *)
LEMMA KnownLive ==
  ASSUME JInv, NEW h, Known(h), Live(h)
  PROVE  h \in Handles /\ h[1] \in Slots /\ Born(h[1]) /\ ~Filled(h[1]) /\ h = Now(h[1])
<1>1. h \in Handles /\ h[1] \in 1..total /\ (Filled(h[1]) => h[2] < generation[h[1]])
  BY DEF Known
<1>2. h[1] \in Slots /\ h[2] \in Nat /\ generation[h[1]] = h[2] /\ h = <<h[1], h[2]>>
  BY <1>1 DEF Handles, Live
<1>3. ~Filled(h[1])
  BY <1>1, <1>2
<1> QED
  BY <1>1, <1>2, <1>3 DEF Born, Now

LEMMA CheckDependencyStep ==
  ASSUME JInv, NEW t \in Threads, CheckDependency(t)
  PROVE  JInv'
<1> PICK top \in Frame : top = Top(t)
  BY TopFrame DEF CheckDependency, At
<1>1. /\ stack[t] # <<>> /\ top.pc = "depgen" /\ FrOK(top)
      /\ Still /\ adds' = adds /\ sets' = sets
  BY TopFrame DEF CheckDependency, At, Still
<1>2. CASE Live(top.arg)
  <2> PICK g : g = [top EXCEPT !.pc = "alloc", !.cur = top.arg[1]]
    OBVIOUS
  <2>1. Born(top.arg[1]) /\ top.arg[1] \in Slots
    BY <1>1, <1>2, KnownLive DEF FrOK, FrameOK
  <2>2. /\ g \in Frame /\ g.pc = "alloc" /\ g.cur = top.arg[1]
        /\ g.job = top.job /\ g.arg = top.arg /\ g.next = top.next
    BY <2>1 DEF Frame, PCs
  <2>3. FrOK(g) /\ ~Holds(g) /\ ~Fills(g) /\ ~Fills(top)
    BY <1>1, <2>1, <2>2 DEF FrOK, HolderOK, FrameOK, PollOK, JobLess, Polling, Holds, Fills,
                             FillPCs, RunPCs
  <2>4. Become(t, g)
    BY <1>2 DEF CheckDependency
  <2> QED
    BY <1>1, <2>2, <2>3, <2>4, StillBecome DEF AllocPCs
<1>3. CASE ~Live(top.arg) /\ Return(t)
  BY <1>1, <1>3, StillReturn DEF Fills, FillPCs
<1>4. CASE ~Live(top.arg) /\ Goto(t, "alloc")
  <2> PICK g : g = [top EXCEPT !.pc = "alloc"]
    OBVIOUS
  <2>1. SameBut(g, top, "alloc") /\ Become(t, g)
    BY <1>4, Goes DEF Goto, PCs
  <2>2. g \in Frame /\ FrOK(g) /\ ~Holds(g) /\ ~Fills(g) /\ ~Fills(top)
    BY <1>1, <2>1 DEF SameBut, FrOK, HolderOK, FrameOK, PollOK, JobLess, Polling,
                      Holds, Fills, FillPCs, RunPCs
  <2> QED
    BY <1>1, <2>1, <2>2, StillBecome DEF AllocPCs
<1> QED
  BY <1>1, <1>2, <1>3, <1>4 DEF CheckDependency

LEMMA ReadDependencyStatusStep ==
  ASSUME JInv, NEW t \in Threads, ReadDependencyStatus(t)
  PROVE  JInv'
<1> PICK top \in Frame : top = Top(t)
  BY TopFrame DEF ReadDependencyStatus, At
<1>1. /\ stack[t] # <<>> /\ top.pc = "depstatus" /\ FrOK(top)
      /\ Still /\ adds' = adds /\ sets' = sets
  BY TopFrame DEF ReadDependencyStatus, At, Still
<1>2. PICK pc \in {"publish", "park"} : Goto(t, pc)
  BY DEF ReadDependencyStatus
<1>3. \A g \in Frame : SameBut(g, top, pc) => FrOK(g)
  BY <1>1, <1>2 DEF SameBut, FrOK, HolderOK, FrameOK, PollOK, JobLess, Polling, FillPCs, RunPCs
<1> QED
  BY <1>1, <1>2, <1>3, StillGoto DEF PCs, FillPCs, RunPCs, HoldPCs, AllocPCs

LEMMA RecheckDependencyStep ==
  ASSUME JInv, NEW t \in Threads, RecheckDependency(t)
  PROVE  JInv'
<1> PICK top \in Frame : top = Top(t)
  BY TopFrame DEF RecheckDependency, At
<1>1. /\ stack[t] # <<>> /\ top.pc = "recheck" /\ FrOK(top)
      /\ Still /\ adds' = adds /\ sets' = sets
  BY TopFrame DEF RecheckDependency, At, Still
<1>2. PICK pc \in {"selfpromote", "added"} : Goto(t, pc)
  BY DEF RecheckDependency
<1>3. \A g \in Frame : SameBut(g, top, pc) => FrOK(g)
  BY <1>1, <1>2 DEF SameBut, FrOK, HolderOK, FrameOK, PollOK, JobLess, Polling, FillPCs, RunPCs
<1> QED
  BY <1>1, <1>2, <1>3, StillGoto DEF PCs, FillPCs, RunPCs, HoldPCs, AllocPCs

LEMMA ReturnHandleStep ==
  ASSUME JInv, NEW t \in Threads, ReturnHandle(t)
  PROVE  JInv'
<1> PICK top \in Frame : top = Top(t)
  BY TopFrame DEF ReturnHandle, At
<1>1. /\ stack[t] # <<>> /\ top.pc = "added" /\ Return(t) /\ Known(top.own)
      /\ issued' = issued \union {top.own} /\ adds' = adds
      /\ UNCHANGED <<slotVars, poolVars, queue, sets, ghosts>>
  BY TopFrame DEF ReturnHandle, At, FrOK, FrameOK
<1> USE DEF slotVars, poolVars, ghosts
<1>2. DataOK' /\ QuietSlots
  BY <1>1 DEF JInv, DataOK, QuietSlots, Known
<1>3. NewRefs
  <2>1. \A x \in Slots : Referred(x)' => Referred(x)
    BY <1>1 DEF Referred
  <2> QED
    BY <1>1, <2>1 DEF JInv, RefsOK, NewRefs
<1> QED
  BY <1>1, <1>2, <1>3, QuietReturn DEF Fills, FillPCs

LEMMA FillStep ==
  ASSUME JInv, NEW t \in Threads, Fill(t)
  PROVE  JInv'
<1>t. PICK top \in Frame : top = Top(t)
  BY TopFrame DEF Fill, At
<1>l. PICK lo : lo = Depth(t) - 1
  OBVIOUS
<1>p. PICK pc \in {"publish", "depstatus"} : pc = IF top.cur = Null THEN "publish" ELSE "depstatus"
  OBVIOUS
<1>g. PICK g : g = [top EXCEPT !.pc = pc]
  OBVIOUS
<1>s. PICK s : s = top.job
  OBVIOUS
<1>0. /\ function' = [function EXCEPT ![s] = top.own]
      /\ first_dependent' = [first_dependent EXCEPT ![s] = Null]
      /\ next_dependent' = [next_dependent EXCEPT ![s] = Null]
      /\ priority' = [priority EXCEPT ![s] = top.prio]
      /\ phase' = [phase EXCEPT ![top.own] = "pending"]
      /\ dep' = [dep EXCEPT ![top.own] = top.arg]
      /\ UNCHANGED <<status, generation, freeList, total, queue, issued, adds, sets>>
  BY <1>t, <1>s DEF Fill, poolVars
<1>1. /\ stack[t] # <<>> /\ top.pc = "fill" /\ FrOK(top) /\ Holds(top) /\ Fills(top)
      /\ Become(t, g) /\ StackTypeOK /\ DataOK
  BY <1>t, <1>p, <1>g, TopFrame DEF Fill, At, Goto, Holds, Fills, FillPCs, JInv
<1>2. SameBut(g, top, pc) /\ g \in Frame /\ Fills(g) /\ Holds(g) /\ g.pc \notin AllocPCs
  <2>1. pc \in PCs
    BY DEF PCs
  <2>2. SameBut(g, top, pc)
    BY <1>g, <2>1, Goes
  <2> QED
    BY <2>2 DEF SameBut, Fills, Holds, FillPCs, AllocPCs
<1>3. /\ s \in Slots /\ s \in 1..total /\ generation[s] >= 1 /\ Alone(t, lo, s)
      /\ \A i \in 1..Len(freeList) : freeList[i] # s
  BY <1>t, <1>l, <1>s, <1>1, HeldAlone
<1>4. /\ top.own = Now(s) /\ Now(s) \in Handles
      /\ status[s] = "free" \/ (status[s] = "not_started" /\ generation[s] = 1)
  BY <1>t, <1>l, <1>s, <1>1, HeldAlone DEF FrOK, HolderOK, FillPCs
<1>5. DataOK'
  BY <1>0, <1>1, <1>3, <1>4 DEF DataOK, Frame
<1>6. Untouched(s) /\ RunsOnce'
  BY <1>0, <1>3, <1>4 DEF Untouched, JInv, DataOK, RunsOnce, Now
<1>7. /\ Shift(t, lo, 1, g, g)
      /\ Fills(top) => top.job = s
      /\ 1 >= 1 /\ Fills(g) => g.job = s /\ Fills(top)
      /\ 1 = 2 => ~Fills(g)
      /\ 1 >= 1 => TakesOver(t, lo, g, s) /\ g.pc \notin AllocPCs
      /\ 1 = 2 => ~Holds(g) /\ g.pc \notin AllocPCs /\ g.pc \in CallPCs
  BY <1>l, <1>s, <1>1, <1>2, BecomeShift DEF SameBut, TakesOver
<1>8. /\ FilledByTop(t, lo, 1, g, g, s) /\ Filled(s) /\ Filled(s)'
      /\ \A x \in Slots : Born(x) => Born(x)'
      /\ \A h \in Handles : Known(h) => Known(h)'
  <2>1. generation' = generation /\ total' = total
    BY <1>0
  <2>2. FilledByTop(t, lo, 1, g, g, s)
    BY <1>t, <1>l, <1>1, <1>3, <1>6, <1>7, <2>1, LoudRefs
  <2> QED
    BY <1>t, <1>l, <1>1, <1>2, <1>3, <1>6, <1>7, <2>1, <2>2, LoudRefs
<1>9. SlotOK(s)'
  BY <1>0, <1>3, <1>8 DEF SlotOK
<1>10. FrOK(g)'
  <2>1. HolderOK(g)'
    <3>1. g.job = s /\ g.own = Now(s) /\ g.pc \in FillPCs /\ g.pc # "fill"
      BY <1>s, <1>2, <1>4 DEF SameBut, FillPCs
    <3>2. Now(s)' = Now(s)
      BY <1>0 DEF Now
    <3>3. function'[s] = Now(s) /\ phase'[Now(s)] = "pending" /\ status'[s] = status[s]
      BY <1>0, <1>1, <1>3, <1>4 DEF DataOK
    <3> QED
      BY <1>0, <1>3, <1>4, <3>1, <3>2, <3>3 DEF HolderOK, FillPCs
  <2>2. FrameOK(g)'
    BY <1>p, <1>1, <1>2, <1>8 DEF SameBut, FrameOK, FrOK, FillPCs, JobLess, Frame, Known
  <2> QED
    BY <1>2, <2>1, <2>2 DEF FrOK, PollOK, Polling, SameBut
<1>11. \A x \in Slots : Referred(x)' => Born(x)
  <2>1. \A x \in Slots : Referred(x)' => Referred(x)
    BY <1>0, <1>1 DEF Referred, DataOK, Null, Slots
  <2> QED
    BY <2>1 DEF JInv, RefsOK
<1>12. \A h \in Handles : h[1] = s /\ Known(h) /\ phase[h] = "done" => phase'[h] = "done"
  BY <1>0, <1>1, <1>3, <1>4, <1>8 DEF Known, Now, DataOK
<1>13. /\ status[s] \in Finished => status'[s] \in Finished \/ Fills(top)
       /\ generation' = generation /\ total' = total
       /\ freeList' = freeList /\ issued' = issued /\ adds' = adds
  BY <1>0
<1> QED
  BY <1>t, <1>l, <1>1, <1>2, <1>3, <1>5, <1>6, <1>7, <1>8, <1>9, <1>10, <1>11, <1>12, <1>13,
     LoudStep

(* A step that stores or swaps a status, and changes nothing else.         *)
StatusOnly(s, st) ==
  /\ status' = [status EXCEPT ![s] = st]
  /\ UNCHANGED <<generation, function, first_dependent, next_dependent, priority,
                 poolVars, queue, issued, adds, sets, ghosts>>

LEMMA StatusData ==
  ASSUME JInv, NEW s \in Slots, NEW st \in Statuses, StatusOnly(s, st)
  PROVE  /\ DataOK' /\ Untouched(s) /\ RunsOnce'
         /\ \A x \in Slots : Referred(x)' => Born(x)
         /\ \A h \in Handles : h[1] = s /\ Known(h) /\ phase[h] = "done" => phase'[h] = "done"
         /\ status'[s] = st /\ generation' = generation /\ total' = total
         /\ freeList' = freeList /\ issued' = issued /\ adds' = adds
         /\ function' = function /\ phase' = phase
<1> USE DEF StatusOnly, poolVars, ghosts
<1>1. DataOK' /\ Untouched(s) /\ RunsOnce' /\ status'[s] = st
  BY DEF JInv, DataOK, Untouched, RunsOnce
<1>2. \A x \in Slots : Referred(x)' => Referred(x)
  BY DEF Referred
<1> QED
  BY <1>1, <1>2 DEF JInv, RefsOK

LEMMA StatusStep ==
  ASSUME JInv, NEW t \in Threads, stack[t] # <<>>, NEW top, top = Top(t),
         NEW lo, lo = Depth(t) - 1, NEW n, NEW a, NEW b, NEW s \in Slots,
         Shift(t, lo, n, a, b), Alone(t, lo, s), FilledByTop(t, lo, n, a, b, s),
         Fills(top) => top.job = s,
         n >= 1 /\ Fills(a) => a.job = s /\ Fills(top), n = 2 => ~Fills(b),
         n >= 1 => TakesOver(t, lo, a, s) /\ a.pc \notin AllocPCs,
         n = 2 => ~Holds(b) /\ b.pc \notin AllocPCs /\ a.pc \in CallPCs,
         s \in 1..total, \A i \in 1..Len(freeList) : freeList[i] # s,
         NEW st \in Statuses, StatusOnly(s, st),
         status[s] \in Finished => st \in Finished \/ Fills(top),
         SlotOK(s)', n >= 1 => FrOK(a)', n = 2 => FrOK(b)'
  PROVE  JInv'
<1>1. status[s] \in Finished => status'[s] \in Finished \/ Fills(top)
  BY StatusData
<1> QED
  BY <1>1, StatusData, LoudStep

(* The frame of schedule_job_with_priority.                                *)
LEMMA SchedulingFrame ==
  ASSUME NEW f \in Frame
  PROVE  /\ Scheduling(f) \in Frame /\ Scheduling(f).pc = "enqueue" /\ Scheduling(f).job = f.job
         /\ Scheduling(f).prio = f.prio
         /\ Scheduling(f).arg = NoHandle /\ Scheduling(f).cur = Null /\ Scheduling(f).next = Null
<1>1. f.job \in Slots \union {Null} /\ f.prio \in Nat
  BY DEF Frame
<1> QED
  BY <1>1, BlankFrame DEF Scheduling, Frame, PCs

LEMMA PublishStep ==
  ASSUME JInv, NEW t \in Threads, Publish(t)
  PROVE  JInv'
<1>t. PICK top \in Frame : top = Top(t)
  BY TopFrame DEF Publish, At
<1>l. PICK lo : lo = Depth(t) - 1
  OBVIOUS
<1>a. PICK a : a = [top EXCEPT !.pc = "added"]
  OBVIOUS
<1>b. PICK b : b = Scheduling(top)
  OBVIOUS
<1>s. PICK s : s = top.job
  OBVIOUS
<1>0. StatusOnly(s, "not_started")
  BY <1>t, <1>s DEF Publish, StatusOnly
<1>1. /\ stack[t] # <<>> /\ top.pc = "publish" /\ FrOK(top) /\ Holds(top) /\ Fills(top)
      /\ Call(t, a, b) /\ StackTypeOK
  BY <1>t, <1>a, <1>b, TopFrame DEF Publish, At, Holds, Fills, FillPCs, JInv
<1>2. /\ SameBut(a, top, "added") /\ a \in Frame /\ b \in Frame /\ ~Fills(a) /\ ~Fills(b)
      /\ ~Holds(a) /\ ~Holds(b) /\ a.pc \notin AllocPCs /\ b.pc \notin AllocPCs /\ a.pc \in CallPCs
      /\ b.pc = "enqueue" /\ b.arg = NoHandle /\ b.cur = Null /\ b.next = Null
  <2>1. SameBut(a, top, "added")
    BY <1>a, Goes DEF PCs
  <2>2. b \in Frame /\ b.pc = "enqueue" /\ b.arg = NoHandle /\ b.cur = Null /\ b.next = Null
    BY <1>b, SchedulingFrame
  <2> QED
    BY <2>1, <2>2 DEF SameBut, Fills, Holds, FillPCs, RunPCs, AllocPCs, CallPCs
<1>3. /\ s \in Slots /\ s \in 1..total /\ generation[s] >= 1 /\ Alone(t, lo, s)
      /\ \A i \in 1..Len(freeList) : freeList[i] # s
  BY <1>t, <1>l, <1>s, <1>1, HeldAlone
<1>4. /\ top.own = Now(s) /\ Now(s) \in Handles /\ function[s] = Now(s) /\ phase[Now(s)] = "pending"
  BY <1>t, <1>l, <1>s, <1>1, HeldAlone DEF FrOK, HolderOK, FillPCs
<1>5. /\ Untouched(s) /\ generation' = generation /\ total' = total /\ status'[s] = "not_started"
      /\ function' = function /\ phase' = phase
  BY <1>0, <1>3, StatusData DEF Statuses
<1>6. /\ Shift(t, lo, 2, a, b)
      /\ Fills(top) => top.job = s
      /\ 2 >= 1 /\ Fills(a) => a.job = s /\ Fills(top)
      /\ 2 = 2 => ~Fills(b)
      /\ 2 >= 1 => TakesOver(t, lo, a, s) /\ a.pc \notin AllocPCs
      /\ 2 = 2 => ~Holds(b) /\ b.pc \notin AllocPCs /\ a.pc \in CallPCs
  BY <1>l, <1>s, <1>1, <1>2, CallShift DEF TakesOver
<1>7. /\ FilledByTop(t, lo, 2, a, b, s) /\ ~Filled(s)'
      /\ \A x \in Slots : Born(x) => Born(x)'
      /\ \A h \in Handles : Known(h) => Known(h)'
  <2>1. FilledByTop(t, lo, 2, a, b, s)
    BY <1>t, <1>l, <1>1, <1>3, <1>5, <1>6, LoudRefs
  <2> QED
    BY <1>t, <1>l, <1>1, <1>2, <1>3, <1>5, <1>6, <2>1, LoudRefs
<1>8. SlotOK(s)'
  BY <1>3, <1>4, <1>5 DEF SlotOK, Now
<1>9. FrOK(a)' /\ FrOK(b)'
  <2>1. Born(s)' /\ \A h \in Handles : h = Now(s) => Known(h)'
    BY <1>3, <1>4, <1>5, <1>7 DEF Born, Known, Now, JInv, DataOK
  <2>2. /\ \A x \in Slots : x = s \/ Born(x) => Born(x)'
        /\ \A h \in Handles : h = Now(s) \/ Known(h) => Known(h)'
    BY <1>7, <2>1
  <2>3. b.job = s /\ top.job = s
    BY <1>b, <1>s, SchedulingFrame
  <2>4. FrOK(a)'
    <3>1. HolderOK(a)' /\ PollOK(a)'
      BY <1>2 DEF SameBut, HolderOK, PollOK, Polling, FillPCs
    <3>2. /\ top.cur = Null \/ (top.cur \in Slots /\ Born(top.cur))
          /\ top.next = Null \/ (top.next \in Slots /\ Born(top.next))
          /\ top.arg = NoHandle \/ (top.arg \in Handles /\ Known(top.arg))
      BY <1>1 DEF FrOK, FrameOK, Frame, Known
    <3>3. /\ a.pc = "added" /\ a.job \in Slots /\ a.own \in Handles
          /\ a.job = s \/ Born(a.job)
          /\ a.own = Now(s) \/ Known(a.own)
          /\ a.cur = Null \/ (a.cur \in Slots /\ Born(a.cur))
          /\ a.next = Null \/ (a.next \in Slots /\ Born(a.next))
          /\ a.arg = NoHandle \/ (a.arg \in Handles /\ Known(a.arg))
      BY <1>2, <1>3, <1>4, <2>3, <3>2 DEF SameBut
    <3>5. FrameOK(a)'
      BY <2>2, <3>3 DEF FrameOK, FillPCs, JobLess, Slots, Null
    <3> QED
      BY <3>1, <3>5 DEF FrOK
  <2>5. FrOK(b)'
    BY <1>2, <1>3, <2>2, <2>3
       DEF FrOK, HolderOK, FrameOK, PollOK, Polling, FillPCs, RunPCs, JobLess, Slots, Null
  <2> QED
    BY <2>4, <2>5
<1>10. status[s] \in Finished => "not_started" \in Finished \/ Fills(top)
  BY <1>1
<1> QED
  BY <1>0, <1>t, <1>l, <1>1, <1>3, <1>6, <1>7, <1>8, <1>9, <1>10, StatusStep DEF Statuses

(* A status is changed of a slot that no other frame holds: claimed, made  *)
(* ready, completed or freed.                                              *)
NewOK(g, s, st) ==
  /\ g \in Frame /\ ~Fills(g) /\ g.pc \notin AllocPCs /\ FrameOK(g) /\ PollOK(g)
  /\ g.pc \notin {"body", "pollgen", "pollstatus"}
  /\ g.pc = "begin" => g.job = s /\ st = "claimed" /\ phase[Now(s)] = "pending"
  /\ g.pc \in {"drain", "walk", "promote"} => g.job # s /\ status[g.job] = "promoting"
  /\ g.pc = "push" => g.job = s /\ st = "free"

LEMMA NewFrame ==
  ASSUME JInv, NEW s \in Slots, NEW st \in Statuses, StatusOnly(s, st), NEW g, NewOK(g, s, st),
         \A x \in Slots : Born(x) => Born(x)',
         \A h \in Handles : Known(h) => Known(h)'
  PROVE  FrOK(g)'
<1>1. /\ g \in Frame /\ ~Fills(g) /\ FrameOK(g) /\ PollOK(g)
      /\ g.pc \notin {"body", "pollgen", "pollstatus"}
      /\ \A x \in Slots : g.job = x /\ x # s => status'[x] = status[x]
      /\ status'[s] = st
      /\ generation' = generation /\ phase' = phase
  BY StatusData DEF NewOK, Untouched
<1>2. HolderOK(g)'
  <2>1. g.pc = "begin" => status'[g.job] = "claimed" /\ phase[Now(g.job)] = "pending"
    BY <1>1 DEF NewOK
  <2>2. g.pc \in {"drain", "walk", "promote"} => status'[g.job] = "promoting"
    <3>1. g.pc \in {"drain", "walk", "promote"} => g.job \in Slots
      BY <1>1 DEF FrameOK, JobLess, Frame
    <3> QED
      BY <1>1, <3>1 DEF NewOK
  <2>3. g.pc = "push" => status'[g.job] = "free"
    BY <1>1 DEF NewOK
  <2>4. Now(g.job)' = Now(g.job)
    BY <1>1 DEF Now
  <2> QED
    BY <1>1, <2>1, <2>2, <2>3, <2>4 DEF HolderOK, Fills
<1>3. FrameOK(g)'
  BY <1>1 DEF FrameOK, Frame, Known
<1>4. PollOK(g)'
  <2>1. Live(g.arg)' <=> Live(g.arg)
    BY <1>1 DEF Live
  <2> QED
    BY <1>1, <2>1 DEF PollOK
<1> QED
  BY <1>2, <1>3, <1>4 DEF FrOK

LEMMA AloneStep ==
  ASSUME JInv, NEW t \in Threads, stack[t] # <<>>, NEW top, top = Top(t), ~Fills(top),
         NEW lo, lo = Depth(t) - 1, NEW n \in 0..2, NEW a, NEW b, NEW s \in Slots,
         Shift(t, lo, n, a, b), Alone(t, lo, s),
         s \in 1..total, \A i \in 1..Len(freeList) : freeList[i] # s,
         NEW st \in Statuses, StatusOnly(s, st),
         status[s] \in Finished => st \in Finished,
         st \in {"not_started", "waiting"} => phase[Now(s)] = "pending",
         st \in {"promoting", "completed", "free"} => phase[Now(s)] = "done",
         n >= 1 => NewOK(a, s, st) /\ TakesOver(t, lo, a, s),
         n = 2 => NewOK(b, s, st) /\ ~Holds(b) /\ a.pc \in CallPCs
  PROVE  JInv'
<1>1. /\ Fills(top) => top.job = s
      /\ n >= 1 /\ Fills(a) => a.job = s /\ Fills(top)
      /\ n = 2 => ~Fills(b)
      /\ n >= 1 => TakesOver(t, lo, a, s) /\ a.pc \notin AllocPCs
      /\ n = 2 => ~Holds(b) /\ b.pc \notin AllocPCs /\ a.pc \in CallPCs
  BY DEF NewOK
<1>2. /\ Untouched(s) /\ generation' = generation /\ total' = total /\ status'[s] = st
      /\ function' = function /\ phase' = phase
  BY StatusData
<1>3. FilledByTop(t, lo, n, a, b, s)
  BY <1>1, <1>2, LoudRefs
<1>4. /\ ~Filled(s) /\ ~Filled(s)'
      /\ \A x \in Slots : Born(x) => Born(x)'
      /\ \A h \in Handles : Known(h) => Known(h)'
  <2>1. /\ Filled(s)' <=> n >= 1 /\ Fills(a)
        /\ Filled(s) <=> Fills(top)
        /\ \A x \in Slots : Born(x) => Born(x)'
        /\ \A h \in Handles : Known(h) => Known(h)'
    BY <1>1, <1>2, <1>3, LoudRefs
  <2> QED
    BY <2>1 DEF NewOK
<1>5. SlotOK(s)'
  BY <1>2, <1>4 DEF JInv, SlotsOK, SlotOK, Now
<1>6. (n >= 1 => FrOK(a)') /\ (n = 2 => FrOK(b)')
  BY <1>4, NewFrame
<1> QED
  BY <1>1, <1>3, <1>5, <1>6, StatusStep
LEMMA ParkStep ==
  ASSUME JInv, NEW t \in Threads, Park(t)
  PROVE  JInv'
<1>t. PICK top \in Frame : top = Top(t)
  BY TopFrame DEF Park, At
<1>l. PICK lo : lo = Depth(t) - 1
  OBVIOUS
<1>g. PICK g : g = [top EXCEPT !.pc = "link"]
  OBVIOUS
<1>s. PICK s : s = top.job
  OBVIOUS
<1>0. StatusOnly(s, "waiting")
  BY <1>t, <1>s DEF Park, StatusOnly
<1>1. /\ stack[t] # <<>> /\ top.pc = "park" /\ FrOK(top) /\ Holds(top) /\ Fills(top)
      /\ Become(t, g) /\ StackTypeOK
  BY <1>t, <1>g, TopFrame DEF Park, At, Goto, Holds, Fills, FillPCs, JInv
<1>2. SameBut(g, top, "link") /\ g \in Frame /\ ~Fills(g) /\ ~Holds(g) /\ g.pc \notin AllocPCs
  <2>1. SameBut(g, top, "link")
    BY <1>g, Goes DEF PCs
  <2> QED
    BY <2>1 DEF SameBut, Fills, Holds, FillPCs, RunPCs, AllocPCs
<1>3. /\ s \in Slots /\ s \in 1..total /\ generation[s] >= 1 /\ Alone(t, lo, s)
      /\ \A i \in 1..Len(freeList) : freeList[i] # s
  BY <1>t, <1>l, <1>s, <1>1, HeldAlone
<1>4. /\ top.own = Now(s) /\ Now(s) \in Handles /\ function[s] = Now(s) /\ phase[Now(s)] = "pending"
  BY <1>t, <1>l, <1>s, <1>1, HeldAlone DEF FrOK, HolderOK, FillPCs
<1>5. /\ Untouched(s) /\ generation' = generation /\ total' = total /\ status'[s] = "waiting"
      /\ function' = function /\ phase' = phase
  BY <1>0, <1>3, StatusData DEF Statuses
<1>6. /\ Shift(t, lo, 1, g, g)
      /\ Fills(top) => top.job = s
      /\ 1 >= 1 /\ Fills(g) => g.job = s /\ Fills(top)
      /\ 1 = 2 => ~Fills(g)
      /\ 1 >= 1 => TakesOver(t, lo, g, s) /\ g.pc \notin AllocPCs
      /\ 1 = 2 => ~Holds(g) /\ g.pc \notin AllocPCs /\ g.pc \in CallPCs
  BY <1>l, <1>s, <1>1, <1>2, BecomeShift DEF TakesOver
<1>7. /\ FilledByTop(t, lo, 1, g, g, s) /\ ~Filled(s)'
      /\ \A x \in Slots : Born(x) => Born(x)'
      /\ \A h \in Handles : Known(h) => Known(h)'
  <2>1. FilledByTop(t, lo, 1, g, g, s)
    BY <1>t, <1>l, <1>1, <1>3, <1>5, <1>6, LoudRefs
  <2> QED
    BY <1>t, <1>l, <1>1, <1>2, <1>3, <1>5, <1>6, <2>1, LoudRefs
<1>8. SlotOK(s)'
  BY <1>3, <1>4, <1>5 DEF SlotOK, Now
<1>9. FrOK(g)'
  <2>1. Born(s)' /\ \A h \in Handles : h = Now(s) => Known(h)'
    BY <1>3, <1>4, <1>5, <1>7 DEF Born, Known, Now, JInv, DataOK
  <2>2. /\ \A x \in Slots : x = s \/ Born(x) => Born(x)'
        /\ \A h \in Handles : h = Now(s) \/ Known(h) => Known(h)'
    BY <1>7, <2>1
  <2>3. top.job = s
    BY <1>s
  <2> QED
    BY <1>1, <1>2, <1>3, <1>4, <2>2, <2>3
       DEF SameBut, FrOK, HolderOK, FrameOK, PollOK, Polling, FillPCs, RunPCs, JobLess, Frame, Known
<1>10. status[s] \in Finished => "waiting" \in Finished \/ Fills(top)
  BY <1>1
<1> QED
  BY <1>0, <1>t, <1>l, <1>1, <1>3, <1>6, <1>7, <1>8, <1>9, <1>10, StatusStep DEF Statuses

LEMMA SelfPromoteStep ==
  ASSUME JInv, NEW t \in Threads, SelfPromote(t)
  PROVE  JInv'
<1>t. PICK top \in Frame : top = Top(t)
  BY TopFrame DEF SelfPromote, At
<1>1. stack[t] # <<>> /\ top.pc = "selfpromote" /\ FrOK(top) /\ StackTypeOK
  BY <1>t, TopFrame DEF SelfPromote, At, JInv
<1>2. CASE status[Top(t).job] = "waiting"
  <2>l. PICK lo : lo = Depth(t) - 1
    OBVIOUS
  <2>a. PICK a : a = [top EXCEPT !.pc = "added"]
    OBVIOUS
  <2>b. PICK b : b = Scheduling(top)
    OBVIOUS
  <2>s. PICK s : s = top.job
    OBVIOUS
  <2>0. StatusOnly(s, "not_started") /\ Call(t, a, b)
    BY <1>t, <1>2, <2>a, <2>b, <2>s DEF SelfPromote, StatusOnly
  <2>1. s \in Slots /\ Born(s) /\ status[s] = "waiting"
    BY <1>t, <1>1, <1>2, <2>s DEF FrOK, FrameOK, FillPCs, JobLess, Frame
  <2>2. /\ Alone(t, lo, s) /\ s \in 1..total /\ phase[Now(s)] = "pending"
        /\ \A i \in 1..Len(freeList) : freeList[i] # s
    BY <2>1, ReadyAlone DEF JInv, SlotsOK, SlotOK
  <2>3. NewOK(a, s, "not_started") /\ ~Holds(a) /\ a.pc \in CallPCs
    <3>1. SameBut(a, top, "added")
      BY <2>a, Goes DEF PCs
    <3> QED
      BY <1>1, <3>1 DEF SameBut, NewOK, FrOK, FrameOK, PollOK, Polling, Fills, Holds,
                        FillPCs, RunPCs, AllocPCs, CallPCs, JobLess
  <2>4. NewOK(b, s, "not_started") /\ ~Holds(b)
    <3>1. /\ b \in Frame /\ b.pc = "enqueue" /\ b.arg = NoHandle /\ b.cur = Null /\ b.next = Null
          /\ b.job # Null /\ Born(b.job)
      BY <2>b, <2>s, <2>1, SchedulingFrame DEF Slots, Null
    <3> QED
      BY <3>1 DEF NewOK, FrameOK, PollOK, Polling, Fills, Holds, FillPCs, RunPCs, AllocPCs, JobLess
  <2>5. Shift(t, lo, 2, a, b) /\ ~Fills(top) /\ 2 \in 0..2 /\ TakesOver(t, lo, a, s)
    BY <1>1, <2>0, <2>l, <2>3, <2>4, CallShift DEF NewOK, Fills, FillPCs, TakesOver
  <2> QED
    BY <1>t, <1>1, <2>l, <2>0, <2>1, <2>2, <2>3, <2>4, <2>5, AloneStep DEF Statuses, Finished
<1>3. CASE status[Top(t).job] # "waiting"
  <2>1. Goto(t, "added") /\ Still /\ adds' = adds /\ sets' = sets
    BY <1>3 DEF SelfPromote, Still, slotVars
  <2>2. \A g \in Frame : SameBut(g, top, "added") => FrOK(g)
    BY <1>1 DEF SameBut, FrOK, HolderOK, FrameOK, PollOK, JobLess, Polling, FillPCs, RunPCs
  <2> QED
    BY <1>t, <1>1, <2>1, <2>2, StillGoto DEF PCs, FillPCs, RunPCs, HoldPCs, AllocPCs
<1> QED
  BY <1>2, <1>3
-----------------------------------------------------------------------------
(* schedule_job_with_priority and try_dequeue_prioritized.                 *)

(* A frame that works on a slot without having it to itself.               *)
LEMMA WorksOn ==
  ASSUME NEW f \in Frame, FrOK(f), f.pc \notin FillPCs, f.pc \notin JobLess
  PROVE  f.job \in Slots /\ f.job # Null /\ Born(f.job)
BY DEF FrOK, FrameOK, Frame

LEMMA LoadPriorityStep ==
  ASSUME JInv, NEW t \in Threads, LoadPriority(t)
  PROVE  JInv'
<1>t. PICK top \in Frame : top = Top(t)
  BY TopFrame DEF LoadPriority, At
<1>g. PICK g : g = [top EXCEPT !.pc = "enqueue", !.prio = priority[top.job]]
  OBVIOUS
<1>1. /\ stack[t] # <<>> /\ top.pc = "loadprio" /\ FrOK(top)
      /\ Become(t, g) /\ Still /\ adds' = adds /\ sets' = sets
  BY <1>t, <1>g, TopFrame DEF LoadPriority, At, Still
<1>2. top.job \in Slots
  BY <1>1, WorksOn DEF FillPCs, JobLess
<1>3. priority[top.job] \in Nat
  BY <1>2 DEF JInv, DataOK
<1>4. /\ g \in Frame /\ g.pc = "enqueue" /\ g.job = top.job /\ g.arg = top.arg
      /\ g.cur = top.cur /\ g.next = top.next
  BY <1>g, <1>3 DEF Frame, PCs
<1>5. FrOK(g) /\ ~Holds(g) /\ ~Fills(g) /\ ~Fills(top) /\ g.pc \notin AllocPCs
  BY <1>1, <1>4 DEF FrOK, HolderOK, FrameOK, PollOK, JobLess, Polling,
                    Holds, Fills, FillPCs, RunPCs, AllocPCs
<1> QED
  BY <1>t, <1>1, <1>4, <1>5, StillBecome

LEMMA EnqueueStep ==
  ASSUME JInv, NEW t \in Threads, Enqueue(t)
  PROVE  JInv'
<1>t. PICK top \in Frame : top = Top(t)
  BY TopFrame DEF Enqueue, At
<1>p. PICK p : p = QueueOf(top.prio)
  OBVIOUS
<1>1. stack[t] # <<>> /\ top.pc = "enqueue" /\ FrOK(top)
  BY <1>t, TopFrame DEF Enqueue, At
<1>2. CASE queue' = [queue EXCEPT ![p] = Append(@, top.job)] /\ Return(t)
  <2>1. top.job \in Slots /\ Born(top.job) /\ ~Fills(top)
    BY <1>1, WorksOn DEF FillPCs, JobLess, Fills
  <2>2. p \in Levels
    BY <1>p, ConstantsOK DEF QueueOf, Levels, High
  <2>3. /\ queue[p] \in Seq(Slots) /\ Append(queue[p], top.job) \in Seq(Slots)
        /\ Len(Append(queue[p], top.job)) = Len(queue[p]) + 1 /\ Len(queue[p]) \in Nat
        /\ \A i \in 1..Len(queue[p]) : Append(queue[p], top.job)[i] = queue[p][i]
        /\ Append(queue[p], top.job)[Len(queue[p]) + 1] = top.job
    BY <2>1, <2>2, AppendProperties, LenProperties DEF JInv, DataOK
  <2>4. QuietSlots /\ freeList' = freeList /\ adds' = adds /\ issued' = issued
    BY DEF Enqueue, QuietSlots, slotVars, poolVars, ghosts
  <2>5. DataOK'
    BY <1>2, <2>3 DEF Enqueue, slotVars, poolVars, ghosts, JInv, DataOK
  <2>6. ASSUME NEW x \in Slots, Referred(x)'
        PROVE  Born(x)
    <3>1. UNCHANGED <<first_dependent, next_dependent>>
      BY DEF Enqueue, slotVars
    <3>2. ASSUME NEW q \in Levels, NEW i \in 1..Len(queue'[q]), queue'[q][i] = x
          PROVE  Referred(x) \/ x = top.job
      <4>1. CASE q # p
        BY <1>2, <3>2, <4>1 DEF JInv, DataOK, Referred
      <4>2. CASE q = p
        <5>1. queue'[p] = Append(queue[p], top.job)
          BY <1>2, <2>2 DEF JInv, DataOK
        <5>2. i \in 1..Len(queue[p]) \/ i = Len(queue[p]) + 1
          BY <2>3, <3>2, <4>2, <5>1
        <5> QED
          BY <2>2, <2>3, <3>2, <4>2, <5>1, <5>2 DEF Referred
      <4> QED
        BY <4>1, <4>2
    <3>3. Referred(x) \/ x = top.job
      BY <2>6, <3>1, <3>2 DEF Referred
    <3> QED
      BY <2>1, <3>3 DEF JInv, RefsOK
  <2>7. NewRefs
    BY <2>4, <2>6 DEF NewRefs, JInv, RefsOK
  <2> QED
    BY <1>t, <1>1, <1>2, <2>1, <2>4, <2>5, <2>7, QuietReturn
<1>3. CASE Goto(t, "inline") /\ queue' = queue
  <2>1. Still /\ adds' = adds /\ sets' = sets
    BY <1>3 DEF Enqueue, Still
  <2>2. \A g \in Frame : SameBut(g, top, "inline") => FrOK(g)
    BY <1>1 DEF SameBut, FrOK, HolderOK, FrameOK, PollOK, JobLess, Polling, FillPCs, RunPCs
  <2> QED
    BY <1>t, <1>1, <1>3, <2>1, <2>2, StillGoto DEF PCs, FillPCs, RunPCs, HoldPCs, AllocPCs
<1> QED
  BY <1>t, <1>p, <1>2, <1>3 DEF Enqueue

(* A claim, by a dequeuer or inline.                                       *)
LEMMA ClaimAlone ==
  ASSUME JInv, NEW t \in Threads, stack[t] # <<>>, NEW top \in Frame, top = Top(t),
         top.pc \in {"inline", "claim"},
         StatusOnly(top.job, "claimed"), status[top.job] = "not_started", Goto(t, "begin")
  PROVE  JInv'
<1>l. PICK lo : lo = Depth(t) - 1
  OBVIOUS
<1>g. PICK g : g = [top EXCEPT !.pc = "begin"]
  OBVIOUS
<1>s. PICK s : s = top.job
  OBVIOUS
<1>1. FrOK(top) /\ StackTypeOK /\ StatusOnly(s, "claimed") /\ Become(t, g)
  BY <1>g, <1>s, TopFrame DEF JInv, Goto
<1>2. s \in Slots /\ Born(s) /\ status[s] = "not_started"
  BY <1>s, <1>1, WorksOn DEF FillPCs, JobLess
<1>3. /\ Alone(t, lo, s) /\ s \in 1..total /\ phase[Now(s)] = "pending"
      /\ \A i \in 1..Len(freeList) : freeList[i] # s
  BY <1>2, ReadyAlone DEF JInv, SlotsOK, SlotOK
<1>4. NewOK(g, s, "claimed") /\ TakesOver(t, lo, g, s)
  <2>1. SameBut(g, top, "begin")
    BY <1>g, Goes DEF PCs
  <2> QED
    BY <1>s, <1>1, <1>3, <2>1 DEF SameBut, NewOK, FrOK, FrameOK, PollOK, Polling, Fills,
                      FillPCs, AllocPCs, JobLess, TakesOver
<1>5. Shift(t, lo, 1, g, g) /\ ~Fills(top) /\ 1 \in 0..2
  BY <1>1, <1>l, <1>4, BecomeShift DEF NewOK, Fills, FillPCs
<1> QED
  BY <1>l, <1>1, <1>2, <1>3, <1>4, <1>5, AloneStep DEF Statuses, Finished

LEMMA ClaimInlineStep ==
  ASSUME JInv, NEW t \in Threads, ClaimInline(t)
  PROVE  JInv'
<1>t. PICK top \in Frame : top = Top(t)
  BY TopFrame DEF ClaimInline, At
<1>1. stack[t] # <<>> /\ top.pc = "inline"
  BY <1>t DEF ClaimInline, At
<1>2. CASE ClaimStatus(Top(t).job) /\ Goto(t, "begin")
  BY <1>t, <1>1, <1>2, ClaimAlone DEF ClaimInline, ClaimStatus, StatusOnly
<1>3. CASE Return(t) /\ UNCHANGED status
  <2>1. Still /\ adds' = adds /\ sets' = sets
    BY <1>3 DEF ClaimInline, Still, slotVars
  <2> QED
    BY <1>t, <1>1, <1>3, <2>1, StillReturn DEF Fills, FillPCs
<1> QED
  BY <1>2, <1>3 DEF ClaimInline

LEMMA ClaimStep ==
  ASSUME JInv, NEW t \in Threads, Claim(t)
  PROVE  JInv'
<1>t. PICK top \in Frame : top = Top(t)
  BY TopFrame DEF Claim, At
<1>1. stack[t] # <<>> /\ top.pc = "claim" /\ FrOK(top)
  BY <1>t, TopFrame DEF Claim, At
<1>2. CASE ClaimStatus(Top(t).job) /\ Goto(t, "begin")
  BY <1>t, <1>1, <1>2, ClaimAlone DEF Claim, ClaimStatus, StatusOnly
<1>3. CASE Goto(t, "scan") /\ UNCHANGED status
  <2>1. Still /\ adds' = adds /\ sets' = sets
    BY <1>3 DEF Claim, Still, slotVars
  <2>2. \A g \in Frame : SameBut(g, top, "scan") => FrOK(g)
    BY <1>1 DEF SameBut, FrOK, HolderOK, FrameOK, PollOK, JobLess, Polling, FillPCs, RunPCs
  <2> QED
    BY <1>t, <1>1, <1>3, <2>1, <2>2, StillGoto DEF PCs, FillPCs, RunPCs, HoldPCs, AllocPCs
<1> QED
  BY <1>2, <1>3 DEF Claim

LEMMA MatchStep ==
  ASSUME JInv, NEW t \in Threads, Match(t)
  PROVE  JInv'
<1>t. PICK top \in Frame : top = Top(t)
  BY TopFrame DEF Match, At
<1>1. /\ stack[t] # <<>> /\ top.pc = "match" /\ FrOK(top)
      /\ Still /\ adds' = adds /\ sets' = sets
  BY <1>t, TopFrame DEF Match, At, Still
<1>2. PICK pc \in {"claim", "scan"} : Goto(t, pc)
  BY DEF Match
<1>3. \A g \in Frame : SameBut(g, top, pc) => FrOK(g)
  BY <1>1, <1>2 DEF SameBut, FrOK, HolderOK, FrameOK, PollOK, JobLess, Polling, FillPCs, RunPCs
<1> QED
  BY <1>t, <1>1, <1>2, <1>3, StillGoto DEF PCs, FillPCs, RunPCs, HoldPCs, AllocPCs
LEMMA StartScanStep ==
  ASSUME JInv, NEW t \in Threads, StartScan(t)
  PROVE  JInv'
<1>g. PICK g : g = [Blank EXCEPT !.pc = "scan", !.prio = High]
  OBVIOUS
<1>1. /\ stack[t] = <<>> /\ Enter(t, g) /\ Still /\ adds' = adds /\ sets' = sets
  BY <1>g DEF StartScan, Still
<1>2. High \in Nat /\ High \in Levels
  BY ConstantsOK DEF High, Levels
<1>3. /\ g \in Frame /\ g.pc = "scan" /\ g.job = Null /\ g.arg = NoHandle
      /\ g.prio = High /\ g.cur = Null /\ g.next = Null
  BY <1>g, <1>2, BlankFrame DEF Frame, PCs
<1>4. FrOK(g) /\ ~Holds(g) /\ g.pc \notin AllocPCs
  BY <1>2, <1>3 DEF FrOK, HolderOK, FrameOK, PollOK, JobLess, Polling, Holds,
                    FillPCs, RunPCs, AllocPCs
<1>5. DataOK' /\ QuietSlots /\ freeList' = freeList /\ NewRefs
  BY <1>1, StillData DEF JInv, DataOK
<1>6. CountOK'
  BY <1>1, <1>3, <1>4, EnterCount
<1> QED
  BY <1>1, <1>3, <1>4, <1>5, <1>6, QuietEnter

LEMMA ScanStep ==
  ASSUME JInv, NEW t \in Threads, Scan(t)
  PROVE  JInv'
<1>t. PICK top \in Frame : top = Top(t)
  BY TopFrame DEF Scan, At
<1>p. PICK p : p = top.prio
  OBVIOUS
<1>1. stack[t] # <<>> /\ top.pc = "scan" /\ FrOK(top) /\ ~Fills(top) /\ p \in Levels
  BY <1>t, <1>p, TopFrame DEF Scan, At, Fills, FillPCs, FrOK, FrameOK
<1>2. CASE queue[p] # <<>>
  <2>g. PICK g : g = [top EXCEPT !.pc = "match", !.job = Head(queue[p])]
    OBVIOUS
  <2>1. Become(t, g) /\ queue' = [queue EXCEPT ![p] = Tail(queue[p])]
    BY <1>t, <1>p, <1>2, <2>g DEF Scan
  <2>2. /\ queue[p] \in Seq(Slots) /\ Tail(queue[p]) \in Seq(Slots) /\ Len(queue[p]) \in Nat \ {0}
        /\ Len(Tail(queue[p])) = Len(queue[p]) - 1
        /\ \A i \in 1..Len(Tail(queue[p])) : Tail(queue[p])[i] = queue[p][i + 1]
        /\ Head(queue[p]) = queue[p][1] /\ Head(queue[p]) \in Slots
    BY <1>1, <1>2, HeadTailProperties, EmptySeq, LenProperties DEF JInv, DataOK
  <2>3. Born(Head(queue[p]))
    BY <1>1, <2>2 DEF JInv, RefsOK, Referred
  <2>4. /\ g \in Frame /\ g.pc = "match" /\ g.job = Head(queue[p]) /\ g.arg = top.arg
        /\ g.cur = top.cur /\ g.next = top.next /\ g.prio = top.prio
    BY <2>g, <2>2 DEF Frame, PCs
  <2>5. FrOK(g) /\ ~Holds(g) /\ ~Fills(g) /\ g.pc \notin AllocPCs
    <3>1. Head(queue[p]) # Null
      BY <2>2 DEF Slots, Null
    <3> QED
      BY <1>1, <2>3, <2>4, <3>1 DEF FrOK, HolderOK, FrameOK, PollOK, JobLess, Polling,
                      Holds, Fills, FillPCs, RunPCs, AllocPCs
  <2>6. QuietSlots /\ freeList' = freeList /\ adds' = adds /\ issued' = issued
    BY DEF Scan, QuietSlots, slotVars, poolVars, ghosts
  <2>7. DataOK'
    BY <2>1, <2>2 DEF Scan, slotVars, poolVars, ghosts, JInv, DataOK
  <2>8. NewRefs
    <3>1. UNCHANGED <<first_dependent, next_dependent>>
      BY DEF Scan, slotVars
    <3>2. ASSUME NEW x, NEW q \in Levels, NEW i \in 1..Len(queue'[q]), queue'[q][i] = x
          PROVE  Referred(x)
      <4>1. CASE q # p
        BY <2>1, <3>2, <4>1 DEF JInv, DataOK, Referred
      <4>2. CASE q = p
        <5>1. queue'[p] = Tail(queue[p])
          BY <1>1, <2>1 DEF JInv, DataOK
        <5>2. i \in 1..Len(Tail(queue[p])) /\ i + 1 \in 1..Len(queue[p])
          BY <2>2, <3>2, <4>2, <5>1
        <5> QED
          BY <1>1, <2>2, <3>2, <4>2, <5>1, <5>2 DEF Referred
      <4> QED
        BY <4>1, <4>2
    <3>3. \A x \in Slots : Referred(x)' => Referred(x)
      BY <3>1, <3>2 DEF Referred
    <3> QED
      BY <2>6, <3>3 DEF NewRefs, JInv, RefsOK
  <2> QED
    BY <1>t, <1>1, <2>1, <2>4, <2>5, <2>6, <2>7, <2>8, QuietBecome
<1>3. ASSUME queue[p] = <<>>
      PROVE  Still /\ adds' = adds /\ sets' = sets
  BY <1>t, <1>p, <1>3 DEF Scan, Still
<1>4. CASE queue[p] = <<>> /\ p = 0
  <2>1. Return(t)
    BY <1>t, <1>p, <1>4 DEF Scan
  <2> QED
    BY <1>t, <1>1, <1>3, <1>4, <2>1, StillReturn
<1>5. CASE queue[p] = <<>> /\ p # 0
  <2>g. PICK g : g = [top EXCEPT !.prio = p - 1]
    OBVIOUS
  <2>1. Become(t, g)
    BY <1>t, <1>p, <1>5, <2>g DEF Scan
  <2>2. p - 1 \in Levels /\ p - 1 \in Nat
    BY <1>1, <1>5, ConstantsOK DEF Levels
  <2>3. /\ g \in Frame /\ g.pc = "scan" /\ g.job = top.job /\ g.arg = top.arg
        /\ g.cur = top.cur /\ g.next = top.next /\ g.prio = p - 1
    BY <1>1, <2>g, <2>2 DEF Frame
  <2>4. FrOK(g) /\ ~Holds(g) /\ ~Fills(g) /\ g.pc \notin AllocPCs
    BY <1>1, <2>2, <2>3 DEF FrOK, HolderOK, FrameOK, PollOK, JobLess, Polling,
                      Holds, Fills, FillPCs, RunPCs, AllocPCs
  <2> QED
    BY <1>t, <1>1, <1>3, <1>5, <2>1, <2>3, <2>4, StillBecome
<1> QED
  BY <1>2, <1>4, <1>5
-----------------------------------------------------------------------------
(* execute_job and promote_dependent_jobs.                                 *)

(* A slot that is held by a frame other than its submitter is not filled.  *)
LEMMA HeldUnfilled ==
  ASSUME JInv, NEW t \in Threads, stack[t] # <<>>, NEW top, top = Top(t), Holds(top), ~Fills(top)
  PROVE  ~Filled(top.job)
<1> PICK d : d = Depth(t)
  OBVIOUS
<1>1. d \in 1..Depth(t) /\ Fr(t, d) = top
  BY TopFrame
<1>2. ASSUME NEW u \in Threads, NEW k \in 1..Depth(u), Fills(Fr(u, k)), Fr(u, k).job = top.job
      PROVE  FALSE
  <2>1. u = t /\ k = d
    BY <1>1, <1>2 DEF JInv, HoldersOK, Holds, Fills
  <2> QED
    BY <1>1, <1>2, <2>1
<1> QED
  BY <1>2 DEF Filled

LEMMA BeginStep ==
  ASSUME JInv, NEW t \in Threads, Begin(t)
  PROVE  JInv'
<1>t. PICK top \in Frame : top = Top(t)
  BY TopFrame DEF Begin, At
<1>l. PICK lo : lo = Depth(t) - 1
  OBVIOUS
<1>s. PICK s : s = top.job
  OBVIOUS
<1>1. /\ stack[t] # <<>> /\ top.pc = "begin" /\ FrOK(top) /\ Holds(top) /\ ~Fills(top)
      /\ StackTypeOK /\ DataOK
  BY <1>t, TopFrame DEF Begin, At, Holds, Fills, FillPCs, RunPCs, JInv
<1>2. /\ s \in Slots /\ s \in 1..total /\ generation[s] >= 1 /\ Alone(t, lo, s)
      /\ Now(s) \in Handles /\ \A i \in 1..Len(freeList) : freeList[i] # s
  BY <1>t, <1>l, <1>s, <1>1, HeldAlone
<1>3. status[s] = "claimed" /\ phase[Now(s)] = "pending" /\ function[s] = Now(s)
  <2>1. ~Filled(s)
    BY <1>t, <1>s, <1>1, HeldUnfilled
  <2> QED
    BY <1>s, <1>1, <1>2, <2>1 DEF FrOK, HolderOK, JInv, SlotsOK, SlotOK
<1>g. PICK g : g = [top EXCEPT !.pc = "body", !.own = Now(s)]
  OBVIOUS
<1>4. /\ Become(t, g) /\ phase' = [phase EXCEPT ![Now(s)] = "running"]
      /\ UNCHANGED <<status, generation, function, first_dependent, next_dependent, priority,
                     freeList, total, queue, issued, adds, sets, dep>>
  BY <1>t, <1>s, <1>g, <1>1, <1>2, <1>3 DEF Begin, slotVars, poolVars, DataOK
<1>5. /\ g \in Frame /\ g.pc = "body" /\ g.job = top.job /\ g.own = Now(s) /\ g.arg = top.arg
      /\ g.cur = top.cur /\ g.next = top.next
  BY <1>g, <1>2 DEF Frame, PCs
<1>6. DataOK' /\ Untouched(s) /\ RunsOnce'
  BY <1>1, <1>2, <1>4 DEF JInv, DataOK, Untouched, RunsOnce, Now
<1>7. /\ Shift(t, lo, 1, g, g)
      /\ Fills(top) => top.job = s
      /\ 1 >= 1 /\ Fills(g) => g.job = s /\ Fills(top)
      /\ 1 = 2 => ~Fills(g)
      /\ 1 >= 1 => TakesOver(t, lo, g, s) /\ g.pc \notin AllocPCs
      /\ 1 = 2 => ~Holds(g) /\ g.pc \notin AllocPCs /\ g.pc \in CallPCs
      /\ ~Fills(g)
  BY <1>s, <1>l, <1>1, <1>4, <1>5, BecomeShift DEF TakesOver, Fills, FillPCs, AllocPCs
<1>8. /\ FilledByTop(t, lo, 1, g, g, s) /\ ~Filled(s)'
      /\ \A x \in Slots : Born(x) => Born(x)'
      /\ \A h \in Handles : Known(h) => Known(h)'
  <2>1. generation' = generation /\ total' = total
    BY <1>4
  <2>2. FilledByTop(t, lo, 1, g, g, s)
    BY <1>t, <1>l, <1>1, <1>2, <1>6, <1>7, <2>1, LoudRefs
  <2> QED
    BY <1>t, <1>l, <1>1, <1>2, <1>6, <1>7, <2>1, <2>2, LoudRefs
<1>9. SlotOK(s)'
  BY <1>2, <1>3, <1>4, <1>8 DEF SlotOK, Now
<1>10. FrOK(g)'
  <2>1. HolderOK(g)'
    <3>1. Now(s)' = Now(s) /\ status'[s] = "claimed" /\ phase'[Now(s)] = "running"
      BY <1>1, <1>2, <1>3, <1>4 DEF Now, DataOK
    <3>2. g.own = Now(s) /\ g.job = s /\ g.pc = "body"
      BY <1>s, <1>5
    <3> QED
      BY <3>1, <3>2 DEF HolderOK, FillPCs
  <2>2. FrameOK(g)'
    BY <1>1, <1>5, <1>8 DEF FrameOK, FrOK, FillPCs, JobLess, Frame, Known
  <2> QED
    BY <1>5, <2>1, <2>2 DEF FrOK, PollOK, Polling
<1>11. \A x \in Slots : Referred(x)' => Born(x)
  <2>1. \A x \in Slots : Referred(x)' => Referred(x)
    BY <1>4 DEF Referred
  <2> QED
    BY <2>1 DEF JInv, RefsOK
<1>12. \A h \in Handles : h[1] = s /\ Known(h) /\ phase[h] = "done" => phase'[h] = "done"
  BY <1>1, <1>2, <1>3, <1>4 DEF DataOK
<1>13. /\ status[s] \in Finished => status'[s] \in Finished \/ Fills(top)
       /\ generation' = generation /\ total' = total
       /\ freeList' = freeList /\ issued' = issued /\ adds' = adds
  BY <1>4
<1> QED
  BY <1>t, <1>l, <1>1, <1>2, <1>6, <1>7, <1>8, <1>9, <1>10, <1>11, <1>12, <1>13, LoudStep

LEMMA FinishBodyStep ==
  ASSUME JInv, NEW t \in Threads, FinishBody(t)
  PROVE  JInv'
<1>t. PICK top \in Frame : top = Top(t)
  BY TopFrame DEF FinishBody, At
<1>l. PICK lo : lo = Depth(t) - 1
  OBVIOUS
<1>s. PICK s : s = top.job
  OBVIOUS
<1>g. PICK g : g = [top EXCEPT !.pc = "drain"]
  OBVIOUS
<1>1. /\ stack[t] # <<>> /\ top.pc = "body" /\ FrOK(top) /\ Holds(top) /\ ~Fills(top)
      /\ StackTypeOK /\ DataOK
  BY <1>t, TopFrame DEF FinishBody, At, Holds, Fills, FillPCs, RunPCs, JInv
<1>2. /\ s \in Slots /\ s \in 1..total /\ generation[s] >= 1 /\ Alone(t, lo, s)
      /\ Now(s) \in Handles /\ \A i \in 1..Len(freeList) : freeList[i] # s
  BY <1>t, <1>l, <1>s, <1>1, HeldAlone
<1>3. status[s] = "claimed" /\ phase[Now(s)] = "running" /\ function[s] = Now(s) /\ top.own = Now(s)
  <2>1. ~Filled(s)
    BY <1>t, <1>s, <1>1, HeldUnfilled
  <2> QED
    BY <1>s, <1>1, <1>2, <2>1 DEF FrOK, HolderOK, JInv, SlotsOK, SlotOK
<1>4. /\ Become(t, g) /\ phase' = [phase EXCEPT ![Now(s)] = "done"]
      /\ status' = [status EXCEPT ![s] = "promoting"]
      /\ UNCHANGED <<generation, function, first_dependent, next_dependent, priority,
                     freeList, total, queue, issued, adds, sets, dep>>
  BY <1>t, <1>s, <1>g, <1>1, <1>2, <1>3 DEF FinishBody, Goto, poolVars, DataOK
<1>5. SameBut(g, top, "drain")
  BY <1>g, Goes DEF PCs
<1>6. DataOK' /\ Untouched(s) /\ RunsOnce'
  BY <1>1, <1>2, <1>4 DEF JInv, DataOK, Untouched, RunsOnce, Now, Statuses
<1>7. /\ Shift(t, lo, 1, g, g)
      /\ Fills(top) => top.job = s
      /\ 1 >= 1 /\ Fills(g) => g.job = s /\ Fills(top)
      /\ 1 = 2 => ~Fills(g)
      /\ 1 >= 1 => TakesOver(t, lo, g, s) /\ g.pc \notin AllocPCs
      /\ 1 = 2 => ~Holds(g) /\ g.pc \notin AllocPCs /\ g.pc \in CallPCs
      /\ ~Fills(g)
  BY <1>s, <1>l, <1>1, <1>4, <1>5, BecomeShift DEF SameBut, TakesOver, Fills, FillPCs, AllocPCs
<1>8. /\ FilledByTop(t, lo, 1, g, g, s) /\ ~Filled(s)'
      /\ \A x \in Slots : Born(x) => Born(x)'
      /\ \A h \in Handles : Known(h) => Known(h)'
  <2>1. generation' = generation /\ total' = total
    BY <1>4
  <2>2. FilledByTop(t, lo, 1, g, g, s)
    BY <1>t, <1>l, <1>1, <1>2, <1>6, <1>7, <2>1, LoudRefs
  <2> QED
    BY <1>t, <1>l, <1>1, <1>2, <1>6, <1>7, <2>1, <2>2, LoudRefs
<1>9. /\ Now(s)' = Now(s) /\ function'[s] = Now(s)
      /\ status'[s] = "promoting" /\ phase'[Now(s)] = "done"
  BY <1>1, <1>2, <1>3, <1>4 DEF Now, DataOK
<1>10. SlotOK(s)'
  BY <1>2, <1>4, <1>8, <1>9 DEF SlotOK
<1>11. FrOK(g)'
  <2>1. HolderOK(g)'
    <3>1. g.job = s /\ g.pc = "drain"
      BY <1>s, <1>5 DEF SameBut
    <3> QED
      BY <1>9, <3>1 DEF HolderOK, FillPCs
  <2>2. FrameOK(g)'
    BY <1>1, <1>5, <1>8 DEF SameBut, FrameOK, FrOK, FillPCs, JobLess, Frame, Known
  <2> QED
    BY <1>5, <2>1, <2>2 DEF SameBut, FrOK, PollOK, Polling
<1>12. \A x \in Slots : Referred(x)' => Born(x)
  <2>1. \A x \in Slots : Referred(x)' => Referred(x)
    BY <1>4 DEF Referred
  <2> QED
    BY <2>1 DEF JInv, RefsOK
<1>13. \A h \in Handles : h[1] = s /\ Known(h) /\ phase[h] = "done" => phase'[h] = "done"
  BY <1>1, <1>2, <1>4 DEF DataOK
<1>14. /\ status[s] \in Finished => status'[s] \in Finished \/ Fills(top)
       /\ generation' = generation /\ total' = total
       /\ freeList' = freeList /\ issued' = issued /\ adds' = adds
  BY <1>3, <1>4 DEF Finished
<1> QED
  BY <1>t, <1>l, <1>1, <1>2, <1>5, <1>6, <1>7, <1>8, <1>10, <1>11, <1>12, <1>13, <1>14, LoudStep
LEMMA DrainStep ==
  ASSUME JInv, NEW t \in Threads, Drain(t)
  PROVE  JInv'
<1>t. PICK top \in Frame : top = Top(t)
  BY TopFrame DEF Drain, At
<1>g. PICK g : g = [top EXCEPT !.pc = "walk", !.next = first_dependent[top.job]]
  OBVIOUS
<1>1. /\ stack[t] # <<>> /\ top.pc = "drain" /\ FrOK(top) /\ ~Fills(top) /\ Holds(top)
      /\ Become(t, g) /\ first_dependent' = [first_dependent EXCEPT ![top.job] = Null]
  BY <1>t, <1>g, TopFrame DEF Drain, At, Fills, Holds, FillPCs, RunPCs
<1>2. top.job \in Slots
  BY <1>1, WorksOn DEF FillPCs, JobLess
<1>3. /\ first_dependent[top.job] \in Slots \union {Null}
      /\ first_dependent[top.job] = Null \/ Born(first_dependent[top.job])
  BY <1>2 DEF JInv, DataOK, RefsOK, Referred
<1>4. /\ g \in Frame /\ g.pc = "walk" /\ g.job = top.job /\ g.arg = top.arg
      /\ g.cur = top.cur /\ g.next = first_dependent[top.job]
  BY <1>g, <1>3 DEF Frame, PCs
<1>5. FrOK(g) /\ ~Fills(g) /\ Holds(g) /\ g.pc \notin AllocPCs
  BY <1>1, <1>3, <1>4 DEF FrOK, HolderOK, FrameOK, PollOK, JobLess, Polling,
                    Holds, Fills, FillPCs, RunPCs, AllocPCs
<1>6. QuietSlots /\ freeList' = freeList /\ adds' = adds
  BY DEF Drain, QuietSlots, poolVars, ghosts
<1>7. DataOK'
  BY <1>1 DEF Drain, poolVars, ghosts, JInv, DataOK
<1>8. NewRefs
  <2>1. \A x \in Slots : Referred(x)' => Referred(x)
    BY <1>1 DEF Drain, Referred, JInv, DataOK, Null, Slots
  <2> QED
    BY <2>1 DEF Drain, NewRefs, JInv, RefsOK
<1> QED
  BY <1>t, <1>1, <1>4, <1>5, <1>6, <1>7, <1>8, QuietBecome

LEMMA WalkStep ==
  ASSUME JInv, NEW t \in Threads, Walk(t)
  PROVE  JInv'
<1>t. PICK top \in Frame : top = Top(t)
  BY TopFrame DEF Walk, At
<1>1. /\ stack[t] # <<>> /\ top.pc = "walk" /\ FrOK(top) /\ ~Fills(top) /\ Holds(top) /\ StackTypeOK
  BY <1>t, TopFrame DEF Walk, At, Fills, Holds, FillPCs, RunPCs, JInv
<1>2. CASE top.next # Null
  <2>g. PICK g : g = [top EXCEPT !.pc = "promote", !.cur = top.next,
                                 !.next = next_dependent[top.next]]
    OBVIOUS
  <2>1. Become(t, g) /\ Still /\ adds' = adds /\ sets' = sets
    BY <1>t, <1>2, <2>g DEF Walk, Still, slotVars
  <2>2. top.next \in Slots /\ Born(top.next)
    BY <1>1, <1>2 DEF FrOK, FrameOK, Frame
  <2>3. /\ next_dependent[top.next] \in Slots \union {Null}
        /\ next_dependent[top.next] = Null \/ Born(next_dependent[top.next])
    BY <2>2 DEF JInv, DataOK, RefsOK, Referred
  <2>4. /\ g \in Frame /\ g.pc = "promote" /\ g.job = top.job /\ g.arg = top.arg
        /\ g.cur = top.next /\ g.next = next_dependent[top.next]
    BY <2>g, <2>2, <2>3 DEF Frame, PCs
  <2>5. FrOK(g) /\ ~Fills(g) /\ Holds(g) /\ g.pc \notin AllocPCs
    BY <1>1, <1>2, <2>2, <2>3, <2>4 DEF FrOK, HolderOK, FrameOK, PollOK, JobLess, Polling,
                      Holds, Fills, FillPCs, RunPCs, AllocPCs
  <2> QED
    BY <1>t, <1>1, <2>1, <2>4, <2>5, StillBecome
<1>3. CASE top.next = Null
  <2>l. PICK lo : lo = Depth(t) - 1
    OBVIOUS
  <2>s. PICK s : s = top.job
    OBVIOUS
  <2>0. StatusOnly(s, "completed") /\ Return(t)
    BY <1>t, <1>3, <2>s DEF Walk, StatusOnly
  <2>1. /\ s \in Slots /\ s \in 1..total /\ Alone(t, lo, s)
        /\ \A i \in 1..Len(freeList) : freeList[i] # s
    BY <1>t, <1>1, <2>l, <2>s, HeldAlone
  <2>2. phase[Now(s)] = "done"
    <3>1. status[s] = "promoting"
      BY <1>1, <2>s DEF FrOK, HolderOK
    <3>2. ~Filled(s)
      BY <1>t, <1>1, <2>s, HeldUnfilled
    <3> QED
      BY <2>1, <3>1, <3>2 DEF JInv, SlotsOK, SlotOK
  <2>3. Shift(t, lo, 0, Blank, Blank) /\ 0 \in 0..2 /\ ~(0 >= 1) /\ ~(0 = 2)
    BY <1>1, <2>l, <2>0, ReturnShift
  <2> QED
    BY <1>t, <1>1, <2>l, <2>0, <2>1, <2>2, <2>3, AloneStep DEF Statuses, Finished
<1> QED
  BY <1>2, <1>3

LEMMA PromoteStep ==
  ASSUME JInv, NEW t \in Threads, Promote(t)
  PROVE  JInv'
<1>t. PICK top \in Frame : top = Top(t)
  BY TopFrame DEF Promote, At
<1>1. /\ stack[t] # <<>> /\ top.pc = "promote" /\ FrOK(top) /\ ~Fills(top) /\ Holds(top)
      /\ StackTypeOK
  BY <1>t, TopFrame DEF Promote, At, Fills, Holds, FillPCs, RunPCs, JInv
<1>2. CASE status[Top(t).cur] = "waiting"
  <2>l. PICK lo : lo = Depth(t) - 1
    OBVIOUS
  <2>a. PICK a : a = [top EXCEPT !.pc = "walk"]
    OBVIOUS
  <2>b. PICK b : b = [Blank EXCEPT !.pc = "loadprio", !.job = top.cur]
    OBVIOUS
  <2>s. PICK s : s = top.cur
    OBVIOUS
  <2>0. StatusOnly(s, "not_started") /\ Call(t, a, b)
    BY <1>t, <1>2, <2>a, <2>b, <2>s DEF Promote, StatusOnly
  <2>1. s \in Slots /\ Born(s) /\ status[s] = "waiting"
    BY <1>t, <1>1, <1>2, <2>s DEF FrOK, FrameOK, Frame
  <2>2. /\ Alone(t, lo, s) /\ s \in 1..total /\ phase[Now(s)] = "pending"
        /\ \A i \in 1..Len(freeList) : freeList[i] # s
    BY <2>1, ReadyAlone DEF JInv, SlotsOK, SlotOK
  <2>3. NewOK(a, s, "not_started") /\ a.pc \in CallPCs
    <3>1. SameBut(a, top, "walk")
      BY <2>a, Goes DEF PCs
    <3>2. top.job # s /\ status[top.job] = "promoting"
      BY <1>1, <2>1 DEF FrOK, HolderOK
    <3> QED
      BY <1>1, <3>1, <3>2 DEF SameBut, NewOK, FrOK, FrameOK, PollOK, Polling, Fills,
                        FillPCs, AllocPCs, CallPCs, JobLess
  <2>4. TakesOver(t, lo, a, s)
    <3>1. Depth(t) \in 1..Depth(t) /\ Depth(t) > lo /\ Fr(t, Depth(t)) = top
      BY <1>t, <1>1, <2>l, TopFrame
    <3>2. a.job = top.job
      BY <2>a DEF Frame
    <3> QED
      BY <1>1, <3>1, <3>2 DEF TakesOver
  <2>5. NewOK(b, s, "not_started") /\ ~Holds(b)
    <3>0. top.cur \in Slots /\ Born(top.cur) /\ top.cur # Null
      BY <2>s, <2>1 DEF Slots, Null
    <3>1. /\ b \in Frame /\ b.pc = "loadprio" /\ b.arg = NoHandle /\ b.cur = Null /\ b.next = Null
          /\ b.job # Null /\ Born(b.job)
      BY <2>b, <3>0, BlankFrame DEF Frame, PCs
    <3> QED
      BY <3>1 DEF NewOK, FrameOK, PollOK, Polling, Fills, Holds, FillPCs, RunPCs, AllocPCs, JobLess
  <2>6. Shift(t, lo, 2, a, b) /\ 2 \in 0..2
    BY <1>1, <2>0, <2>l, <2>3, <2>5, CallShift DEF NewOK
  <2> QED
    BY <1>t, <1>1, <2>l, <2>0, <2>1, <2>2, <2>3, <2>4, <2>5, <2>6, AloneStep DEF Statuses, Finished
<1>3. CASE status[Top(t).cur] # "waiting"
  <2>1. Goto(t, "walk") /\ Still /\ adds' = adds /\ sets' = sets
    BY <1>3 DEF Promote, Still, slotVars
  <2>2. \A g \in Frame : SameBut(g, top, "walk") => FrOK(g)
    BY <1>1 DEF SameBut, FrOK, HolderOK, FrameOK, PollOK, JobLess, Polling, FillPCs, RunPCs
  <2> QED
    BY <1>t, <1>1, <2>1, <2>2, StillGoto DEF PCs, FillPCs, RunPCs, HoldPCs, AllocPCs
<1> QED
  BY <1>2, <1>3
-----------------------------------------------------------------------------
(* fl_jobs_is_finished and fl_jobs_wait.                                   *)

LEMMA PollGenerationStep ==
  ASSUME JInv, NEW t \in Threads, PollGeneration(t)
  PROVE  JInv'
<1>t. PICK top \in Frame : top = Top(t)
  BY TopFrame DEF PollGeneration, At
<1>1. /\ stack[t] # <<>> /\ top.pc = "pollgen" /\ FrOK(top) /\ ~Fills(top)
      /\ Still /\ adds' = adds /\ sets' = sets
  BY <1>t, TopFrame DEF PollGeneration, At, Still, Fills, FillPCs
<1>2. CASE Live(top.arg)
  <2>g. PICK g : g = [top EXCEPT !.pc = "pollstatus", !.job = top.arg[1]]
    OBVIOUS
  <2>1. Become(t, g)
    BY <1>t, <1>2, <2>g DEF PollGeneration
  <2>2. top.arg[1] \in Slots /\ Born(top.arg[1])
    BY <1>1, <1>2, KnownLive DEF FrOK, FrameOK, PollOK, Polling
  <2>3. /\ g \in Frame /\ g.pc = "pollstatus" /\ g.job = top.arg[1] /\ g.arg = top.arg
        /\ g.cur = top.cur /\ g.next = top.next /\ g.late = top.late /\ g.seen = top.seen
    BY <2>g, <2>2 DEF Frame, PCs
  <2>4. FrOK(g) /\ ~Holds(g) /\ ~Fills(g) /\ g.pc \notin AllocPCs
    <3>1. top.arg[1] # Null
      BY <2>2 DEF Slots, Null
    <3> QED
      BY <1>1, <2>2, <2>3, <3>1 DEF FrOK, HolderOK, FrameOK, PollOK, JobLess, Polling,
                      Holds, Fills, FillPCs, RunPCs, AllocPCs
  <2> QED
    BY <1>t, <1>1, <2>1, <2>3, <2>4, StillBecome
<1>3. CASE ~Live(top.arg)
  <2>1. Return(t)
    BY <1>t, <1>3 DEF PollGeneration
  <2> QED
    BY <1>t, <1>1, <2>1, StillReturn
<1> QED
  BY <1>2, <1>3

LEMMA PollStatusStep ==
  ASSUME JInv, NEW t \in Threads, PollStatus(t)
  PROVE  JInv'
<1>t. PICK top \in Frame : top = Top(t)
  BY TopFrame DEF PollStatus, At
<1>g. PICK g : g = [top EXCEPT !.pc = "pollagain", !.seen = status[top.job]]
  OBVIOUS
<1>1. /\ stack[t] # <<>> /\ top.pc = "pollstatus" /\ FrOK(top) /\ ~Fills(top)
      /\ Still /\ adds' = adds /\ sets' = sets /\ Become(t, g)
  BY <1>t, <1>g, TopFrame DEF PollStatus, At, Still, Fills, FillPCs
<1>2. /\ top.job \in Slots /\ top.job = top.arg[1] /\ Known(top.arg)
      /\ top.late /\ Live(top.arg) => status[top.arg[1]] \in Finished
  BY <1>1, WorksOn DEF FillPCs, JobLess, FrOK, FrameOK, PollOK, Polling
<1>3. status[top.job] \in Statuses
  BY <1>2 DEF JInv, DataOK
<1>4. /\ g \in Frame /\ g.pc = "pollagain" /\ g.job = top.job /\ g.arg = top.arg
      /\ g.cur = top.cur /\ g.next = top.next /\ g.late = top.late /\ g.seen = status[top.job]
  BY <1>g, <1>3 DEF Frame, PCs
<1>5. Live(top.arg) /\ status[top.job] \in Finished => phase[top.arg] = "done"
  <2>1. SUFFICES ASSUME Live(top.arg), status[top.job] \in Finished
                 PROVE  phase[top.arg] = "done"
    OBVIOUS
  <2>2. Born(top.arg[1]) /\ ~Filled(top.arg[1]) /\ top.arg = Now(top.arg[1])
    BY <1>2, <2>1, KnownLive
  <2> QED
    BY <1>2, <2>1, <2>2 DEF JInv, SlotsOK, SlotOK, Born, Finished
<1>6. PollOK(g)
  BY <1>1, <1>2, <1>4, <1>5 DEF FrOK, PollOK, Polling
<1>7. FrOK(g) /\ ~Holds(g) /\ ~Fills(g) /\ g.pc \notin AllocPCs
  BY <1>1, <1>4, <1>6 DEF FrOK, HolderOK, FrameOK, JobLess,
                      Holds, Fills, FillPCs, RunPCs, AllocPCs
<1> QED
  BY <1>t, <1>1, <1>4, <1>7, StillBecome

LEMMA PollGenerationAgainStep ==
  ASSUME JInv, NEW t \in Threads, PollGenerationAgain(t)
  PROVE  JInv'
<1>t. PICK top \in Frame : top = Top(t)
  BY TopFrame DEF PollGenerationAgain, At
<1>1. /\ stack[t] # <<>> /\ top.pc = "pollagain" /\ FrOK(top) /\ ~Fills(top)
      /\ Still /\ adds' = adds /\ sets' = sets
  BY <1>t, TopFrame DEF PollGenerationAgain, At, Still, Fills, FillPCs
<1>2. CASE Live(top.arg)
  <2>1. PICK pc \in {"recycle", "answer"} : Goto(t, pc)
    BY <1>t, <1>2 DEF PollGenerationAgain
  <2>2. \A g \in Frame : SameBut(g, top, pc) => FrOK(g)
    BY <1>1, <1>2, <2>1 DEF SameBut, FrOK, HolderOK, FrameOK, PollOK, JobLess, Polling,
                            FillPCs, RunPCs
  <2> QED
    BY <1>t, <1>1, <2>1, <2>2, StillGoto DEF PCs, FillPCs, RunPCs, HoldPCs, AllocPCs
<1>3. CASE ~Live(top.arg)
  <2>1. Return(t)
    BY <1>t, <1>3 DEF PollGenerationAgain
  <2> QED
    BY <1>t, <1>1, <2>1, StillReturn
<1> QED
  BY <1>2, <1>3

LEMMA RecycleStep ==
  ASSUME JInv, NEW t \in Threads, Recycle(t)
  PROVE  JInv'
<1>t. PICK top \in Frame : top = Top(t)
  BY TopFrame DEF Recycle, At
<1>1. stack[t] # <<>> /\ top.pc = "recycle" /\ FrOK(top) /\ ~Fills(top) /\ StackTypeOK
  BY <1>t, TopFrame DEF Recycle, At, Fills, FillPCs, JInv
<1>2. CASE status[Top(t).job] = "completed"
  <2>l. PICK lo : lo = Depth(t) - 1
    OBVIOUS
  <2>g. PICK g : g = [top EXCEPT !.pc = "push"]
    OBVIOUS
  <2>s. PICK s : s = top.job
    OBVIOUS
  <2>0. StatusOnly(s, "free") /\ Become(t, g)
    BY <1>t, <1>2, <2>g, <2>s DEF Recycle, StatusOnly, Goto
  <2>1. s \in Slots /\ Born(s) /\ status[s] = "completed"
    BY <1>t, <1>1, <1>2, <2>s, WorksOn DEF FillPCs, JobLess
  <2>2. /\ Alone(t, lo, s) /\ s \in 1..total /\ phase[Now(s)] = "done"
        /\ \A i \in 1..Len(freeList) : freeList[i] # s
    BY <2>1, ReadyAlone DEF JInv, SlotsOK, SlotOK
  <2>3. NewOK(g, s, "free") /\ TakesOver(t, lo, g, s)
    <3>1. SameBut(g, top, "push")
      BY <2>g, Goes DEF PCs
    <3> QED
      BY <1>1, <2>s, <3>1 DEF SameBut, NewOK, FrOK, FrameOK, PollOK, Polling, Fills,
                        FillPCs, AllocPCs, JobLess, TakesOver
  <2>4. Shift(t, lo, 1, g, g) /\ 1 \in 0..2
    BY <1>1, <2>0, <2>l, <2>3, BecomeShift DEF NewOK
  <2>5. /\ "free" \in Statuses
        /\ status[s] \in Finished => "free" \in Finished
        /\ "free" \in {"not_started", "waiting"} => phase[Now(s)] = "pending"
        /\ "free" \in {"promoting", "completed", "free"} => phase[Now(s)] = "done"
        /\ 1 >= 1 => NewOK(g, s, "free") /\ TakesOver(t, lo, g, s)
        /\ 1 = 2 => NewOK(g, s, "free") /\ ~Holds(g) /\ g.pc \in CallPCs
    BY <2>2, <2>3 DEF Statuses, Finished
  <2> QED
    BY <1>t, <1>1, <2>l, <2>0, <2>1, <2>2, <2>4, <2>5, AloneStep
<1>3. CASE Goto(t, "answer") /\ UNCHANGED status
  <2>1. Still /\ adds' = adds /\ sets' = sets
    BY <1>3 DEF Recycle, Still, slotVars
  <2>2. \A g \in Frame : SameBut(g, top, "answer") => FrOK(g)
    BY <1>1 DEF SameBut, FrOK, HolderOK, FrameOK, PollOK, JobLess, Polling, FillPCs, RunPCs
  <2> QED
    BY <1>t, <1>1, <1>3, <2>1, <2>2, StillGoto DEF PCs, FillPCs, RunPCs, HoldPCs, AllocPCs
<1> QED
  BY <1>2, <1>3 DEF Recycle

LEMMA AnswerStep ==
  ASSUME JInv, NEW t \in Threads, Answer(t)
  PROVE  JInv'
<1>t. PICK top \in Frame : top = Top(t)
  BY TopFrame DEF Answer, At
<1>1. /\ stack[t] # <<>> /\ top.pc = "answer" /\ FrOK(top) /\ ~Fills(top)
      /\ Still /\ adds' = adds /\ sets' = sets
  BY <1>t, TopFrame DEF Answer, At, Still, Fills, FillPCs
<1>2. CASE top.wait /\ SaysNotFinished(top)
  <2>e. PICK e \in BOOLEAN : e = (~Live(top.arg) \/ status[top.arg[1]] \in Finished)
    OBVIOUS
  <2>g. PICK g : g = [top EXCEPT !.pc = "pollgen", !.late = e]
    OBVIOUS
  <2>1. Become(t, g)
    BY <1>t, <1>2, <2>e, <2>g DEF Answer
  <2>2. /\ g \in Frame /\ g.pc = "pollgen" /\ g.job = top.job /\ g.arg = top.arg
        /\ g.cur = top.cur /\ g.next = top.next
        /\ g.late = e
    BY <2>g DEF Frame, PCs
  <2>3. FrOK(g) /\ ~Holds(g) /\ ~Fills(g) /\ g.pc \notin AllocPCs
    BY <1>1, <2>e, <2>2 DEF FrOK, HolderOK, FrameOK, PollOK, JobLess, Polling,
                      Holds, Fills, FillPCs, RunPCs, AllocPCs
  <2> QED
    BY <1>t, <1>1, <2>1, <2>2, <2>3, StillBecome
<1>3. CASE ~(top.wait /\ SaysNotFinished(top))
  <2>1. Return(t)
    BY <1>t, <1>3 DEF Answer
  <2> QED
    BY <1>t, <1>1, <2>1, StillReturn
<1> QED
  BY <1>2, <1>3

-----------------------------------------------------------------------------
(* fl_jobs_set_priority.                                                   *)

LEMMA SetLookupStep ==
  ASSUME JInv, NEW t \in Threads, SetLookup(t)
  PROVE  JInv'
<1>t. PICK top \in Frame : top = Top(t)
  BY TopFrame DEF SetLookup, At
<1>1. /\ stack[t] # <<>> /\ top.pc = "setgen" /\ FrOK(top) /\ ~Fills(top)
      /\ Still /\ adds' = adds /\ sets' = sets
  BY <1>t, TopFrame DEF SetLookup, At, Still, Fills, FillPCs
<1>2. CASE Live(top.arg)
  <2>g. PICK g : g = [top EXCEPT !.pc = "setstatus", !.job = top.arg[1]]
    OBVIOUS
  <2>1. Become(t, g)
    BY <1>t, <1>2, <2>g DEF SetLookup
  <2>2. top.arg[1] \in Slots /\ Born(top.arg[1])
    BY <1>1, <1>2, KnownLive DEF FrOK, FrameOK
  <2>3. /\ g \in Frame /\ g.pc = "setstatus" /\ g.job = top.arg[1] /\ g.arg = top.arg
        /\ g.cur = top.cur /\ g.next = top.next
    BY <2>g, <2>2 DEF Frame, PCs
  <2>4. FrOK(g) /\ ~Holds(g) /\ ~Fills(g) /\ g.pc \notin AllocPCs
    <3>1. top.arg[1] # Null
      BY <2>2 DEF Slots, Null
    <3> QED
      BY <1>1, <2>2, <2>3, <3>1 DEF FrOK, HolderOK, FrameOK, PollOK, JobLess, Polling,
                      Holds, Fills, FillPCs, RunPCs, AllocPCs
  <2> QED
    BY <1>t, <1>1, <2>1, <2>3, <2>4, StillBecome
<1>3. CASE ~Live(top.arg)
  <2>1. Return(t)
    BY <1>t, <1>3 DEF SetLookup
  <2> QED
    BY <1>t, <1>1, <2>1, StillReturn
<1> QED
  BY <1>2, <1>3

LEMMA SetStatusStep ==
  ASSUME JInv, NEW t \in Threads, SetStatus(t) \/ SetOld(t)
  PROVE  JInv'
<1>t. PICK top \in Frame : top = Top(t)
  BY TopFrame DEF SetStatus, SetOld, At
<1>1. /\ stack[t] # <<>> /\ top.pc \in {"setstatus", "setold"} /\ FrOK(top) /\ ~Fills(top)
      /\ Still /\ adds' = adds /\ sets' = sets
  BY <1>t, TopFrame DEF SetStatus, SetOld, At, Still, Fills, FillPCs
<1>2. CASE \E pc \in {"setold", "setstore"} : Goto(t, pc)
  <2>1. PICK pc \in {"setold", "setstore"} : Goto(t, pc)
    BY <1>2
  <2>2. \A g \in Frame : SameBut(g, top, pc) => FrOK(g)
    BY <1>1, <2>1 DEF SameBut, FrOK, HolderOK, FrameOK, PollOK, JobLess, Polling, FillPCs, RunPCs
  <2> QED
    BY <1>t, <1>1, <2>1, <2>2, StillGoto DEF PCs, FillPCs, RunPCs, HoldPCs, AllocPCs
<1>3. CASE Return(t)
  BY <1>t, <1>1, <1>3, StillReturn
<1> QED
  BY <1>2, <1>3 DEF SetStatus, SetOld

LEMMA SetStoreStep ==
  ASSUME JInv, NEW t \in Threads, SetStore(t)
  PROVE  JInv'
<1>t. PICK top \in Frame : top = Top(t)
  BY TopFrame DEF SetStore, At
<1>g. PICK g : g = [top EXCEPT !.pc = "setagain"]
  OBVIOUS
<1>1. /\ stack[t] # <<>> /\ top.pc = "setstore" /\ FrOK(top) /\ ~Fills(top)
      /\ Become(t, g) /\ priority' = [priority EXCEPT ![top.job] = top.prio]
  BY <1>t, <1>g, TopFrame DEF SetStore, At, Fills, FillPCs, Goto
<1>2. top.prio \in Nat
  BY DEF Frame
<1>3. DataOK' /\ QuietSlots /\ freeList' = freeList /\ adds' = adds
  BY <1>1, <1>2 DEF SetStore, QuietSlots, poolVars, ghosts, JInv, DataOK
<1>4. NewRefs
  <2>1. \A x \in Slots : Referred(x)' => Referred(x)
    BY DEF SetStore, Referred
  <2> QED
    BY <2>1 DEF SetStore, NewRefs, JInv, RefsOK
<1>5. SameBut(g, top, "setagain")
  BY <1>g, Goes DEF PCs
<1>6. g \in Frame /\ FrOK(g) /\ ~Holds(g) /\ ~Fills(g) /\ g.pc \notin AllocPCs
  BY <1>1, <1>5 DEF SameBut, FrOK, HolderOK, FrameOK, PollOK, JobLess, Polling,
                    Holds, Fills, FillPCs, RunPCs, AllocPCs
<1> QED
  BY <1>t, <1>1, <1>3, <1>4, <1>6, QuietBecome

LEMMA SetRecheckStep ==
  ASSUME JInv, NEW t \in Threads, SetRecheck(t)
  PROVE  JInv'
<1>t. PICK top \in Frame : top = Top(t)
  BY TopFrame DEF SetRecheck, At
<1>1. /\ stack[t] # <<>> /\ top.pc = "setagain" /\ FrOK(top) /\ ~Fills(top)
      /\ Still /\ adds' = adds /\ sets' = sets
  BY <1>t, TopFrame DEF SetRecheck, At, Still, Fills, FillPCs
<1>2. ASSUME Become(t, Scheduling(top))
      PROVE  JInv'
  <2>g. PICK g : g = Scheduling(top)
    OBVIOUS
  <2>1. top.job # Null /\ Born(top.job)
    BY <1>1, WorksOn DEF FillPCs, JobLess
  <2>2. /\ g \in Frame /\ g.pc = "enqueue" /\ g.arg = NoHandle /\ g.cur = Null /\ g.next = Null
        /\ g.job = top.job
    BY <2>g, SchedulingFrame
  <2>3. FrOK(g) /\ ~Holds(g) /\ ~Fills(g) /\ g.pc \notin AllocPCs
    BY <2>1, <2>2 DEF FrOK, HolderOK, FrameOK, PollOK, JobLess, Polling,
                      Holds, Fills, FillPCs, RunPCs, AllocPCs
  <2>4. Become(t, g)
    BY <1>2, <2>g
  <2> QED
    BY <1>t, <1>1, <2>2, <2>3, <2>4, StillBecome
<1>3. CASE Return(t)
  BY <1>t, <1>1, <1>3, StillReturn
<1> QED
  BY <1>t, <1>2, <1>3 DEF SetRecheck
-----------------------------------------------------------------------------
(* The list of dependents.                                                 *)

LEMMA LinkStep ==
  ASSUME JInv, NEW t \in Threads, Link(t)
  PROVE  JInv'
<1>t. PICK top \in Frame : top = Top(t)
  BY TopFrame DEF Link, At
<1>h. PICK head : head = first_dependent[top.cur]
  OBVIOUS
<1>g. PICK g : g = [top EXCEPT !.pc = "prepend", !.next = head]
  OBVIOUS
<1>1. /\ stack[t] # <<>> /\ top.pc = "link" /\ FrOK(top) /\ ~Fills(top)
      /\ Become(t, g) /\ next_dependent' = [next_dependent EXCEPT ![top.job] = head]
  BY <1>t, <1>h, <1>g, TopFrame DEF Link, At, Fills, FillPCs
<1>2. /\ top.job \in Slots /\ top.cur \in Slots
      /\ head \in Slots \union {Null}
      /\ head \in Slots => Referred(head) /\ Born(head)
  <2>1. top.job \in Slots /\ top.cur \in Slots
    BY <1>1 DEF FrOK, FrameOK, Frame, JobLess
  <2>2. first_dependent[top.cur] \in Slots \union {Null}
    BY <2>1 DEF JInv, DataOK
  <2>3. first_dependent[top.cur] \in Slots => Referred(first_dependent[top.cur])
    BY <2>1 DEF Referred
  <2> QED
    BY <1>h, <2>1, <2>2, <2>3 DEF JInv, RefsOK
<1>4. /\ g \in Frame /\ g.pc = "prepend" /\ g.job = top.job /\ g.arg = top.arg /\ g.own = top.own
      /\ g.cur = top.cur /\ g.next = head
  BY <1>g, <1>2 DEF Frame, PCs
<1>5. FrOK(g) /\ ~Fills(g) /\ ~Holds(g) /\ g.pc \notin AllocPCs
  BY <1>1, <1>2, <1>4 DEF FrOK, HolderOK, FrameOK, PollOK, JobLess, Polling,
                    Holds, Fills, FillPCs, RunPCs, AllocPCs
<1>6. DataOK' /\ QuietSlots /\ freeList' = freeList /\ adds' = adds
  BY <1>1, <1>2 DEF Link, QuietSlots, poolVars, ghosts, JInv, DataOK
<1>7. NewRefs
  <2>1. /\ queue' = queue /\ first_dependent' = first_dependent
        /\ \A y \in Slots : next_dependent'[y] = next_dependent[y] \/ next_dependent'[y] = head
    BY <1>1, <1>2 DEF Link, JInv, DataOK
  <2>2. \A x \in Slots : Referred(x)' => Referred(x) \/ x = head
    BY <2>1 DEF Referred
  <2>3. \A x \in Slots : Referred(x)' => Born(x)
    BY <1>2, <2>2 DEF JInv, RefsOK
  <2> QED
    BY <2>3 DEF Link, NewRefs, JInv, RefsOK
<1> QED
  BY <1>t, <1>1, <1>4, <1>5, <1>6, <1>7, QuietBecome

LEMMA PrependStep ==
  ASSUME JInv, NEW t \in Threads, Prepend(t)
  PROVE  JInv'
<1>t. PICK top \in Frame : top = Top(t)
  BY TopFrame DEF Prepend, At
<1>h. PICK head : head = first_dependent[top.cur]
  OBVIOUS
<1>1. /\ stack[t] # <<>> /\ top.pc = "prepend" /\ FrOK(top) /\ ~Fills(top)
      /\ QuietSlots /\ freeList' = freeList /\ adds' = adds /\ issued' = issued
  BY <1>t, TopFrame DEF Prepend, At, Fills, FillPCs, QuietSlots, poolVars, ghosts
<1>2. /\ top.job \in Slots /\ Born(top.job) /\ top.cur \in Slots
      /\ head \in Slots \union {Null}
      /\ head \in Slots => Referred(head) /\ Born(head)
  <2>1. top.job \in Slots /\ Born(top.job) /\ top.cur \in Slots
    BY <1>1 DEF FrOK, FrameOK, Frame, JobLess, FillPCs
  <2>2. first_dependent[top.cur] \in Slots \union {Null}
    BY <2>1 DEF JInv, DataOK
  <2>3. first_dependent[top.cur] \in Slots => Referred(first_dependent[top.cur])
    BY <2>1 DEF Referred
  <2> QED
    BY <1>h, <2>1, <2>2, <2>3 DEF JInv, RefsOK
<1>3. CASE head = top.next
  <2>g. PICK g : g = [top EXCEPT !.pc = "recheck"]
    OBVIOUS
  <2>1. Become(t, g) /\ first_dependent' = [first_dependent EXCEPT ![top.cur] = top.job]
        /\ next_dependent' = next_dependent
    BY <1>t, <1>h, <1>3, <2>g DEF Prepend, Goto
  <2>2. SameBut(g, top, "recheck")
    BY <2>g, Goes DEF PCs
  <2>3. g \in Frame /\ FrOK(g) /\ ~Fills(g) /\ ~Holds(g) /\ g.pc \notin AllocPCs
    BY <1>1, <2>2 DEF SameBut, FrOK, HolderOK, FrameOK, PollOK, JobLess, Polling,
                      Holds, Fills, FillPCs, RunPCs, AllocPCs
  <2>4. DataOK'
    BY <1>2, <2>1 DEF Prepend, poolVars, ghosts, JInv, DataOK
  <2>5. NewRefs
    <3>1. /\ queue' = queue /\ next_dependent' = next_dependent
          /\ \A y \in Slots : \/ first_dependent'[y] = first_dependent[y]
                             \/ first_dependent'[y] = top.job
      BY <1>2, <2>1 DEF Prepend, JInv, DataOK
    <3>2. \A x \in Slots : Referred(x)' => Referred(x) \/ x = top.job
      BY <3>1 DEF Referred
    <3>3. \A x \in Slots : Referred(x)' => Born(x)
      BY <1>2, <3>2 DEF JInv, RefsOK
    <3> QED
      BY <1>1, <3>3 DEF NewRefs, JInv, RefsOK
  <2> QED
    BY <1>t, <1>1, <2>1, <2>3, <2>4, <2>5, QuietBecome
<1>4. CASE head # top.next
  <2>g. PICK g : g = [top EXCEPT !.next = head]
    OBVIOUS
  <2>1. Become(t, g) /\ next_dependent' = [next_dependent EXCEPT ![top.job] = head]
        /\ first_dependent' = first_dependent
    BY <1>t, <1>h, <1>4, <2>g DEF Prepend
  <2>2. /\ g \in Frame /\ g.pc = "prepend" /\ g.job = top.job /\ g.arg = top.arg
        /\ g.own = top.own /\ g.cur = top.cur /\ g.next = head
    BY <1>1, <2>g, <1>2 DEF Frame
  <2>3. FrOK(g) /\ ~Fills(g) /\ ~Holds(g) /\ g.pc \notin AllocPCs
    BY <1>1, <1>2, <2>2 DEF FrOK, HolderOK, FrameOK, PollOK, JobLess, Polling,
                      Holds, Fills, FillPCs, RunPCs, AllocPCs
  <2>4. DataOK'
    BY <1>2, <2>1 DEF Prepend, poolVars, ghosts, JInv, DataOK
  <2>5. NewRefs
    <3>1. /\ queue' = queue
          /\ \A y \in Slots : next_dependent'[y] = next_dependent[y] \/ next_dependent'[y] = head
      BY <1>2, <2>1 DEF Prepend, JInv, DataOK
    <3>2. \A x \in Slots : Referred(x)' => Referred(x) \/ x = head
      BY <2>1, <3>1 DEF Referred
    <3>3. \A x \in Slots : Referred(x)' => Born(x)
      BY <1>2, <3>2 DEF JInv, RefsOK
    <3> QED
      BY <1>1, <3>3 DEF NewRefs, JInv, RefsOK
  <2> QED
    BY <1>t, <1>1, <2>1, <2>2, <2>3, <2>4, <2>5, QuietBecome
<1> QED
  BY <1>3, <1>4

-----------------------------------------------------------------------------
(* recycle_job_info and allocate_job_info.                                 *)

LEMMA PushFreeStep ==
  ASSUME JInv, NEW t \in Threads, PushFree(t)
  PROVE  JInv'
<1>t. PICK top \in Frame : top = Top(t)
  BY TopFrame DEF PushFree, At
<1>l. PICK lo : lo = Depth(t) - 1
  OBVIOUS
<1>g. PICK g : g = [top EXCEPT !.pc = "answer"]
  OBVIOUS
<1>s. PICK s : s = top.job
  OBVIOUS
<1>1. /\ stack[t] # <<>> /\ top.pc = "push" /\ FrOK(top) /\ ~Fills(top) /\ Holds(top)
      /\ Become(t, g) /\ freeList' = <<s>> \o freeList /\ StackTypeOK
  BY <1>t, <1>g, <1>s, TopFrame DEF PushFree, At, Fills, Holds, FillPCs, Goto, JInv
<1>2. /\ s \in Slots /\ s \in 1..total /\ Alone(t, lo, s)
      /\ \A i \in 1..Len(freeList) : freeList[i] # s
  BY <1>t, <1>l, <1>s, <1>1, HeldAlone
<1>3. /\ freeList' \in Seq(Slots) /\ freeList \in Seq(Slots) /\ Len(freeList) \in Nat
      /\ Len(freeList') = Len(freeList) + 1
      /\ freeList'[1] = s /\ \A i \in 2..Len(freeList) + 1 : freeList'[i] = freeList[i - 1]
  <2>1. freeList \in Seq(Slots) /\ <<s>> \in Seq(Slots) /\ Len(<<s>>) = 1 /\ <<s>>[1] = s
    BY <1>2 DEF JInv, DataOK
  <2> DEFINE one == <<s>>
  <2>2. one \in Seq(Slots) /\ Len(one) = 1 /\ one[1] = s /\ freeList' = one \o freeList
    BY <1>1, <2>1
  <2> HIDE DEF one
  <2>3. /\ one \o freeList \in Seq(Slots) /\ Len(one \o freeList) = Len(one) + Len(freeList)
        /\ \A i \in 1..Len(one) + Len(freeList) :
             (one \o freeList)[i] = IF i <= Len(one) THEN one[i] ELSE freeList[i - Len(one)]
    BY <2>1, <2>2, ConcatProperties
  <2>4. Len(freeList) \in Nat
    BY <2>1, LenProperties
  <2> QED
    BY <2>1, <2>2, <2>3, <2>4
<1>4. SameBut(g, top, "answer")
  BY <1>g, Goes DEF PCs
<1>5. /\ g \in Frame /\ FrOK(g) /\ ~Holds(g) /\ ~Fills(g) /\ g.pc \notin AllocPCs
      /\ TakesOver(t, lo, g, s)
  BY <1>1, <1>4 DEF SameBut, FrOK, HolderOK, FrameOK, PollOK, JobLess, Polling,
                    Holds, Fills, FillPCs, RunPCs, AllocPCs, TakesOver
<1>6. DataOK' /\ QuietSlots
  BY <1>3 DEF PushFree, slotVars, ghosts, QuietSlots, JInv, DataOK
<1>7. Shift(t, lo, 1, g, g)
  BY <1>l, <1>1, <1>5, BecomeShift
<1>8. CountOK'
  <2>1. adds' >= adds /\ total' = total /\ generation' = generation
    BY ConstantsOK DEF PushFree, JInv, DataOK, slotVars
  <2> QED
    BY <1>5, <1>6, <1>7, <2>1, CountKept DEF JInv
<1>9. FreeOK'
  <2>0. status[s] = "free"
    BY <1>s, <1>1 DEF FrOK, HolderOK
  <2>1. ASSUME NEW i \in 1..Len(freeList'), NEW j \in 1..Len(freeList'), freeList'[i] = freeList'[j]
        PROVE  i = j
    <3>1. ASSUME NEW k \in 1..Len(freeList'), k # 1
          PROVE  k - 1 \in 1..Len(freeList) /\ freeList'[k] = freeList[k - 1] /\ freeList'[k] # s
      <4>1. k \in 2..Len(freeList) + 1 /\ k - 1 \in 1..Len(freeList)
        BY <1>3, <3>1
      <4> QED
        BY <1>2, <1>3, <4>1
    <3>2. CASE i = 1 \/ j = 1
      BY <1>3, <2>1, <3>1, <3>2
    <3>3. CASE i # 1 /\ j # 1
      <4>1. i - 1 \in 1..Len(freeList) /\ j - 1 \in 1..Len(freeList)
            /\ freeList[i - 1] = freeList[j - 1]
        BY <2>1, <3>1, <3>3
      <4>2. i - 1 = j - 1
        BY <4>1 DEF JInv, FreeOK
      <4> QED
        BY <1>3, <4>2
    <3> QED
      BY <3>2, <3>3
  <2>2. ASSUME NEW u \in Threads, NEW k \in 1..Depth(u)', Holds(Fr(u, k)')
        PROVE  /\ k \in 1..Depth(u) /\ Holds(Fr(u, k)) /\ (Fr(u, k)').job = Fr(u, k).job
               /\ Fr(u, k).job # s
    <3>1. k \in 1..Depth(u) /\ Kept(t, lo, u, k) /\ Fr(u, k)' = Fr(u, k)
      BY <1>1, <1>5, <1>7, <2>2, NewPositions
    <3> QED
      BY <1>2, <2>2, <3>1 DEF Alone
  <2>3. ASSUME NEW i \in 1..Len(freeList')
        PROVE  /\ freeList'[i] \in 1..total' /\ status'[freeList'[i]] = "free"
               /\ \A u \in Threads : \A k \in 1..Depth(u)' :
                    Holds(Fr(u, k)') => (Fr(u, k)').job # freeList'[i]
    <3>0. total' = total /\ status' = status
      BY <1>6 DEF QuietSlots
    <3>1. CASE i = 1
      BY <1>2, <1>3, <2>0, <2>2, <3>0, <3>1
    <3>2. CASE i # 1
      <4>1. i - 1 \in 1..Len(freeList) /\ freeList'[i] = freeList[i - 1]
        BY <1>3, <3>2
      <4> QED
        BY <2>2, <3>0, <4>1 DEF JInv, FreeOK
    <3> QED
      BY <3>1, <3>2
  <2> QED
    BY <2>1, <2>3 DEF FreeOK, Holds
<1>10. NewRefs
  <2>1. \A x \in Slots : Referred(x)' => Referred(x)
    BY DEF PushFree, slotVars, Referred
  <2> QED
    BY <2>1 DEF PushFree, NewRefs, JInv, RefsOK
<1>11. /\ \A k \in 1..Depth(t) : k > lo => Fr(t, k) = top
       /\ ~(lo = Depth(t)) /\ 1 \in 0..1
  <2>1. /\ Depth(t) \in Nat \ {0}
        /\ \A k \in 1..Depth(t) : k > Depth(t) - 1 => Fr(t, k) = top
    BY <1>t, <1>1, TopFrame
  <2> QED
    BY <1>l, <2>1
<1>12. /\ \A k \in 1..Depth(t) : ~(k > lo /\ Fills(Fr(t, k)))
       /\ s \in Slots \union {Null}
  BY <1>1, <1>2, <1>11
<1> QED
  BY <1>2, <1>5, <1>6, <1>7, <1>8, <1>9, <1>10, <1>11, <1>12, QuietShift
LEMMA AllocateStep ==
  ASSUME JInv, NEW t \in Threads, Allocate(t)
  PROVE  JInv'
<1>t. PICK top \in Frame : top = Top(t)
  BY TopFrame DEF Allocate, At
<1>l. PICK lo : lo = Depth(t) - 1
  OBVIOUS
<1>s. PICK s : s = IF freeList # <<>> THEN Head(freeList) ELSE total + 1
  OBVIOUS
<1>w. PICK w : w = <<s, generation[s] + 1>>
  OBVIOUS
<1>g. PICK g : g = [top EXCEPT !.pc = "fill", !.job = s, !.own = w]
  OBVIOUS
<1>1. /\ stack[t] # <<>> /\ top.pc = "alloc" /\ FrOK(top) /\ ~Fills(top)
      /\ Become(t, g) /\ generation' = [generation EXCEPT ![s] = generation[s] + 1]
      /\ t \in Allocating /\ StackTypeOK /\ DataOK
  BY <1>t, <1>s, <1>w, <1>g, TopFrame DEF Allocate, At, Fills, FillPCs, AllocPCs, JInv
<1>2. UNCHANGED <<status, function, first_dependent, next_dependent, priority,
                  queue, issued, adds, sets, phase, dep>>
  BY DEF Allocate, ghosts
<1>3. /\ freeList \in Seq(Slots) /\ Len(freeList) \in Nat /\ total \in Nat
      /\ freeList # <<>> => /\ Len(freeList) >= 1 /\ s = freeList[1]
                            /\ Tail(freeList) \in Seq(Slots)
                            /\ Len(Tail(freeList)) = Len(freeList) - 1
                            /\ \A i \in 1..Len(Tail(freeList)) : Tail(freeList)[i] = freeList[i + 1]
  BY <1>1, <1>s, HeadTailProperties, EmptySeq, LenProperties DEF DataOK
<1>4. \/ /\ freeList # <<>> /\ freeList' = Tail(freeList) /\ total' = total
         /\ s \in 1..total /\ status[s] = "free" /\ generation[s] >= 1
      \/ /\ freeList = <<>> /\ freeList' = freeList /\ total' = total + 1 /\ s = total + 1
  <2>1. freeList # <<>> => s \in 1..total /\ status[s] = "free"
    BY <1>3 DEF JInv, FreeOK
  <2>2. freeList # <<>> => generation[s] >= 1
    BY <2>1 DEF JInv, SlotsOK, SlotOK
  <2> QED
    BY <1>s, <2>1, <2>2 DEF Allocate
<1>5. /\ s \in Slots /\ generation[s] \in Nat /\ generation[s] + 1 \in 1..MaxJobs
      /\ s > total => generation[s] = 0 /\ status[s] = "not_started"
  <2>1. s \in Slots
    BY <1>1, <1>3, <1>4, Bounds DEF JInv, Slots
  <2> QED
    BY <1>1, <2>1, Bounds DEF JInv, SlotsOK
<1>6. /\ total' \in Nat /\ total' >= total /\ s \in 1..total'
      /\ total' = total \/ (s = total + 1 /\ total' = s)
  BY <1>3, <1>4
<1>7. /\ w \in Handles /\ generation'[s] = generation[s] + 1
      /\ \A x \in Slots \ {s} : generation'[x] = generation[x]
      /\ generation' \in [Slots -> Nat] /\ generation \in [Slots -> Nat]
  BY <1>w, <1>1, <1>5 DEF Handles, DataOK
<1>8. /\ g \in Frame /\ g.pc = "fill" /\ g.job = s /\ g.own = w /\ g.arg = top.arg
      /\ g.cur = top.cur /\ g.next = top.next
  BY <1>g, <1>5, <1>7 DEF Frame, PCs
<1>9. DataOK' /\ Untouched(s) /\ RunsOnce'
  <2>1. freeList' \in Seq(Slots) /\ total' \in Nat
    BY <1>3, <1>4
  <2>2. DataOK'
    BY <1>1, <1>2, <1>7, <2>1 DEF DataOK
  <2> QED
    BY <1>2, <1>7, <2>2 DEF JInv, Untouched, RunsOnce
<1>10. /\ Alone(t, lo, s)
       /\ \A i \in 2..Len(freeList) : freeList[i] # s
  <2>1. ASSUME NEW u \in Threads, NEW k \in 1..Depth(u), Holds(Fr(u, k))
        PROVE  Fr(u, k).job # s
    <3>1. CASE s \in 1..total
      BY <1>3, <1>4, <2>1, <3>1 DEF JInv, FreeOK
    <3>2. CASE s = total + 1
      <4>1. PICK f \in Frame : f = Fr(u, k)
        BY <1>1, Frames1
      <4>2. f.job \in 1..total
        BY <2>1, <4>1, HolderSlot DEF JInv, FramesOK
      <4> QED
        BY <1>3, <3>2, <4>1, <4>2
    <3> QED
      BY <1>4, <3>1, <3>2
  <2>2. ASSUME NEW i \in 2..Len(freeList)
        PROVE  freeList[i] # s
    <3>1. freeList # <<>> /\ i \in 1..Len(freeList) /\ 1 \in 1..Len(freeList)
      BY <1>3
    <3> QED
      BY <1>3, <3>1 DEF JInv, FreeOK
  <2> QED
    BY <2>1, <2>2 DEF Alone
<1>11. Shift(t, lo, 1, g, g)
  BY <1>l, <1>1, <1>8, BecomeShift
<1>12. /\ \A k \in 1..Depth(t) : k > lo => Fr(t, k) = top
       /\ ~(lo = Depth(t)) /\ lo \in Nat /\ lo < Depth(t)
  <2>1. /\ Depth(t) \in Nat \ {0}
        /\ \A k \in 1..Depth(t) : k > Depth(t) - 1 => Fr(t, k) = top
    BY <1>t, <1>1, TopFrame
  <2> QED
    BY <1>l, <2>1
<1>13. /\ FilledByTop(t, lo, 1, g, g, s) /\ Fills(g) /\ g.pc \notin AllocPCs
       /\ TakesOver(t, lo, g, s)
  BY <1>1, <1>8, <1>12 DEF FilledByTop, Fills, FillPCs, AllocPCs, TakesOver
<1>14. Filled(s)'
  BY <1>1, <1>10, <1>11, <1>13, FilledAbout
<1>15. /\ \A x \in Slots : Born(x) => Born(x)'
       /\ \A h \in Handles : Known(h) => Known(h)'
  <2>1. Born(s) => Born(s)'
    <3>1. s \in 1..total => generation'[s] >= 2
      BY <1>3, <1>4, <1>5, <1>7
    <3> QED
      BY <1>6, <3>1 DEF Born
  <2>2. \A h \in Handles : h[1] = s /\ Known(h) => Known(h)'
    BY <1>5, <1>6, <1>7 DEF Known, Handles
  <2> QED
    BY <1>1, <1>6, <1>9, <1>10, <1>11, <1>13, <2>1, <2>2, RefsKept
<1>16. SlotOK(s)'
  BY <1>5, <1>7, <1>14 DEF SlotOK
<1>17. FrOK(g)'
  <2>1. HolderOK(g)'
    <3>1. status'[s] = "free" \/ (status'[s] = "not_started" /\ generation'[s] = 1)
      BY <1>2, <1>3, <1>4, <1>5, <1>7
    <3>2. w = Now(s)'
      BY <1>w, <1>7 DEF Now
    <3> QED
      BY <1>6, <1>8, <3>1, <3>2 DEF HolderOK, FillPCs
  <2>2. FrameOK(g)'
    <3>1. s # Null
      BY <1>5 DEF Slots, Null
    <3> QED
      BY <1>1, <1>8, <1>15, <3>1 DEF FrameOK, FrOK, FillPCs, JobLess, Frame, Known
  <2> QED
    BY <1>8, <2>1, <2>2 DEF FrOK, PollOK, Polling
<1>18. FramesOK'
  <2>1. \A h \in Handles : h[1] = s /\ Known(h) /\ Live(h)' /\ status[s] \in Finished
                           => status'[s] \in Finished
    BY <1>2
  <2>2. \A h \in Handles : h[1] = s /\ Known(h) /\ phase[h] = "done" => phase'[h] = "done"
    BY <1>2
  <2>3. generation'[s] >= generation[s]
    BY <1>5, <1>7
  <2> QED
    BY <1>6, <1>9, <1>10, <1>11, <1>15, <1>17, <2>1, <2>2, <2>3, FramesKept DEF JInv
<1>19. HoldersOK'
  BY <1>10, <1>11, <1>13, HoldersKept DEF JInv
<1>20. SlotsOK'
  BY <1>5, <1>6, <1>9, <1>10, <1>11, <1>13, <1>16, SlotsKept DEF JInv
<1>21. StacksOK' /\ StackTypeOK'
  BY <1>11, <1>12, StacksKept, ShiftTypes DEF JInv
<1>22. RefsOK'
  <2>1. \A x \in Slots : Referred(x)' => Referred(x)
    BY <1>2 DEF Referred
  <2> QED
    BY <1>2, <1>15, <2>1 DEF JInv, RefsOK
<1>23. CountOK'
  <2>1. Allocating' \subseteq Allocating \ {t}
    <3>1. SUFFICES ASSUME NEW u \in Threads, NEW k \in 1..Depth(u)', (Fr(u, k)').pc \in AllocPCs
                   PROVE  u \in Allocating /\ u # t
      BY DEF Allocating
    <3>2. k \in 1..Depth(u) /\ Kept(t, lo, u, k) /\ Fr(u, k)' = Fr(u, k)
      BY <1>1, <1>11, <1>13, <3>1, NewPositions
    <3>3. CASE u = t
      <4>1. k \in 1..Depth(t) - 1 /\ Fr(t, k).pc \in AllocPCs
        BY <1>l, <3>1, <3>2, <3>3 DEF Kept
      <4> QED
        BY <4>1 DEF JInv, StacksOK, CallPCs, AllocPCs
    <3> QED
      BY <3>1, <3>2, <3>3 DEF Allocating
  <2>2. /\ IsFiniteSet(Allocating \ {t})
        /\ Cardinality(Allocating \ {t}) = Cardinality(Allocating) - 1
        /\ Cardinality(Allocating) \in Nat
    BY <1>1, AllocatingCount, FS_RemoveElement
  <2>3. /\ Cardinality(Allocating') \in Nat
        /\ Cardinality(Allocating') <= Cardinality(Allocating) - 1
    BY <2>1, <2>2, FS_Subset, FS_CardinalityType
  <2>4. total' <= total + 1 /\ \A x \in Slots : generation'[x] <= generation[x] + 1
    <3>1. total' <= total + 1
      BY <1>3, <1>4
    <3>2. ASSUME NEW x \in Slots
          PROVE  generation'[x] <= generation[x] + 1
      <4>1. generation[x] \in Nat
        BY <1>7
      <4> QED
        BY <1>7, <4>1
    <3> QED
      BY <3>1, <3>2
  <2>5. /\ adds \in Nat /\ adds' = adds /\ total + Cardinality(Allocating) <= adds
        /\ \A x \in Slots : generation[x] + Cardinality(Allocating) <= adds
    BY <1>2, ConstantsOK DEF JInv, DataOK, CountOK
  <2>6. total' + Cardinality(Allocating') <= adds'
    BY <1>3, <1>6, <2>2, <2>3, <2>4, <2>5
  <2>7. ASSUME NEW x \in Slots
        PROVE  generation'[x] + Cardinality(Allocating') <= adds'
    <3>1. /\ generation'[x] \in Nat /\ generation[x] \in Nat
          /\ generation'[x] <= generation[x] + 1
          /\ generation[x] + Cardinality(Allocating) <= adds
      BY <1>7, <2>4, <2>5
    <3> QED
      BY <2>2, <2>3, <2>5, <3>1
  <2> QED
    BY <2>6, <2>7 DEF CountOK
<1>24. FreeOK'
  <2>1. \A i \in 1..Len(freeList') : /\ i + 1 \in 2..Len(freeList) /\ i + 1 \in 1..Len(freeList)
                                     /\ freeList'[i] = freeList[i + 1] /\ freeList # <<>>
    BY <1>3, <1>4
  <2>2. ASSUME NEW i \in 1..Len(freeList'), NEW j \in 1..Len(freeList'), freeList'[i] = freeList'[j]
        PROVE  i = j
    <3>1. /\ i + 1 \in 1..Len(freeList) /\ j + 1 \in 1..Len(freeList)
          /\ freeList[i + 1] = freeList[j + 1]
      BY <2>1, <2>2
    <3>2. i + 1 = j + 1
      BY <3>1 DEF JInv, FreeOK
    <3> QED
      BY <3>2
  <2>3. ASSUME NEW i \in 1..Len(freeList')
        PROVE  /\ freeList'[i] \in 1..total' /\ status'[freeList'[i]] = "free"
               /\ \A u \in Threads : \A k \in 1..Depth(u)' :
                    Holds(Fr(u, k)') => (Fr(u, k)').job # freeList'[i]
    <3>1. /\ i + 1 \in 1..Len(freeList) /\ freeList'[i] = freeList[i + 1] /\ freeList[i + 1] # s
      BY <1>10, <2>1
    <3>2. /\ freeList[i + 1] \in 1..total /\ status[freeList[i + 1]] = "free"
          /\ \A u \in Threads : \A k \in 1..Depth(u) :
               Holds(Fr(u, k)) => Fr(u, k).job # freeList[i + 1]
      BY <3>1 DEF JInv, FreeOK
    <3>3. ASSUME NEW u \in Threads, NEW k \in 1..Depth(u)', Holds(Fr(u, k)')
          PROVE  (Fr(u, k)').job # freeList[i + 1]
      <4>1. CASE k \in 1..Depth(u) /\ Fr(u, k)' = Fr(u, k)
        BY <3>2, <3>3, <4>1
      <4>2. CASE Fr(u, k)' = g
        BY <1>8, <3>1, <4>2
      <4> QED
        BY <1>1, <1>11, <4>1, <4>2, NewPositions
    <3> QED
      BY <1>2, <1>3, <1>6, <3>1, <3>2, <3>3
  <2> QED
    BY <2>2, <2>3 DEF FreeOK, Holds
<1> QED
  BY <1>9, <1>18, <1>19, <1>20, <1>21, <1>22, <1>23, <1>24 DEF JInv
-----------------------------------------------------------------------------
(* New calls.                                                              *)

LEMMA EnterAlloc ==
  ASSUME JInv, NEW t \in Threads, NEW g \in Frame, Enter(t, g), DataOK',
         total' = total, generation' = generation, adds' = adds + 1
  PROVE  CountOK'
<1> PICK d : d = Depth(t)
  OBVIOUS
<1>1. StackTypeOK /\ Shift(t, d, 1, g, g)
  BY EnterShift DEF JInv
<1>2. Allocating' \subseteq Allocating \union {t}
  <2>1. SUFFICES ASSUME NEW u \in Threads, NEW k \in 1..Depth(u)', (Fr(u, k)').pc \in AllocPCs
                 PROVE  u \in Allocating \union {t}
    BY DEF Allocating
  <2> QED
    BY <1>1, <2>1, NewPositions DEF Allocating
<1>3. /\ Cardinality(Allocating) \in Nat /\ IsFiniteSet(Allocating \union {t})
      /\ Cardinality(Allocating \union {t}) \in Nat
      /\ Cardinality(Allocating \union {t}) <= Cardinality(Allocating) + 1
  <2>1. IsFiniteSet(Allocating) /\ Cardinality(Allocating) \in Nat
    BY AllocatingCount
  <2>2. /\ IsFiniteSet(Allocating \union {t})
        /\ \/ Cardinality(Allocating \union {t}) = Cardinality(Allocating)
           \/ Cardinality(Allocating \union {t}) = Cardinality(Allocating) + 1
    <3>1. CASE t \in Allocating
      <4>1. Allocating \union {t} = Allocating
        BY <3>1
      <4> QED
        BY <2>1, <4>1
    <3>2. CASE t \notin Allocating
      BY <2>1, <3>2, FS_AddElement
    <3> QED
      BY <3>1, <3>2
  <2> QED
    BY <2>1, <2>2
<1>4. Cardinality(Allocating') \in Nat /\ Cardinality(Allocating') <= Cardinality(Allocating) + 1
  BY <1>2, <1>3, FS_Subset, FS_CardinalityType
<1>5. /\ adds \in Nat /\ total \in Nat /\ generation \in [Slots -> Nat]
      /\ total + Cardinality(Allocating) <= adds
      /\ \A x \in Slots : generation[x] + Cardinality(Allocating) <= adds
  BY ConstantsOK DEF JInv, DataOK, CountOK
<1>6. ASSUME NEW x \in Slots
      PROVE  generation'[x] + Cardinality(Allocating') <= adds'
  <2>1. generation[x] \in Nat /\ generation[x] + Cardinality(Allocating) <= adds
    BY <1>5
  <2> QED
    BY <1>3, <1>4, <1>5, <2>1
<1> QED
  BY <1>3, <1>4, <1>5, <1>6 DEF CountOK

LEMMA AddJobStep ==
  ASSUME JInv, NEW t \in Threads, NEW p \in Priorities, AddJob(t, p)
  PROVE  JInv'
<1>g. PICK g : g = [Blank EXCEPT !.pc = "alloc", !.prio = p]
  OBVIOUS
<1>1. /\ Enter(t, g) /\ Still /\ adds' = adds + 1 /\ adds < MaxJobs /\ sets' = sets
      /\ stack[t] = <<>> \/ Top(t).pc \in CallPCs
  BY <1>g DEF AddJob, MayCall, At, Still, CallPCs
<1>2. /\ g \in Frame /\ g.pc = "alloc" /\ g.arg = NoHandle /\ g.job = Null
      /\ g.cur = Null /\ g.next = Null
  BY <1>g, BlankFrame, ConstantsOK DEF Frame, PCs
<1>3. FrOK(g) /\ ~Holds(g)
  BY <1>2 DEF FrOK, HolderOK, FrameOK, PollOK, JobLess, Polling, Holds, FillPCs, RunPCs
<1>4. adds' \in 0..MaxJobs /\ sets' \in 0..MaxSets
  BY <1>1, ConstantsOK DEF JInv, DataOK
<1>5. DataOK' /\ QuietSlots /\ freeList' = freeList /\ NewRefs
  BY <1>1, <1>4, StillData
<1>6. CountOK'
  BY <1>1, <1>2, <1>5, EnterAlloc DEF QuietSlots
<1> QED
  BY <1>1, <1>2, <1>3, <1>5, <1>6, QuietEnter

LEMMA IssuedKnown ==
  ASSUME JInv, NEW h \in issued
  PROVE  h \in Handles /\ Known(h) /\ h # NoHandle
<1>1. h \in Handles /\ Known(h)
  BY DEF JInv, DataOK, RefsOK
<1>2. h[1] \in Slots /\ NoHandle[1] = 0
  BY <1>1 DEF Handles, NoHandle
<1> QED
  BY <1>1, <1>2 DEF Slots

LEMMA AddJobAfterStep ==
  ASSUME JInv, NEW t \in Threads, NEW h \in issued, NEW p \in Priorities, AddJobAfter(t, p, h)
  PROVE  JInv'
<1>g. PICK g : g = [Blank EXCEPT !.pc = "depgen", !.prio = p, !.arg = h]
  OBVIOUS
<1>0. h \in Handles /\ Known(h) /\ h # NoHandle
  BY IssuedKnown
<1>1. /\ Enter(t, g) /\ Still /\ adds' = adds + 1 /\ adds < MaxJobs /\ sets' = sets
      /\ stack[t] = <<>> \/ Top(t).pc \in CallPCs
  BY <1>g DEF AddJobAfter, MayCall, At, Still, CallPCs
<1>2. /\ g \in Frame /\ g.pc = "depgen" /\ g.arg = h /\ g.job = Null
      /\ g.cur = Null /\ g.next = Null
  BY <1>0, <1>g, BlankFrame, ConstantsOK DEF Frame, PCs
<1>3. FrOK(g) /\ ~Holds(g)
  BY <1>0, <1>2 DEF FrOK, HolderOK, FrameOK, PollOK, JobLess, Polling, Holds, FillPCs, RunPCs
<1>4. adds' \in 0..MaxJobs /\ sets' \in 0..MaxSets
  BY <1>1, ConstantsOK DEF JInv, DataOK
<1>5. DataOK' /\ QuietSlots /\ freeList' = freeList /\ NewRefs
  BY <1>1, <1>4, StillData
<1>6. CountOK'
  BY <1>1, <1>2, <1>5, EnterAlloc DEF QuietSlots
<1> QED
  BY <1>1, <1>2, <1>3, <1>5, <1>6, QuietEnter

LEMMA PollCallStep ==
  ASSUME JInv, NEW t \in Threads, NEW h \in issued, NEW call \in {"poll", "reap", "wait"},
         Poll(t, h, call)
  PROVE  JInv'
<1>w. PICK w \in BOOLEAN : w = (call = "wait")
  OBVIOUS
<1>e. PICK e \in BOOLEAN : e = (~Live(h) \/ status[h[1]] \in Finished)
  OBVIOUS
<1>g. PICK g : g = [Blank EXCEPT !.pc = "pollgen", !.arg = h, !.wait = w, !.late = e]
  OBVIOUS
<1>0. h \in Handles /\ Known(h) /\ h # NoHandle
  BY IssuedKnown
<1>1. /\ Enter(t, g) /\ Still /\ adds' = adds /\ sets' = sets
      /\ stack[t] = <<>> \/ Top(t).pc \in CallPCs
  BY <1>w, <1>e, <1>g DEF Poll, MayCall, At, Still, CallPCs
<1>2. /\ g \in Frame /\ g.pc = "pollgen" /\ g.arg = h /\ g.job = Null
      /\ g.cur = Null /\ g.next = Null
      /\ g.late = e
  <2>1. /\ h \in Handles \union {NoHandle} /\ "pollgen" \in PCs
        /\ w \in BOOLEAN /\ e \in BOOLEAN
    BY <1>0 DEF PCs
  <2> QED
    BY <1>g, <2>1, BlankFrame DEF Frame
<1>3. FrOK(g) /\ ~Holds(g) /\ g.pc \notin AllocPCs
  BY <1>0, <1>e, <1>2 DEF FrOK, HolderOK, FrameOK, PollOK, JobLess, Polling, Holds,
                           FillPCs, RunPCs, AllocPCs
<1>4. adds' \in 0..MaxJobs /\ sets' \in 0..MaxSets
  BY <1>1 DEF JInv, DataOK
<1>5. DataOK' /\ QuietSlots /\ freeList' = freeList /\ NewRefs
  BY <1>1, <1>4, StillData
<1>6. CountOK'
  BY <1>1, <1>2, <1>3, EnterCount
<1> QED
  BY <1>1, <1>2, <1>3, <1>5, <1>6, QuietEnter

LEMMA SetPriorityStep ==
  ASSUME JInv, NEW t \in Threads, NEW h \in issued, NEW p \in Priorities, SetPriority(t, h, p)
  PROVE  JInv'
<1>g. PICK g : g = [Blank EXCEPT !.pc = "setgen", !.arg = h, !.prio = p]
  OBVIOUS
<1>0. h \in Handles /\ Known(h) /\ h # NoHandle
  BY IssuedKnown
<1>1. /\ Enter(t, g) /\ Still /\ adds' = adds /\ sets' = sets + 1 /\ sets < MaxSets
      /\ stack[t] = <<>> \/ Top(t).pc \in CallPCs
  BY <1>g DEF SetPriority, MayCall, At, Still, CallPCs
<1>2. /\ g \in Frame /\ g.pc = "setgen" /\ g.arg = h /\ g.job = Null
      /\ g.cur = Null /\ g.next = Null
  BY <1>0, <1>g, BlankFrame, ConstantsOK DEF Frame, PCs
<1>3. FrOK(g) /\ ~Holds(g) /\ g.pc \notin AllocPCs
  BY <1>0, <1>2 DEF FrOK, HolderOK, FrameOK, PollOK, JobLess, Polling, Holds,
                           FillPCs, RunPCs, AllocPCs
<1>4. adds' \in 0..MaxJobs /\ sets' \in 0..MaxSets
  BY <1>1, ConstantsOK DEF JInv, DataOK
<1>5. DataOK' /\ QuietSlots /\ freeList' = freeList /\ NewRefs
  BY <1>1, <1>4, StillData
<1>6. CountOK'
  <2>1. /\ StackTypeOK /\ Shift(t, Depth(t), 1, g, g)
    BY <1>1, <1>2, EnterShift DEF JInv
  <2>2. total' = total /\ generation' = generation /\ adds' >= adds
    BY <1>1, ConstantsOK DEF Still, slotVars, poolVars, JInv, DataOK
  <2> QED
    BY <1>3, <1>5, <2>1, <2>2, CountKept DEF JInv
<1> QED
  BY <1>1, <1>2, <1>3, <1>5, <1>6, QuietEnter
-----------------------------------------------------------------------------
(* The invariant.                                                          *)

LEMMA InitInvariant ==
  ASSUME Init
  PROVE  JInv
<1>1. DataOK /\ StackTypeOK
  BY ConstantsOK DEF Init, DataOK, StackTypeOK, Statuses
<1>2. \A t \in Threads : Depth(t) = 0
  BY DEF Init, Depth
<1>3. CountOK
  <2>1. Allocating = {}
    BY <1>2 DEF Allocating
  <2>2. Cardinality(Allocating) = 0
    BY <2>1, FS_EmptySet
  <2> QED
    BY <2>2 DEF Init, CountOK
<1>4. StacksOK /\ FramesOK /\ HoldersOK
  BY <1>2 DEF StacksOK, FramesOK, HoldersOK
<1>5. SlotsOK /\ FreeOK
  BY DEF Init, SlotsOK, FreeOK
<1>6. RefsOK
  BY DEF Init, RefsOK, Referred, Null, Slots
<1>7. RunsOnce
  BY DEF Init, RunsOnce
<1> QED
  BY <1>1, <1>3, <1>4, <1>5, <1>6, <1>7 DEF JInv

LEMMA StutterInvariant ==
  ASSUME JInv, UNCHANGED vars
  PROVE  JInv'
<1> USE DEF vars, slotVars, poolVars, ghosts
<1>1. DataOK' /\ StackTypeOK'
  BY DEF JInv, DataOK, StackTypeOK
<1>2. /\ \A t \in Threads : Depth(t)' = Depth(t)
      /\ \A t, k : Fr(t, k)' = Fr(t, k)
  BY DEF Depth, Fr
<1>3. CountOK' /\ StacksOK'
  BY <1>2 DEF JInv, CountOK, Allocating, StacksOK
<1>4. /\ \A s : (Filled(s)' <=> Filled(s)) /\ (Referred(s)' <=> Referred(s))
      /\ \A s : Now(s)' = Now(s)
  BY <1>2 DEF Filled, Fills, Referred, Now
<1>5. /\ \A s : Born(s)' <=> Born(s)
      /\ \A h : Known(h)' <=> Known(h)
      /\ \A h : Live(h)' <=> Live(h)
      /\ \A s : SlotOK(s)' <=> SlotOK(s)
  BY <1>4 DEF Born, Known, Live, SlotOK
<1>6. \A f : FrOK(f)' <=> FrOK(f)
  BY <1>4, <1>5 DEF FrOK, HolderOK, FrameOK, PollOK
<1>7. FramesOK' /\ HoldersOK'
  BY <1>2, <1>6 DEF JInv, FramesOK, HoldersOK, Holds
<1>8. SlotsOK' /\ FreeOK' /\ RefsOK' /\ RunsOnce'
  BY <1>2, <1>4, <1>5 DEF JInv, SlotsOK, FreeOK, Holds, RefsOK, RunsOnce
<1> QED
  BY <1>1, <1>3, <1>7, <1>8 DEF JInv

LEMMA StepInvariant ==
  ASSUME JInv, [Next]_vars
  PROVE  JInv'
<1>1. ASSUME NEW t \in Threads, AddStep(t)
      PROVE  JInv'
  BY <1>1, CheckDependencyStep, AllocateStep, FillStep, ReadDependencyStatusStep, PublishStep,
     ParkStep, LinkStep, PrependStep, RecheckDependencyStep, SelfPromoteStep, ReturnHandleStep
     DEF AddStep
<1>2. ASSUME NEW t \in Threads, ScheduleStep(t)
      PROVE  JInv'
  BY <1>2, LoadPriorityStep, EnqueueStep, ClaimInlineStep DEF ScheduleStep
<1>3. ASSUME NEW t \in Threads, RunStep(t)
      PROVE  JInv'
  BY <1>3, StartScanStep, ScanStep, MatchStep, ClaimStep, BeginStep, FinishBodyStep, DrainStep,
     WalkStep, PromoteStep DEF RunStep
<1>4. ASSUME NEW t \in Threads, PollStep(t)
      PROVE  JInv'
  BY <1>4, PollGenerationStep, PollStatusStep, PollGenerationAgainStep, RecycleStep,
     PushFreeStep, AnswerStep DEF PollStep
<1>5. ASSUME NEW t \in Threads, SetStep(t)
      PROVE  JInv'
  BY <1>5, SetLookupStep, SetStatusStep, SetStoreStep, SetRecheckStep DEF SetStep
<1>6. ASSUME NEW t \in Threads, NewCall(t)
      PROVE  JInv'
  BY <1>6, AddJobStep, AddJobAfterStep, PollCallStep, SetPriorityStep DEF NewCall
<1>7. CASE UNCHANGED vars
  BY <1>7, StutterInvariant
<1> QED
  BY <1>1, <1>2, <1>3, <1>4, <1>5, <1>6, <1>7 DEF Next, Step

(* The inductive invariant holds in every behaviour, fair or not, of any   *)
(* number of workers and clients: the generations and statuses of the      *)
(* slots tell who may touch them (fl_jobs_*, jobsys.c).                    *)
THEOREM InvariantAlways == SafeSpec => []JInv
<1>1. Init => JInv
  BY InitInvariant
<1>2. JInv /\ [Next]_vars => JInv'
  BY StepInvariant
<1> QED
  BY <1>1, <1>2, PTL DEF SafeSpec

(* Positions and the set of frames.                                        *)
LEMMA FramePosition ==
  ASSUME JInv, NEW f \in Frames
  PROVE  /\ f \in Frame /\ FrOK(f)
         /\ \E t \in Threads : \E k \in 1..Depth(t) : f = Fr(t, k)
<1>1. PICK t \in Threads : f \in {stack[t][i] : i \in DOMAIN stack[t]}
  BY DEF Frames
<1>2. PICK i \in DOMAIN stack[t] : f = stack[t][i]
  BY <1>1
<1>3. stack[t] \in Seq(Frame) /\ Len(stack[t]) \in Nat /\ DOMAIN stack[t] = 1..Len(stack[t])
  BY LenProperties DEF JInv, StackTypeOK
<1>4. PICK k \in 1..Depth(t) : Len(stack[t]) - k + 1 = i
  <2>1. Len(stack[t]) - i + 1 \in 1..Depth(t) /\ Len(stack[t]) - (Len(stack[t]) - i + 1) + 1 = i
    BY <1>3 DEF Depth
  <2> QED
    BY <2>1
<1>5. f = Fr(t, k) /\ f \in Frame
  BY <1>2, <1>3, <1>4, ElementOfSeq DEF Fr
<1> QED
  BY <1>5 DEF JInv, FramesOK

(* Every variable keeps its type.                                          *)
THEOREM TypeOKAlways == SafeSpec => []TypeOK
<1>1. JInv => TypeOK
  BY DEF JInv, DataOK, StackTypeOK, TypeOK
<1> QED
  BY <1>1, InvariantAlways, PTL

(* No job runs twice, whichever of dequeuers, promoters, submitters and    *)
(* inline runners compete for it (execute_job and its callers).            *)
THEOREM RunsOnceAlways == SafeSpec => []RunsOnce
<1>1. JInv => RunsOnce
  BY DEF JInv
<1> QED
  BY <1>1, InvariantAlways, PTL

(* The free list never holds a slot twice or one that is in use            *)
(* (allocate_job_info, recycle_job_info).                                  *)
THEOREM FreeListIsSoundAlways == SafeSpec => []FreeListIsSound
<1>1. JInv => FreeListIsSound
  <2> SUFFICES ASSUME JInv
               PROVE  FreeListIsSound
    OBVIOUS
  <2>1. TypeOK /\ DOMAIN freeList = 1..Len(freeList) /\ total \in Nat
    BY DEF JInv, DataOK, StackTypeOK, TypeOK
  <2>2. ASSUME NEW i \in 1..Len(freeList), NEW f \in Frames, f.job = freeList[i]
        PROVE  f.pc \notin {"fill", "depstatus", "publish", "park", "begin", "body",
                            "drain", "walk", "promote", "push"}
    <3>1. ~Holds(f)
      BY <2>2, FramePosition DEF JInv, FreeOK
    <3> QED
      BY <3>1 DEF Holds, FillPCs, RunPCs
  <2>3. /\ \A i, j \in 1..Len(freeList) : freeList[i] = freeList[j] => i = j
        /\ \A i \in 1..Len(freeList) : status[freeList[i]] = "free" /\ freeList[i] <= total
    BY <2>1 DEF JInv, FreeOK
  <2> QED
    BY <2>1, <2>2, <2>3 DEF FreeListIsSound
<1> QED
  BY <1>1, InvariantAlways, PTL

(* fl_jobs_is_finished says "finished" only of a job whose function has    *)
(* returned, and "not finished" of none that had completed before the call. *)
THEOREM AnswersAreTrueAlways == SafeSpec => []AnswersAreTrue
<1>1. JInv => AnswersAreTrue
  <2> SUFFICES ASSUME JInv, NEW f \in Frames
               PROVE  /\ SaysFinished(f) => phase[f.arg] = "done"
                      /\ SaysNotFinished(f) => ~f.late
    BY DEF AnswersAreTrue
  <2>1. PollOK(f)
    BY FramePosition DEF FrOK
  <2> QED
    BY <2>1 DEF PollOK, SaysFinished, SaysNotFinished
<1> QED
  BY <1>1, InvariantAlways, PTL
=============================================================================
