-------------------------- MODULE WorkerIdle_proofs --------------------------
(***************************************************************************)
(* Proofs about WorkerIdle, for any number of workers, producers, queues   *)
(* and cells.                                                              *)
(***************************************************************************)
EXTENDS WorkerIdle, FiniteSetTheorems, SequenceTheorems, TLAPS

Cells  == Threads \union {Ready}
Queues == [Levels -> Seq(Cells)]

(* What the three accesses to a queue leave is a sequence of cells again.  *)
LEMMA AppendCell ==
  ASSUME NEW q \in Queues, NEW p \in Levels, NEW c \in Cells
  PROVE  [q EXCEPT ![p] = Append(@, c)] \in Queues
<1> q[p] \in Seq(Cells) BY DEF Queues
<1> Append(q[p], c) \in Seq(Cells) OBVIOUS
<1> QED BY DEF Queues

(* ... the dequeue,                                                        *)
LEMMA TailCells ==
  ASSUME NEW q \in Queues, NEW p \in Levels, q[p] # <<>>
  PROVE  [q EXCEPT ![p] = Tail(@)] \in Queues
<1> q[p] \in Seq(Cells) BY DEF Queues
<1> Tail(q[p]) \in Seq(Cells) OBVIOUS
<1> QED BY DEF Queues

Published(s, t) == [i \in DOMAIN s |-> IF s[i] = t THEN Ready ELSE s[i]]

(* ... and the publication of a cell.                                      *)
LEMMA PublishedCells ==
  ASSUME NEW q \in Queues, NEW p \in Levels, NEW t
  PROVE  [q EXCEPT ![p] = Published(@, t)] \in Queues
<1> q[p] \in Seq(Cells) BY DEF Queues
<1>1. DOMAIN q[p] = 1..Len(q[p]) /\ Len(q[p]) \in Nat OBVIOUS
<1>2. \A i \in 1..Len(q[p]) : q[p][i] \in Cells OBVIOUS
<1>3. Ready \in Cells BY DEF Cells
<1>4. Published(q[p], t) \in [1..Len(q[p]) -> Cells]
  BY <1>1, <1>2, <1>3 DEF Published
<1>5. Published(q[p], t) \in Seq(Cells)
  BY <1>1, <1>4, SeqDef
<1> QED BY <1>5 DEF Queues

(* A thread that moves to a place of its own keeps PcOK.                   *)
LEMMA PcStep ==
  ASSUME PcOK, NEW t \in Threads, NEW to \in PCs,
         t \in Workers => to \in WorkerPCs,
         t \in Producers => to \in ProducerPCs,
         t = Main => to \in MainPCs,
         pc' = [pc EXCEPT ![t] = to]
  PROVE  PcOK'
BY ConstantsOK DEF PcOK, Threads, Enqueuers

(* A scan takes or drops the head of one queue, or goes down a level.      *)
LEMMA ScanStep ==
  ASSUME TypeOK, NEW w \in Workers, NEW from \in WorkerPCs, NEW to \in WorkerPCs,
         TakeEntry(w, from, to) \/ NextLevel(w, from, to)
  PROVE  /\ PcOK' /\ level' \in [Enqueuers -> Levels] /\ queue' \in Queues
         /\ pc' = [pc EXCEPT ![w] = pc'[w]] /\ pc[w] = from /\ pc'[w] \in {from, to}
<1>0. w \in Threads /\ w # Main /\ w \notin Producers /\ w \in Enqueuers
  BY ConstantsOK DEF Threads, Enqueuers
<1>1. level[w] \in Levels /\ queue \in Queues
  BY <1>0 DEF TypeOK, Queues, Cells
<1>2. \E x \in {from, to} : pc[w] = from /\ pc' = [pc EXCEPT ![w] = x]
  BY DEF TakeEntry, NextLevel, Goto
<1>3. pc \in [Threads -> PCs] /\ from \in PCs /\ to \in PCs
  BY DEF TypeOK, PcOK, WorkerPCs, PCs
<1>4. PcOK'
  BY <1>0, <1>2, <1>3, PcStep DEF TypeOK
<1>5. queue' \in Queues
  <2>1. CASE TakeEntry(w, from, to)
    BY <2>1, <1>1, TailCells DEF TakeEntry, CanPop
  <2>2. CASE NextLevel(w, from, to)
    BY <2>2, <1>1 DEF NextLevel
  <2> QED BY <2>1, <2>2
<1>6. level' \in [Enqueuers -> Levels]
  <2>1. CASE TakeEntry(w, from, to)
    BY <2>1 DEF TakeEntry, TypeOK
  <2>2. CASE NextLevel(w, from, to) /\ level[w] > 0
    <3>1. level[w] - 1 \in Levels BY <2>2, <1>1, ConstantsOK DEF Levels
    <3> QED BY <2>2, <3>1, <1>1 DEF NextLevel, TypeOK
  <2>3. CASE NextLevel(w, from, to) /\ ~(level[w] > 0)
    BY <2>3 DEF NextLevel, TypeOK
  <2> QED BY <2>1, <2>2, <2>3
<1> QED BY <1>0, <1>2, <1>3, <1>4, <1>5, <1>6

(* Every step keeps the state well typed.                                  *)
LEMMA TypeStep == ASSUME TypeOK, [Next]_vars PROVE TypeOK'
<1> USE ConstantsOK DEF Enqueuers, Threads
<1>0. queue \in Queues /\ \A t \in Enqueuers : level[t] \in Levels /\ t \in Cells
  BY DEF TypeOK, Queues, Cells
<1>q. TypeOK' <=> /\ PcOK' /\ level' \in [Enqueuers -> Levels] /\ queue' \in Queues
                  /\ idle' \in Int /\ mutex' \in Threads \union {NoOwner}
                  /\ shutdown' \in BOOLEAN
                  /\ entries' \in 0..MaxEntries /\ spurious' \in 0..MaxSpurious
  BY DEF TypeOK, Queues, Cells
<1>1. ASSUME NEW t \in Enqueuers, EnqueueStep(t) PROVE TypeOK'
  <2>1. CASE ClaimCell(t)
    <3>1. PcOK' BY <2>1, PcStep DEF ClaimCell, Goto, TypeOK, PCs, WorkerPCs, ProducerPCs
    <3>2. queue' \in Queues
      BY <2>1, <1>0, AppendCell DEF ClaimCell
    <3> QED BY <1>q, <2>1, <3>1, <3>2 DEF ClaimCell, TypeOK
  <2>2. CASE PublishCell(t)
    <3>1. PcOK' BY <2>2, PcStep DEF PublishCell, Goto, TypeOK, PCs, WorkerPCs, ProducerPCs
    <3>2. queue' \in Queues
      BY <2>2, <1>0, PublishedCells DEF PublishCell, Published
    <3> QED BY <1>q, <2>2, <3>1, <3>2 DEF PublishCell, TypeOK
  <2>3. CASE LoadIdle(t)
    BY <2>3 DEF LoadIdle, Goto, Resume, TypeOK, PcOK, PCs, WorkerPCs, ProducerPCs, MainPCs
  <2>4. CASE LockToSignal(t)
    BY <2>4 DEF LockToSignal, Goto, Acquire, TypeOK, PcOK, PCs, WorkerPCs, ProducerPCs, MainPCs
  <2>5. CASE Signal(t)
    BY <2>5 DEF Signal, Asleep, TypeOK, PcOK, PCs, WorkerPCs, ProducerPCs, MainPCs
  <2>6. CASE UnlockAfterSignal(t)
    <3>1. PcOK' BY <2>6, PcStep DEF UnlockAfterSignal, Goto, Resume, TypeOK, PCs, WorkerPCs, ProducerPCs
    <3> QED BY <1>q, <2>6, <3>1 DEF UnlockAfterSignal, Release, TypeOK, Queues, Cells
  <2> QED BY <1>1, <2>1, <2>2, <2>3, <2>4, <2>5, <2>6 DEF EnqueueStep
<1>2. ASSUME NEW t \in Enqueuers, NEW p \in Levels, Schedule(t, p) PROVE TypeOK'
  <2>1. PcOK' BY <1>2, PcStep DEF Schedule, Goto, TypeOK, PCs, WorkerPCs, ProducerPCs
  <2>2. entries' \in 0..MaxEntries BY <1>2 DEF Schedule, TypeOK
  <2> QED BY <1>2, <1>q, <2>1, <2>2 DEF Schedule, TypeOK, Queues, Cells
<1>3. ASSUME NEW w \in Workers, WorkerStep(w) PROVE TypeOK'
  <2>1. CASE CheckShutdown(w)
    <3>1. PcOK' BY <2>1, PcStep DEF CheckShutdown, Goto, TypeOK, PCs, WorkerPCs
    <3>2. High \in Levels BY DEF Levels
    <3> QED BY <2>1, <1>q, <3>1, <3>2 DEF CheckShutdown, TypeOK, Queues, Cells
  <2>2. CASE Scan(w)
    BY <2>2, <1>q, ScanStep DEF Scan, WorkerPCs, TypeOK
  <2>3. CASE FinishJob(w)
    BY <2>3 DEF FinishJob, Goto, TypeOK, PcOK, PCs, WorkerPCs, ProducerPCs, MainPCs
  <2>4. CASE LockToIdle(w)
    BY <2>4 DEF LockToIdle, Goto, Acquire, TypeOK, PcOK, PCs, WorkerPCs, ProducerPCs, MainPCs
  <2>5. CASE RegisterIdle(w)
    <3>1. PcOK' BY <2>5, PcStep DEF RegisterIdle, Goto, TypeOK, PCs, WorkerPCs
    <3>2. High \in Levels BY DEF Levels
    <3> QED BY <2>5, <1>q, <3>1, <3>2 DEF RegisterIdle, TypeOK, Queues, Cells
  <2>6. CASE Rescan(w)
    BY <2>6, <1>q, ScanStep DEF Rescan, WorkerPCs, TypeOK
  <2>7. CASE SleepUnlessShutdown(w)
    BY <2>7 DEF SleepUnlessShutdown, Goto, Release, TypeOK, PcOK, PCs, WorkerPCs, ProducerPCs, MainPCs
  <2>8. CASE WakeUp(w)
    BY <2>8 DEF WakeUp, Goto, Acquire, TypeOK, PcOK, PCs, WorkerPCs, ProducerPCs, MainPCs
  <2>9. CASE DeregisterIdle(w)
    <3>1. PcOK' BY <2>9, PcStep DEF DeregisterIdle, Goto, TypeOK, PCs, WorkerPCs
    <3> QED BY <2>9, <1>q, <3>1 DEF DeregisterIdle, TypeOK, Queues, Cells
  <2>10. CASE UnlockIdle(w)
    <3>1. PcOK' BY <2>10, PcStep DEF UnlockIdle, Goto, TypeOK, PCs, WorkerPCs
    <3> QED BY <2>10, <1>q, <3>1 DEF UnlockIdle, Release, TypeOK, Queues, Cells
  <2> QED BY <1>3, <2>1, <2>2, <2>3, <2>4, <2>5, <2>6, <2>7, <2>8, <2>9, <2>10 DEF WorkerStep
<1>4. ASSUME NEW w \in Workers, SpuriousWake(w) PROVE TypeOK'
  BY <1>4 DEF SpuriousWake, Goto, TypeOK, PcOK, PCs, WorkerPCs, ProducerPCs, MainPCs
<1>5. CASE RaiseShutdown
  BY <1>5 DEF RaiseShutdown, Goto, TypeOK, PcOK, PCs, WorkerPCs, ProducerPCs, MainPCs
<1>6. CASE DestroyStep
  <2> USE DEF TypeOK, PcOK, PCs, WorkerPCs, ProducerPCs, MainPCs
  <2>1. CASE LockToBroadcast
    BY <2>1 DEF LockToBroadcast, Goto, Acquire
  <2>2. CASE Broadcast
    BY <2>2 DEF Broadcast, Asleep
  <2>3. CASE UnlockAfterBroadcast
    BY <2>3 DEF UnlockAfterBroadcast, Goto, Release
  <2>4. CASE Join
    BY <2>4 DEF Join, Goto
  <2> QED BY <1>6, <2>1, <2>2, <2>3, <2>4 DEF DestroyStep
<1>7. CASE UNCHANGED vars
  BY <1>7 DEF vars, TypeOK, PcOK
<1> QED
  BY <1>1, <1>2, <1>3, <1>4, <1>5, <1>6, <1>7 DEF Next, Destroyed

(* The initial state is well typed.                                        *)
LEMMA TypeInit == Init => TypeOK
<1> SUFFICES ASSUME Init PROVE TypeOK OBVIOUS
<1> USE ConstantsOK DEF Init, Enqueuers, Threads
<1>1. PcOK BY DEF PcOK, PCs, WorkerPCs, ProducerPCs, MainPCs
<1>2. level \in [Enqueuers -> Levels] BY DEF Levels
<1>3. queue \in [Levels -> Seq(Threads \union {Ready})]
  <2>1. <<>> \in Seq(Threads \union {Ready}) OBVIOUS
  <2> QED BY <2>1
<1>4. idle \in Int OBVIOUS
<1>5. mutex \in Threads \union {NoOwner} OBVIOUS
<1>6. shutdown \in BOOLEAN OBVIOUS
<1>7. entries \in 0..MaxEntries /\ spurious \in 0..MaxSpurious BY DEF ConstantsOK
<1> QED BY <1>1, <1>2, <1>3, <1>4, <1>5, <1>6, <1>7 DEF TypeOK

(* Every reachable state is well typed, whatever the constants.            *)
THEOREM TypeCorrect == SafeSpec => []TypeOK
BY TypeInit, TypeStep, PTL DEF SafeSpec
-----------------------------------------------------------------------------
(* idle_mutex is owned by exactly the thread that is between lock and unlock. *)
LEMMA LockStep == ASSUME TypeOK, LockInv, [Next]_vars PROVE LockInv'
<1> USE ConstantsOK DEF LockInv, Holding, TypeOK, PcOK, Enqueuers, Threads, NoOwner
<1>1. ASSUME NEW t \in Enqueuers, EnqueueStep(t) PROVE LockInv'
  <2>1. CASE ClaimCell(t)
    BY <2>1 DEF ClaimCell, Goto
  <2>2. CASE PublishCell(t)
    BY <2>2 DEF PublishCell, Goto
  <2>3. CASE LoadIdle(t)
    BY <2>3 DEF LoadIdle, Goto, Resume
  <2>4. CASE LockToSignal(t)
    BY <2>4 DEF LockToSignal, Goto, Acquire
  <2>5. CASE Signal(t)
    BY <2>5 DEF Signal, Asleep
  <2>6. CASE UnlockAfterSignal(t)
    BY <2>6 DEF UnlockAfterSignal, Goto, Release, Resume
  <2> QED BY <1>1, <2>1, <2>2, <2>3, <2>4, <2>5, <2>6 DEF EnqueueStep
<1>2. ASSUME NEW t \in Enqueuers, NEW l \in Levels, Schedule(t, l) PROVE LockInv'
  BY <1>2 DEF Schedule, Goto
<1>3. ASSUME NEW w \in Workers, WorkerStep(w) PROVE LockInv'
  <2>1. CASE CheckShutdown(w)
    BY <2>1 DEF CheckShutdown, Goto
  <2>2. CASE Scan(w)
    BY <2>2, ScanStep DEF Scan, WorkerPCs
  <2>3. CASE FinishJob(w)
    BY <2>3 DEF FinishJob, Goto
  <2>4. CASE LockToIdle(w)
    BY <2>4 DEF LockToIdle, Goto, Acquire
  <2>5. CASE RegisterIdle(w)
    BY <2>5 DEF RegisterIdle, Goto
  <2>6. CASE Rescan(w)
    BY <2>6, ScanStep DEF Rescan, WorkerPCs
  <2>7. CASE SleepUnlessShutdown(w)
    BY <2>7 DEF SleepUnlessShutdown, Goto, Release
  <2>8. CASE WakeUp(w)
    BY <2>8 DEF WakeUp, Goto, Acquire
  <2>9. CASE DeregisterIdle(w)
    BY <2>9 DEF DeregisterIdle, Goto
  <2>10. CASE UnlockIdle(w)
    BY <2>10 DEF UnlockIdle, Goto, Release
  <2> QED BY <1>3, <2>1, <2>2, <2>3, <2>4, <2>5, <2>6, <2>7, <2>8, <2>9, <2>10 DEF WorkerStep
<1>4. ASSUME NEW w \in Workers, SpuriousWake(w) PROVE LockInv'
  BY <1>4 DEF SpuriousWake, Goto
<1>5. CASE RaiseShutdown
  BY <1>5 DEF RaiseShutdown, Goto
<1>6. CASE DestroyStep
  <2>1. CASE LockToBroadcast
    BY <2>1 DEF LockToBroadcast, Goto, Acquire
  <2>2. CASE Broadcast
    BY <2>2 DEF Broadcast, Asleep
  <2>3. CASE UnlockAfterBroadcast
    BY <2>3 DEF UnlockAfterBroadcast, Goto, Release
  <2>4. CASE Join
    BY <2>4 DEF Join, Goto
  <2> QED BY <1>6, <2>1, <2>2, <2>3, <2>4 DEF DestroyStep
<1>7. CASE UNCHANGED vars
  BY <1>7 DEF vars
<1> QED
  BY <1>1, <1>2, <1>3, <1>4, <1>5, <1>6, <1>7 DEF Next, Destroyed

(* idle_workers counts the workers inside wait_for_work.                   *)
LEMMA CountedFinite == IsFiniteSet(Counted) /\ Cardinality(Counted) \in Nat
<1>1. Counted \subseteq Workers BY DEF Counted
<1> QED BY <1>1, ConstantsOK, FS_Subset, FS_CardinalityType

(* A counted worker is seen by whoever loads idle_workers.                 *)
LEMMA SomeoneCounted ==
  ASSUME IdleCountIsExact, Counted # {} PROVE idle > 0
BY CountedFinite, FS_EmptySet DEF IdleCountIsExact

(* Nobody enters or leaves wait_for_work: the count stays exact.           *)
LEMMA CountSame ==
  ASSUME IdleCountIsExact, Counted' = Counted, idle' = idle PROVE IdleCountIsExact'
BY DEF IdleCountIsExact

(* Every step keeps the count exact.                                       *)
LEMMA CountStep == ASSUME TypeOK, IdleCountIsExact, [Next]_vars PROVE IdleCountIsExact'
<1> USE ConstantsOK DEF TypeOK, PcOK, Enqueuers, Threads
<1> USE CountSame DEF Counted
<1>1. ASSUME NEW t \in Enqueuers, EnqueueStep(t) PROVE IdleCountIsExact'
  <2>1. CASE ClaimCell(t)
    BY <2>1 DEF ClaimCell, Goto
  <2>2. CASE PublishCell(t)
    BY <2>2 DEF PublishCell, Goto
  <2>3. CASE LoadIdle(t)
    BY <2>3 DEF LoadIdle, Goto, Resume
  <2>4. CASE LockToSignal(t)
    BY <2>4 DEF LockToSignal, Goto, Acquire
  <2>5. CASE Signal(t)
    BY <2>5 DEF Signal, Asleep
  <2>6. CASE UnlockAfterSignal(t)
    BY <2>6 DEF UnlockAfterSignal, Goto, Release, Resume
  <2> QED BY <1>1, <2>1, <2>2, <2>3, <2>4, <2>5, <2>6 DEF EnqueueStep
<1>2. ASSUME NEW t \in Enqueuers, NEW l \in Levels, Schedule(t, l) PROVE IdleCountIsExact'
  BY <1>2 DEF Schedule, Goto
<1>3. ASSUME NEW w \in Workers, WorkerStep(w) PROVE IdleCountIsExact'
  <2>1. CASE CheckShutdown(w)
    BY <2>1 DEF CheckShutdown, Goto
  <2>2. CASE Scan(w)
    BY <2>2, ScanStep DEF Scan, WorkerPCs
  <2>3. CASE FinishJob(w)
    BY <2>3 DEF FinishJob, Goto
  <2>4. CASE LockToIdle(w)
    BY <2>4 DEF LockToIdle, Goto, Acquire
  <2>5. CASE RegisterIdle(w)
    <3>1. Counted' = Counted \union {w} /\ w \notin Counted
      BY <2>5 DEF RegisterIdle, Goto
    <3>2. Cardinality(Counted') = Cardinality(Counted) + 1
      BY <3>1, CountedFinite, FS_AddElement
    <3> QED BY <2>5, <3>2 DEF RegisterIdle, IdleCountIsExact
  <2>6. CASE Rescan(w)
    BY <2>6, ScanStep DEF Rescan, WorkerPCs
  <2>7. CASE SleepUnlessShutdown(w)
    BY <2>7 DEF SleepUnlessShutdown, Goto, Release
  <2>8. CASE WakeUp(w)
    BY <2>8 DEF WakeUp, Goto, Acquire
  <2>9. CASE DeregisterIdle(w)
    <3>1. Counted' = Counted \ {w} /\ w \in Counted
      BY <2>9 DEF DeregisterIdle, Goto
    <3>2. Cardinality(Counted') = Cardinality(Counted) - 1
      <4> HIDE DEF Counted
      <4> QED BY <3>1, CountedFinite, FS_RemoveElement
    <3> QED BY <2>9, <3>2 DEF DeregisterIdle, IdleCountIsExact
  <2>10. CASE UnlockIdle(w)
    BY <2>10 DEF UnlockIdle, Goto, Release
  <2> QED BY <1>3, <2>1, <2>2, <2>3, <2>4, <2>5, <2>6, <2>7, <2>8, <2>9, <2>10 DEF WorkerStep
<1>4. ASSUME NEW w \in Workers, SpuriousWake(w) PROVE IdleCountIsExact'
  BY <1>4 DEF SpuriousWake, Goto
<1>5. CASE RaiseShutdown
  BY <1>5 DEF RaiseShutdown, Goto
<1>6. CASE DestroyStep
  <2>1. CASE LockToBroadcast
    BY <2>1 DEF LockToBroadcast, Goto, Acquire
  <2>2. CASE Broadcast
    BY <2>2 DEF Broadcast, Asleep
  <2>3. CASE UnlockAfterBroadcast
    BY <2>3 DEF UnlockAfterBroadcast, Goto, Release
  <2>4. CASE Join
    BY <2>4 DEF Join, Goto
  <2> QED BY <1>6, <2>1, <2>2, <2>3, <2>4 DEF DestroyStep
<1>7. CASE UNCHANGED vars
  BY <1>7 DEF vars
<1> QED
  BY <1>1, <1>2, <1>3, <1>4, <1>5, <1>6, <1>7 DEF Next, Destroyed

-----------------------------------------------------------------------------
(* An unpublished cell belongs to an enqueuer who is about to publish it.  *)
LEMMA CellsSame ==
  ASSUME TypeOK, CellInv,
         \A t \in Enqueuers : pc[t] = "publish" => pc'[t] = "publish" /\ level'[t] = level[t],
         \A p \in Levels : \A i \in DOMAIN queue'[p] :
            queue'[p][i] # Ready => \E j \in DOMAIN queue[p] : queue'[p][i] = queue[p][j]
  PROVE  CellInv'
BY DEF CellInv

(* Where the cells of a tail come from.                                    *)
LEMMA TailCell ==
  ASSUME NEW s \in Seq(Cells), s # <<>>, NEW i \in DOMAIN Tail(s)
  PROVE  i + 1 \in DOMAIN s /\ Tail(s)[i] = s[i + 1]
OBVIOUS

(* A scan leaves the cells of publishing enqueuers where they are.         *)
LEMMA ScanCells ==
  ASSUME TypeOK, CellInv, NEW w \in Workers, NEW from \in {"scan", "rescan"}, NEW to \in WorkerPCs,
         TakeEntry(w, from, to) \/ NextLevel(w, from, to)
  PROVE  CellInv'
<1>0. queue \in Queues /\ level[w] \in Levels /\ w \in Threads /\ w \in Enqueuers
  BY DEF TypeOK, Queues, Cells, Enqueuers, Threads
<1>1. pc' = [pc EXCEPT ![w] = pc'[w]] /\ pc[w] = from
  BY ScanStep DEF WorkerPCs
<1>2. \A t \in Enqueuers : pc[t] = "publish" => pc'[t] = "publish" /\ level'[t] = level[t]
  BY <1>0, <1>1 DEF TakeEntry, NextLevel, TypeOK, PcOK, Threads, Enqueuers
<1>3. ASSUME NEW p \in Levels, NEW i \in DOMAIN queue'[p]
      PROVE  \E j \in DOMAIN queue[p] : queue'[p][i] = queue[p][j]
  <2>1. CASE TakeEntry(w, from, to) /\ p = level[w]
    <3>1. queue[p] \in Seq(Cells) /\ queue[p] # <<>> /\ queue'[p] = Tail(queue[p])
      BY <1>0, <2>1 DEF TakeEntry, CanPop, Queues
    <3> QED BY <3>1, TailCell
  <2>2. CASE TakeEntry(w, from, to) /\ p # level[w]
    BY <2>2, <1>0, <1>3 DEF TakeEntry, Queues
  <2>3. CASE NextLevel(w, from, to)
    BY <2>3, <1>3 DEF NextLevel
  <2> QED BY <2>1, <2>2, <2>3
<1> QED BY <1>2, <1>3, CellsSame

(* Every step keeps CellInv: a claimed cell is its enqueuer's until published. *)
LEMMA CellStep == ASSUME TypeOK, CellInv, [Next]_vars PROVE CellInv'
<1> USE ConstantsOK DEF TypeOK, PcOK, Enqueuers, Threads
<1>1. ASSUME NEW t \in Enqueuers, EnqueueStep(t) PROVE CellInv'
  <2>1. CASE ClaimCell(t)
    <3>1. CASE queue' = queue
      BY <2>1, <3>1, CellsSame DEF ClaimCell, Goto
    <3>2. CASE /\ pc[t] = "claim" /\ pc' = [pc EXCEPT ![t] = "publish"]
               /\ queue' = [queue EXCEPT ![level[t]] = Append(@, t)]
      <4> SUFFICES ASSUME NEW p \in Levels, NEW i \in DOMAIN queue'[p], queue'[p][i] # Ready
                   PROVE  /\ queue'[p][i] \in Enqueuers
                          /\ pc'[queue'[p][i]] = "publish" /\ level'[queue'[p][i]] = p
        BY DEF CellInv
      <4>0. queue[p] \in Seq(Cells) /\ level' = level BY <2>1 DEF Cells, ClaimCell
      <4>1. CASE p = level[t]
        <5>1. queue'[p] = Append(queue[p], t) BY <3>2, <4>1
        <5>2. i \in 1..(Len(queue[p]) + 1) BY <4>0, <5>1
        <5>3. CASE i = Len(queue[p]) + 1
          BY <3>2, <4>0, <4>1, <5>1, <5>3
        <5>4. CASE i \in 1..Len(queue[p])
          <6>1. queue'[p][i] = queue[p][i] /\ i \in DOMAIN queue[p] BY <4>0, <5>1, <5>4
          <6> QED BY <3>2, <4>0, <6>1 DEF CellInv
        <5> QED BY <4>0, <5>2, <5>3, <5>4
      <4>2. CASE p # level[t]
        <5>1. queue'[p] = queue[p] BY <3>2, <4>2
        <5> QED BY <3>2, <4>0, <5>1 DEF CellInv
      <4> QED BY <4>1, <4>2
    <3> QED BY <2>1, <3>1, <3>2 DEF ClaimCell, Goto
  <2>2. CASE PublishCell(t)
    <3> SUFFICES ASSUME NEW p \in Levels, NEW i \in DOMAIN queue'[p], queue'[p][i] # Ready
                 PROVE  /\ queue'[p][i] \in Enqueuers
                        /\ pc'[queue'[p][i]] = "publish" /\ level'[queue'[p][i]] = p
      BY DEF CellInv
    <3>1. pc' = [pc EXCEPT ![t] = "loadidle"] /\ level' = level
      BY <2>2 DEF PublishCell, Goto
    <3>2. i \in DOMAIN queue[p] /\ queue'[p][i] = queue[p][i]
      BY <2>2 DEF PublishCell
    <3>3. p = level[t] => queue'[p][i] # t
      BY <2>2, ConstantsOK DEF PublishCell
    <3> QED BY <3>1, <3>2, <3>3 DEF CellInv
  <2>3. CASE LoadIdle(t)
    BY <2>3, CellsSame DEF LoadIdle, Goto, Resume
  <2>4. CASE LockToSignal(t)
    BY <2>4, CellsSame DEF LockToSignal, Goto, Acquire
  <2>5. CASE Signal(t)
    BY <2>5, CellsSame DEF Signal, Asleep
  <2>6. CASE UnlockAfterSignal(t)
    BY <2>6, CellsSame DEF UnlockAfterSignal, Goto, Release, Resume
  <2> QED BY <1>1, <2>1, <2>2, <2>3, <2>4, <2>5, <2>6 DEF EnqueueStep
<1>2. ASSUME NEW t \in Enqueuers, NEW l \in Levels, Schedule(t, l) PROVE CellInv'
  BY <1>2, CellsSame DEF Schedule, Goto
<1>3. ASSUME NEW w \in Workers, WorkerStep(w) PROVE CellInv'
  <2>1. CASE CheckShutdown(w)
    BY <2>1, CellsSame DEF CheckShutdown, Goto
  <2>2. CASE Scan(w)
    BY <2>2, ScanCells DEF Scan, WorkerPCs
  <2>3. CASE FinishJob(w)
    BY <2>3, CellsSame DEF FinishJob, Goto
  <2>4. CASE LockToIdle(w)
    BY <2>4, CellsSame DEF LockToIdle, Goto, Acquire
  <2>5. CASE RegisterIdle(w)
    BY <2>5, CellsSame DEF RegisterIdle, Goto
  <2>6. CASE Rescan(w)
    BY <2>6, ScanCells DEF Rescan, WorkerPCs
  <2>7. CASE SleepUnlessShutdown(w)
    BY <2>7, CellsSame DEF SleepUnlessShutdown, Goto, Release
  <2>8. CASE WakeUp(w)
    BY <2>8, CellsSame DEF WakeUp, Goto, Acquire
  <2>9. CASE DeregisterIdle(w)
    BY <2>9, CellsSame DEF DeregisterIdle, Goto
  <2>10. CASE UnlockIdle(w)
    BY <2>10, CellsSame DEF UnlockIdle, Goto, Release
  <2> QED BY <1>3, <2>1, <2>2, <2>3, <2>4, <2>5, <2>6, <2>7, <2>8, <2>9, <2>10 DEF WorkerStep
<1>4. ASSUME NEW w \in Workers, SpuriousWake(w) PROVE CellInv'
  BY <1>4, CellsSame DEF SpuriousWake, Goto
<1>5. CASE RaiseShutdown
  BY <1>5, CellsSame DEF RaiseShutdown, Goto
<1>6. CASE DestroyStep
  <2>1. CASE LockToBroadcast
    BY <2>1, CellsSame DEF LockToBroadcast, Goto, Acquire
  <2>2. CASE Broadcast
    BY <2>2, CellsSame DEF Broadcast, Asleep
  <2>3. CASE UnlockAfterBroadcast
    BY <2>3, CellsSame DEF UnlockAfterBroadcast, Goto, Release
  <2>4. CASE Join
    BY <2>4, CellsSame DEF Join, Goto
  <2> QED BY <1>6, <2>1, <2>2, <2>3, <2>4 DEF DestroyStep
<1>7. CASE UNCHANGED vars
  BY <1>7 DEF vars, CellInv
<1> QED
  BY <1>1, <1>2, <1>3, <1>4, <1>5, <1>6, <1>7 DEF Next, Destroyed

-----------------------------------------------------------------------------
(* A scan moves nobody but the scanner.                                    *)
LEMMA ScanOthers ==
  ASSUME TypeOK, NEW w \in Workers, NEW from \in {"scan", "rescan"}, NEW to \in WorkerPCs,
         TakeEntry(w, from, to) \/ NextLevel(w, from, to)
  PROVE  /\ pc[w] = from
         /\ \A u \in Enqueuers \ {w} : pc'[u] = pc[u] /\ level'[u] = level[u]
<1>1. pc' = [pc EXCEPT ![w] = pc'[w]] /\ pc[w] = from
  BY ScanStep DEF WorkerPCs
<1>2. level' = [level EXCEPT ![w] = level'[w]]
  BY DEF TakeEntry, NextLevel, TypeOK, Enqueuers
<1> QED BY <1>1, <1>2 DEF TypeOK, PcOK, Threads

(* While someone is counted idle, an enqueuer stops being in flight only   *)
(* by signalling: it cannot see idle_workers at zero.                      *)
LEMMA InFlightStays ==
  ASSUME TypeOK, IdleCountIsExact, Counted # {}, [Next]_vars, NEW p \in Levels,
         NEW u \in InFlight(p), pc[u] = "signal" => pc'[u] = "signal"
  PROVE  u \in InFlight(p)'
<1> USE ConstantsOK DEF TypeOK, PcOK, Enqueuers, Threads, InFlight
<1>0. idle > 0 BY SomeoneCounted
<1>1. ASSUME NEW t \in Enqueuers, EnqueueStep(t) PROVE u \in InFlight(p)'
  <2>1. CASE ClaimCell(t)
    BY <2>1 DEF ClaimCell, Goto
  <2>2. CASE PublishCell(t)
    BY <2>2 DEF PublishCell, Goto
  <2>3. CASE LoadIdle(t)
    BY <2>3, <1>0 DEF LoadIdle, Goto
  <2>4. CASE LockToSignal(t)
    BY <2>4 DEF LockToSignal, Goto, Acquire
  <2>5. CASE Signal(t)
    BY <2>5 DEF Signal, Asleep
  <2>6. CASE UnlockAfterSignal(t)
    BY <2>6 DEF UnlockAfterSignal, Goto, Release, Resume
  <2> QED BY <1>1, <2>1, <2>2, <2>3, <2>4, <2>5, <2>6 DEF EnqueueStep
<1>2. ASSUME NEW t \in Enqueuers, NEW l \in Levels, Schedule(t, l) PROVE u \in InFlight(p)'
  BY <1>2 DEF Schedule, Goto
<1>3. ASSUME NEW w \in Workers, WorkerStep(w) PROVE u \in InFlight(p)'
  <2>1. CASE CheckShutdown(w)
    BY <2>1 DEF CheckShutdown, Goto
  <2>2. CASE Scan(w)
    BY <2>2, ScanOthers DEF Scan, WorkerPCs
  <2>3. CASE FinishJob(w)
    BY <2>3 DEF FinishJob, Goto
  <2>4. CASE LockToIdle(w)
    BY <2>4 DEF LockToIdle, Goto, Acquire
  <2>5. CASE RegisterIdle(w)
    BY <2>5 DEF RegisterIdle, Goto
  <2>6. CASE Rescan(w)
    BY <2>6, ScanOthers DEF Rescan, WorkerPCs
  <2>7. CASE SleepUnlessShutdown(w)
    BY <2>7 DEF SleepUnlessShutdown, Goto, Release
  <2>8. CASE WakeUp(w)
    BY <2>8 DEF WakeUp, Goto, Acquire
  <2>9. CASE DeregisterIdle(w)
    BY <2>9 DEF DeregisterIdle, Goto
  <2>10. CASE UnlockIdle(w)
    BY <2>10 DEF UnlockIdle, Goto, Release
  <2> QED BY <1>3, <2>1, <2>2, <2>3, <2>4, <2>5, <2>6, <2>7, <2>8, <2>9, <2>10 DEF WorkerStep
<1>4. ASSUME NEW w \in Workers, SpuriousWake(w) PROVE u \in InFlight(p)'
  BY <1>4 DEF SpuriousWake, Goto
<1>5. CASE RaiseShutdown
  BY <1>5 DEF RaiseShutdown, Goto
<1>6. CASE DestroyStep
  <2>1. CASE LockToBroadcast
    BY <2>1 DEF LockToBroadcast, Goto, Acquire
  <2>2. CASE Broadcast
    BY <2>2 DEF Broadcast, Asleep
  <2>3. CASE UnlockAfterBroadcast
    BY <2>3 DEF UnlockAfterBroadcast, Goto, Release
  <2>4. CASE Join
    BY <2>4 DEF Join, Goto
  <2> QED BY <1>6, <2>1, <2>2, <2>3, <2>4 DEF DestroyStep
<1>7. CASE UNCHANGED vars
  BY <1>7 DEF vars
<1> QED
  BY <1>1, <1>2, <1>3, <1>4, <1>5, <1>6, <1>7 DEF Next, Destroyed

(* A scan fills no queue.                                                  *)
LEMMA ScanEmpty ==
  ASSUME TypeOK, NEW w \in Workers, NEW from, NEW to, NEW p \in Levels, queue[p] = <<>>,
         TakeEntry(w, from, to) \/ NextLevel(w, from, to)
  PROVE  queue'[p] = <<>>
<1>1. CASE TakeEntry(w, from, to)
  <2>1. p # level[w] BY <1>1 DEF TakeEntry, CanPop
  <2>2. queue' = [queue EXCEPT ![level[w]] = Tail(queue[level[w]])] BY <1>1 DEF TakeEntry
  <2> QED BY <2>1, <2>2 DEF TypeOK
<1>2. CASE NextLevel(w, from, to)
  BY <1>2 DEF NextLevel
<1> QED BY <1>1, <1>2

(* A queue stops being empty only by the hand of an enqueuer in flight.    *)
LEMMA FirstCell ==
  ASSUME TypeOK, [Next]_vars, NEW p \in Levels, queue[p] = <<>>, queue'[p] # <<>>
  PROVE  InFlight(p)' # {}
<1> USE ConstantsOK DEF TypeOK, PcOK, Enqueuers, Threads, InFlight
<1>1. ASSUME NEW t \in Enqueuers, EnqueueStep(t) PROVE InFlight(p)' # {}
  <2>1. CASE ClaimCell(t)
    BY <2>1 DEF ClaimCell, Goto
  <2>2. CASE PublishCell(t)
    <3>1. queue'[p] = Published(queue[p], t) \/ queue'[p] = queue[p]
      BY <2>2 DEF PublishCell, Published
    <3>2. Published(<<>>, t) = <<>>
      BY DEF Published
    <3> QED BY <3>1, <3>2
  <2>3. CASE LoadIdle(t)
    BY <2>3 DEF LoadIdle, Goto, Resume
  <2>4. CASE LockToSignal(t)
    BY <2>4 DEF LockToSignal, Goto, Acquire
  <2>5. CASE Signal(t)
    BY <2>5 DEF Signal, Asleep
  <2>6. CASE UnlockAfterSignal(t)
    BY <2>6 DEF UnlockAfterSignal, Goto, Release, Resume
  <2> QED BY <1>1, <2>1, <2>2, <2>3, <2>4, <2>5, <2>6 DEF EnqueueStep
<1>2. ASSUME NEW t \in Enqueuers, NEW l \in Levels, Schedule(t, l) PROVE InFlight(p)' # {}
  BY <1>2 DEF Schedule, Goto
<1>3. ASSUME NEW w \in Workers, WorkerStep(w) PROVE InFlight(p)' # {}
  <2>1. CASE CheckShutdown(w)
    BY <2>1 DEF CheckShutdown, Goto
  <2>2. CASE Scan(w)
    BY <2>2, ScanEmpty DEF Scan
  <2>3. CASE FinishJob(w)
    BY <2>3 DEF FinishJob, Goto
  <2>4. CASE LockToIdle(w)
    BY <2>4 DEF LockToIdle, Goto, Acquire
  <2>5. CASE RegisterIdle(w)
    BY <2>5 DEF RegisterIdle, Goto
  <2>6. CASE Rescan(w)
    BY <2>6, ScanEmpty DEF Rescan
  <2>7. CASE SleepUnlessShutdown(w)
    BY <2>7 DEF SleepUnlessShutdown, Goto, Release
  <2>8. CASE WakeUp(w)
    BY <2>8 DEF WakeUp, Goto, Acquire
  <2>9. CASE DeregisterIdle(w)
    BY <2>9 DEF DeregisterIdle, Goto
  <2>10. CASE UnlockIdle(w)
    BY <2>10 DEF UnlockIdle, Goto, Release
  <2> QED BY <1>3, <2>1, <2>2, <2>3, <2>4, <2>5, <2>6, <2>7, <2>8, <2>9, <2>10 DEF WorkerStep
<1>4. ASSUME NEW w \in Workers, SpuriousWake(w) PROVE InFlight(p)' # {}
  BY <1>4 DEF SpuriousWake, Goto
<1>5. CASE RaiseShutdown
  BY <1>5 DEF RaiseShutdown, Goto
<1>6. CASE DestroyStep
  <2>1. CASE LockToBroadcast
    BY <2>1 DEF LockToBroadcast, Goto, Acquire
  <2>2. CASE Broadcast
    BY <2>2 DEF Broadcast, Asleep
  <2>3. CASE UnlockAfterBroadcast
    BY <2>3 DEF UnlockAfterBroadcast, Goto, Release
  <2>4. CASE Join
    BY <2>4 DEF Join, Goto
  <2> QED BY <1>6, <2>1, <2>2, <2>3, <2>4 DEF DestroyStep
<1>7. CASE UNCHANGED vars
  BY <1>7 DEF vars
<1> QED
  BY <1>1, <1>2, <1>3, <1>4, <1>5, <1>6, <1>7 DEF Next, Destroyed

(* While a worker is counted and nobody signals, a queue that is covered   *)
(* or empty is covered after the step if it is not empty.                  *)
LEMMA Coverage ==
  ASSUME TypeOK, IdleCountIsExact, Counted # {}, [Next]_vars, NEW p \in Levels,
         queue[p] # <<>> => InFlight(p) # {},
         \A u \in Enqueuers : pc[u] = "signal" => pc'[u] = "signal",
         queue'[p] # <<>>
  PROVE  InFlight(p)' # {}
<1>1. CASE queue[p] = <<>>
  BY <1>1, FirstCell
<1>2. CASE queue[p] # <<>>
  <2>1. PICK u \in InFlight(p) : TRUE BY <1>2
  <2>2. u \in Enqueuers BY <2>1 DEF InFlight
  <2> QED BY <2>1, <2>2, InFlightStays
<1> QED BY <1>1, <1>2
-----------------------------------------------------------------------------
(* What a registered worker has scanned stays covered.                     *)
RescanPast(w, p) == pc[w] = "check" \/ (pc[w] = "rescan" /\ level[w] < p)

(* A worker gets past queue p only by seeing that it cannot dequeue there. *)
LEMMA NewlyPast ==
  ASSUME TypeOK, [Next]_vars, NEW v \in Workers, NEW p \in Levels,
         RescanPast(v, p)', ~RescanPast(v, p)
  PROVE  Rescan(v) /\ level[v] = p /\ NextLevel(v, "rescan", "check")
<1> USE ConstantsOK DEF TypeOK, PcOK, Enqueuers, Threads, Levels, RescanPast
<1> DEFINE Goal == Rescan(v) /\ level[v] = p /\ NextLevel(v, "rescan", "check")
<1>1. ASSUME NEW t \in Enqueuers, EnqueueStep(t) PROVE Goal
  <2>1. CASE ClaimCell(t)
    BY <2>1 DEF ClaimCell, Goto
  <2>2. CASE PublishCell(t)
    BY <2>2 DEF PublishCell, Goto
  <2>3. CASE LoadIdle(t)
    BY <2>3 DEF LoadIdle, Goto, Resume
  <2>4. CASE LockToSignal(t)
    BY <2>4 DEF LockToSignal, Goto, Acquire
  <2>5. CASE Signal(t)
    BY <2>5 DEF Signal, Asleep
  <2>6. CASE UnlockAfterSignal(t)
    BY <2>6 DEF UnlockAfterSignal, Goto, Release, Resume
  <2> QED BY <1>1, <2>1, <2>2, <2>3, <2>4, <2>5, <2>6 DEF EnqueueStep
<1>2. ASSUME NEW t \in Enqueuers, NEW l \in Levels, Schedule(t, l) PROVE Goal
  BY <1>2 DEF Schedule, Goto
<1>3. ASSUME NEW w \in Workers, WorkerStep(w) PROVE Goal
  <2>1. CASE CheckShutdown(w)
    BY <2>1 DEF CheckShutdown, Goto
  <2>2. CASE Scan(w)
    <3>1. pc'[w] \in {"scan", "idlelock", "run"}
      BY <2>2, ScanStep DEF Scan, WorkerPCs
    <3> QED BY <2>2, <3>1, ScanOthers DEF Scan, WorkerPCs
  <2>3. CASE FinishJob(w)
    BY <2>3 DEF FinishJob, Goto
  <2>4. CASE LockToIdle(w)
    BY <2>4 DEF LockToIdle, Goto, Acquire
  <2>5. CASE RegisterIdle(w)
    BY <2>5 DEF RegisterIdle, Goto
  <2>6. CASE Rescan(w)
    <3>1. CASE v = w
      BY <2>6, <3>1, ScanOthers DEF Rescan, TakeEntry, NextLevel, Goto, WorkerPCs
    <3>2. CASE v # w
      BY <2>6, <3>2, ScanOthers DEF Rescan, WorkerPCs
    <3> QED BY <3>1, <3>2
  <2>7. CASE SleepUnlessShutdown(w)
    BY <2>7 DEF SleepUnlessShutdown, Goto, Release
  <2>8. CASE WakeUp(w)
    BY <2>8 DEF WakeUp, Goto, Acquire
  <2>9. CASE DeregisterIdle(w)
    BY <2>9 DEF DeregisterIdle, Goto
  <2>10. CASE UnlockIdle(w)
    BY <2>10 DEF UnlockIdle, Goto, Release
  <2> QED BY <1>3, <2>1, <2>2, <2>3, <2>4, <2>5, <2>6, <2>7, <2>8, <2>9, <2>10 DEF WorkerStep
<1>4. ASSUME NEW w \in Workers, SpuriousWake(w) PROVE Goal
  BY <1>4 DEF SpuriousWake, Goto
<1>5. CASE RaiseShutdown
  BY <1>5 DEF RaiseShutdown, Goto
<1>6. CASE DestroyStep
  <2>1. CASE LockToBroadcast
    BY <2>1 DEF LockToBroadcast, Goto, Acquire
  <2>2. CASE Broadcast
    BY <2>2 DEF Broadcast, Asleep
  <2>3. CASE UnlockAfterBroadcast
    BY <2>3 DEF UnlockAfterBroadcast, Goto, Release
  <2>4. CASE Join
    BY <2>4 DEF Join, Goto
  <2> QED BY <1>6, <2>1, <2>2, <2>3, <2>4 DEF DestroyStep
<1>7. CASE UNCHANGED vars
  BY <1>7 DEF vars
<1> QED
  BY <1>1, <1>2, <1>3, <1>4, <1>5, <1>6, <1>7 DEF Next, Destroyed

(* Every step keeps RescanInv: an unpublished head is what hid an entry,   *)
(* and its enqueuer has yet to signal.                                     *)
LEMMA RescanStep ==
  ASSUME TypeOK, LockInv, IdleCountIsExact, CellInv, RescanInv, [Next]_vars
  PROVE  RescanInv'
<1> SUFFICES ASSUME NEW w \in Workers, NEW p \in Levels, RescanPast(w, p)', queue'[p] # <<>>
             PROVE  InFlight(p)' # {}
  BY DEF RescanInv, RescanPast
<1>1. CASE RescanPast(w, p)
  <2>1. mutex = w /\ w \in Counted
    BY <1>1 DEF RescanPast, LockInv, Holding, Counted, Threads, Enqueuers
  <2>2. \A u \in Enqueuers : pc[u] # "signal"
    BY <1>1, <2>1 DEF RescanPast, LockInv, Holding, Threads, Enqueuers
  <2>3. queue[p] # <<>> => InFlight(p) # {}
    BY <1>1 DEF RescanInv, RescanPast
  <2> QED BY <2>1, <2>2, <2>3, Coverage
<1>2. CASE ~RescanPast(w, p)
  <2>1. Rescan(w) /\ level[w] = p /\ NextLevel(w, "rescan", "check")
    BY <1>2, NewlyPast
  <2>2. queue[p] # <<>> /\ Head(queue[p]) # Ready
    BY <2>1 DEF NextLevel, CanPop
  <2>3. queue[p] \in Seq(Cells) BY DEF TypeOK, Cells
  <2>4. 1 \in DOMAIN queue[p] /\ queue[p][1] # Ready BY <2>2, <2>3
  <2> DEFINE u == queue[p][1]
  <2>5. u \in Enqueuers /\ pc[u] = "publish" /\ level[u] = p
    BY <2>4 DEF CellInv
  <2>6. u # w /\ pc'[u] = pc[u] /\ level'[u] = level[u]
    BY <2>1, <2>5, ScanOthers DEF WorkerPCs
  <2>7. u \in InFlight(p)' BY <2>5, <2>6 DEF InFlight
  <2> QED BY <2>7
<1> QED BY <1>1, <1>2

-----------------------------------------------------------------------------
(* Falling asleep, and being signalled.                                    *)
LEMMA FallAsleep ==
  ASSUME TypeOK, [Next]_vars, NEW v \in Workers, pc[v] # "asleep", pc'[v] = "asleep"
  PROVE  SleepUnlessShutdown(v) /\ ~shutdown
<1> USE ConstantsOK DEF TypeOK, PcOK, Enqueuers, Threads
<1> DEFINE Goal == SleepUnlessShutdown(v) /\ ~shutdown
<1>1. ASSUME NEW t \in Enqueuers, EnqueueStep(t) PROVE Goal
  <2>1. CASE ClaimCell(t)
    BY <2>1 DEF ClaimCell, Goto
  <2>2. CASE PublishCell(t)
    BY <2>2 DEF PublishCell, Goto
  <2>3. CASE LoadIdle(t)
    BY <2>3 DEF LoadIdle, Goto, Resume
  <2>4. CASE LockToSignal(t)
    BY <2>4 DEF LockToSignal, Goto, Acquire
  <2>5. CASE Signal(t)
    BY <2>5 DEF Signal, Asleep
  <2>6. CASE UnlockAfterSignal(t)
    BY <2>6 DEF UnlockAfterSignal, Goto, Release, Resume
  <2> QED BY <1>1, <2>1, <2>2, <2>3, <2>4, <2>5, <2>6 DEF EnqueueStep
<1>2. ASSUME NEW t \in Enqueuers, NEW l \in Levels, Schedule(t, l) PROVE Goal
  BY <1>2 DEF Schedule, Goto
<1>3. ASSUME NEW w \in Workers, WorkerStep(w) PROVE Goal
  <2>1. CASE CheckShutdown(w)
    BY <2>1 DEF CheckShutdown, Goto
  <2>2. CASE Scan(w)
    BY <2>2, ScanStep DEF Scan, WorkerPCs
  <2>3. CASE FinishJob(w)
    BY <2>3 DEF FinishJob, Goto
  <2>4. CASE LockToIdle(w)
    BY <2>4 DEF LockToIdle, Goto, Acquire
  <2>5. CASE RegisterIdle(w)
    BY <2>5 DEF RegisterIdle, Goto
  <2>6. CASE Rescan(w)
    BY <2>6, ScanStep DEF Rescan, WorkerPCs
  <2>7. CASE SleepUnlessShutdown(w)
    BY <2>7 DEF SleepUnlessShutdown, Goto, Release
  <2>8. CASE WakeUp(w)
    BY <2>8 DEF WakeUp, Goto, Acquire
  <2>9. CASE DeregisterIdle(w)
    BY <2>9 DEF DeregisterIdle, Goto
  <2>10. CASE UnlockIdle(w)
    BY <2>10 DEF UnlockIdle, Goto, Release
  <2> QED BY <1>3, <2>1, <2>2, <2>3, <2>4, <2>5, <2>6, <2>7, <2>8, <2>9, <2>10 DEF WorkerStep
<1>4. ASSUME NEW w \in Workers, SpuriousWake(w) PROVE Goal
  BY <1>4 DEF SpuriousWake, Goto
<1>5. CASE RaiseShutdown
  BY <1>5 DEF RaiseShutdown, Goto
<1>6. CASE DestroyStep
  <2>1. CASE LockToBroadcast
    BY <2>1 DEF LockToBroadcast, Goto, Acquire
  <2>2. CASE Broadcast
    BY <2>2 DEF Broadcast, Asleep
  <2>3. CASE UnlockAfterBroadcast
    BY <2>3 DEF UnlockAfterBroadcast, Goto, Release
  <2>4. CASE Join
    BY <2>4 DEF Join, Goto
  <2> QED BY <1>6, <2>1, <2>2, <2>3, <2>4 DEF DestroyStep
<1>7. CASE UNCHANGED vars
  BY <1>7 DEF vars
<1> QED
  BY <1>1, <1>2, <1>3, <1>4, <1>5, <1>6, <1>7 DEF Next, Destroyed

(* A signal sent while all workers sleep does not leave them all asleep.   *)
LEMMA SignalWakes ==
  ASSUME TypeOK, [Next]_vars, Asleep = Workers, Asleep' = Workers,
         NEW u \in Enqueuers, pc[u] = "signal"
  PROVE  pc'[u] = "signal"
<1> USE ConstantsOK DEF TypeOK, PcOK, Enqueuers, Threads, Asleep
<1> DEFINE Goal == pc'[u] = "signal"
<1>1. ASSUME NEW t \in Enqueuers, EnqueueStep(t) PROVE Goal
  <2>1. CASE ClaimCell(t)
    BY <2>1 DEF ClaimCell, Goto
  <2>2. CASE PublishCell(t)
    BY <2>2 DEF PublishCell, Goto
  <2>3. CASE LoadIdle(t)
    BY <2>3 DEF LoadIdle, Goto, Resume
  <2>4. CASE LockToSignal(t)
    BY <2>4 DEF LockToSignal, Goto, Acquire
  <2>5. CASE Signal(t)
    BY <2>5 DEF Signal, Asleep
  <2>6. CASE UnlockAfterSignal(t)
    BY <2>6 DEF UnlockAfterSignal, Goto, Release, Resume
  <2> QED BY <1>1, <2>1, <2>2, <2>3, <2>4, <2>5, <2>6 DEF EnqueueStep
<1>2. ASSUME NEW t \in Enqueuers, NEW l \in Levels, Schedule(t, l) PROVE Goal
  BY <1>2 DEF Schedule, Goto
<1>3. ASSUME NEW w \in Workers, WorkerStep(w) PROVE Goal
  <2>1. CASE CheckShutdown(w)
    BY <2>1 DEF CheckShutdown, Goto
  <2>2. CASE Scan(w)
    BY <2>2, ScanOthers DEF Scan, WorkerPCs
  <2>3. CASE FinishJob(w)
    BY <2>3 DEF FinishJob, Goto
  <2>4. CASE LockToIdle(w)
    BY <2>4 DEF LockToIdle, Goto, Acquire
  <2>5. CASE RegisterIdle(w)
    BY <2>5 DEF RegisterIdle, Goto
  <2>6. CASE Rescan(w)
    BY <2>6, ScanOthers DEF Rescan, WorkerPCs
  <2>7. CASE SleepUnlessShutdown(w)
    BY <2>7 DEF SleepUnlessShutdown, Goto, Release
  <2>8. CASE WakeUp(w)
    BY <2>8 DEF WakeUp, Goto, Acquire
  <2>9. CASE DeregisterIdle(w)
    BY <2>9 DEF DeregisterIdle, Goto
  <2>10. CASE UnlockIdle(w)
    BY <2>10 DEF UnlockIdle, Goto, Release
  <2> QED BY <1>3, <2>1, <2>2, <2>3, <2>4, <2>5, <2>6, <2>7, <2>8, <2>9, <2>10 DEF WorkerStep
<1>4. ASSUME NEW w \in Workers, SpuriousWake(w) PROVE Goal
  BY <1>4 DEF SpuriousWake, Goto
<1>5. CASE RaiseShutdown
  BY <1>5 DEF RaiseShutdown, Goto
<1>6. CASE DestroyStep
  <2>1. CASE LockToBroadcast
    BY <2>1 DEF LockToBroadcast, Goto, Acquire
  <2>2. CASE Broadcast
    BY <2>2 DEF Broadcast, Asleep
  <2>3. CASE UnlockAfterBroadcast
    BY <2>3 DEF UnlockAfterBroadcast, Goto, Release
  <2>4. CASE Join
    BY <2>4 DEF Join, Goto
  <2> QED BY <1>6, <2>1, <2>2, <2>3, <2>4 DEF DestroyStep
<1>7. CASE UNCHANGED vars
  BY <1>7 DEF vars
<1> QED
  BY <1>1, <1>2, <1>3, <1>4, <1>5, <1>6, <1>7 DEF Next, Destroyed

(* Every step keeps NoLostWakeup.                                          *)
LEMMA WakeStep ==
  ASSUME TypeOK, LockInv, IdleCountIsExact, CellInv, RescanInv, NoLostWakeup, [Next]_vars
  PROVE  NoLostWakeup'
<1> SUFFICES ASSUME Asleep' = Workers, NEW p \in Levels, queue'[p] # <<>>
             PROVE  InFlight(p)' # {}
  BY DEF NoLostWakeup
<1>1. CASE Asleep = Workers
  <2>1. Counted # {} BY <1>1, ConstantsOK DEF Counted, Asleep
  <2>2. \A u \in Enqueuers : pc[u] = "signal" => pc'[u] = "signal"
    BY <1>1, SignalWakes
  <2> QED BY <1>1, <2>1, <2>2, Coverage DEF NoLostWakeup
<1>2. CASE Asleep # Workers
  <2>1. PICK v \in Workers : pc[v] # "asleep" /\ pc'[v] = "asleep"
    BY <1>2 DEF Asleep
  <2>2. SleepUnlessShutdown(v) /\ ~shutdown BY <2>1, FallAsleep
  <2>3. pc[v] = "check" /\ queue' = queue /\ level' = level
        /\ pc' = [pc EXCEPT ![v] = "asleep"]
    BY <2>2 DEF SleepUnlessShutdown, Goto
  <2>4. PICK u \in InFlight(p) : TRUE BY <2>3 DEF RescanInv
  <2>5. u \in Enqueuers /\ u # v /\ pc'[u] = pc[u]
    BY <2>3, <2>4 DEF InFlight, TypeOK, PcOK, Threads
  <2> QED BY <2>3, <2>4, <2>5 DEF InFlight
<1> QED BY <1>1, <1>2

(* The flag is up exactly from the first step of fl_jobs_destroy.          *)
LEMMA ShutdownStep == ASSUME TypeOK, ShutdownInv, [Next]_vars PROVE ShutdownInv'
<1> USE ConstantsOK DEF TypeOK, PcOK, Enqueuers, Threads, ShutdownInv
<1> DEFINE Goal == ShutdownInv'
<1>1. ASSUME NEW t \in Enqueuers, EnqueueStep(t) PROVE Goal
  <2>1. CASE ClaimCell(t)
    BY <2>1 DEF ClaimCell, Goto
  <2>2. CASE PublishCell(t)
    BY <2>2 DEF PublishCell, Goto
  <2>3. CASE LoadIdle(t)
    BY <2>3 DEF LoadIdle, Goto, Resume
  <2>4. CASE LockToSignal(t)
    BY <2>4 DEF LockToSignal, Goto, Acquire
  <2>5. CASE Signal(t)
    BY <2>5 DEF Signal, Asleep
  <2>6. CASE UnlockAfterSignal(t)
    BY <2>6 DEF UnlockAfterSignal, Goto, Release, Resume
  <2> QED BY <1>1, <2>1, <2>2, <2>3, <2>4, <2>5, <2>6 DEF EnqueueStep
<1>2. ASSUME NEW t \in Enqueuers, NEW l \in Levels, Schedule(t, l) PROVE Goal
  BY <1>2 DEF Schedule, Goto
<1>3. ASSUME NEW w \in Workers, WorkerStep(w) PROVE Goal
  <2>1. CASE CheckShutdown(w)
    BY <2>1 DEF CheckShutdown, Goto
  <2>2. CASE Scan(w)
    BY <2>2, ScanStep DEF Scan, WorkerPCs
  <2>3. CASE FinishJob(w)
    BY <2>3 DEF FinishJob, Goto
  <2>4. CASE LockToIdle(w)
    BY <2>4 DEF LockToIdle, Goto, Acquire
  <2>5. CASE RegisterIdle(w)
    BY <2>5 DEF RegisterIdle, Goto
  <2>6. CASE Rescan(w)
    BY <2>6, ScanStep DEF Rescan, WorkerPCs
  <2>7. CASE SleepUnlessShutdown(w)
    BY <2>7 DEF SleepUnlessShutdown, Goto, Release
  <2>8. CASE WakeUp(w)
    BY <2>8 DEF WakeUp, Goto, Acquire
  <2>9. CASE DeregisterIdle(w)
    BY <2>9 DEF DeregisterIdle, Goto
  <2>10. CASE UnlockIdle(w)
    BY <2>10 DEF UnlockIdle, Goto, Release
  <2> QED BY <1>3, <2>1, <2>2, <2>3, <2>4, <2>5, <2>6, <2>7, <2>8, <2>9, <2>10 DEF WorkerStep
<1>4. ASSUME NEW w \in Workers, SpuriousWake(w) PROVE Goal
  BY <1>4 DEF SpuriousWake, Goto
<1>5. CASE RaiseShutdown
  BY <1>5 DEF RaiseShutdown, Goto
<1>6. CASE DestroyStep
  <2>1. CASE LockToBroadcast
    BY <2>1 DEF LockToBroadcast, Goto, Acquire
  <2>2. CASE Broadcast
    BY <2>2 DEF Broadcast, Asleep
  <2>3. CASE UnlockAfterBroadcast
    BY <2>3 DEF UnlockAfterBroadcast, Goto, Release
  <2>4. CASE Join
    BY <2>4 DEF Join, Goto
  <2> QED BY <1>6, <2>1, <2>2, <2>3, <2>4 DEF DestroyStep
<1>7. CASE UNCHANGED vars
  BY <1>7 DEF vars
<1> QED
  BY <1>1, <1>2, <1>3, <1>4, <1>5, <1>6, <1>7 DEF Next, Destroyed

(* The only way past the broadcast is the broadcast.                       *)
LEMMA MainStep ==
  ASSUME TypeOK, [Next]_vars, pc[Main] \notin {"unlock", "join", "destroyed"},
         pc'[Main] \in {"unlock", "join", "destroyed"}
  PROVE  Broadcast
<1> USE ConstantsOK DEF TypeOK, PcOK, Enqueuers, Threads
<1> DEFINE Goal == Broadcast
<1>1. ASSUME NEW t \in Enqueuers, EnqueueStep(t) PROVE Goal
  <2>1. CASE ClaimCell(t)
    BY <2>1 DEF ClaimCell, Goto
  <2>2. CASE PublishCell(t)
    BY <2>2 DEF PublishCell, Goto
  <2>3. CASE LoadIdle(t)
    BY <2>3 DEF LoadIdle, Goto, Resume
  <2>4. CASE LockToSignal(t)
    BY <2>4 DEF LockToSignal, Goto, Acquire
  <2>5. CASE Signal(t)
    BY <2>5 DEF Signal, Asleep
  <2>6. CASE UnlockAfterSignal(t)
    BY <2>6 DEF UnlockAfterSignal, Goto, Release, Resume
  <2> QED BY <1>1, <2>1, <2>2, <2>3, <2>4, <2>5, <2>6 DEF EnqueueStep
<1>2. ASSUME NEW t \in Enqueuers, NEW l \in Levels, Schedule(t, l) PROVE Goal
  BY <1>2 DEF Schedule, Goto
<1>3. ASSUME NEW w \in Workers, WorkerStep(w) PROVE Goal
  <2>1. CASE CheckShutdown(w)
    BY <2>1 DEF CheckShutdown, Goto
  <2>2. CASE Scan(w)
    BY <2>2, ScanStep DEF Scan, WorkerPCs
  <2>3. CASE FinishJob(w)
    BY <2>3 DEF FinishJob, Goto
  <2>4. CASE LockToIdle(w)
    BY <2>4 DEF LockToIdle, Goto, Acquire
  <2>5. CASE RegisterIdle(w)
    BY <2>5 DEF RegisterIdle, Goto
  <2>6. CASE Rescan(w)
    BY <2>6, ScanStep DEF Rescan, WorkerPCs
  <2>7. CASE SleepUnlessShutdown(w)
    BY <2>7 DEF SleepUnlessShutdown, Goto, Release
  <2>8. CASE WakeUp(w)
    BY <2>8 DEF WakeUp, Goto, Acquire
  <2>9. CASE DeregisterIdle(w)
    BY <2>9 DEF DeregisterIdle, Goto
  <2>10. CASE UnlockIdle(w)
    BY <2>10 DEF UnlockIdle, Goto, Release
  <2> QED BY <1>3, <2>1, <2>2, <2>3, <2>4, <2>5, <2>6, <2>7, <2>8, <2>9, <2>10 DEF WorkerStep
<1>4. ASSUME NEW w \in Workers, SpuriousWake(w) PROVE Goal
  BY <1>4 DEF SpuriousWake, Goto
<1>5. CASE RaiseShutdown
  BY <1>5 DEF RaiseShutdown, Goto
<1>6. CASE DestroyStep
  <2>1. CASE LockToBroadcast
    BY <2>1 DEF LockToBroadcast, Goto, Acquire
  <2>2. CASE Broadcast
    BY <2>2 DEF Broadcast, Asleep
  <2>3. CASE UnlockAfterBroadcast
    BY <2>3 DEF UnlockAfterBroadcast, Goto, Release
  <2>4. CASE Join
    BY <2>4 DEF Join, Goto
  <2> QED BY <1>6, <2>1, <2>2, <2>3, <2>4 DEF DestroyStep
<1>7. CASE UNCHANGED vars
  BY <1>7 DEF vars
<1> QED
  BY <1>1, <1>2, <1>3, <1>4, <1>5, <1>6, <1>7 DEF Next, Destroyed

(* Every step keeps NoSleeperAfterBroadcast: nobody falls asleep once the flag is up. *)
LEMMA BroadcastStep ==
  ASSUME TypeOK, ShutdownInv, NoSleeperAfterBroadcast, [Next]_vars
  PROVE  NoSleeperAfterBroadcast'
<1> SUFFICES ASSUME pc'[Main] \in {"unlock", "join", "destroyed"} PROVE Asleep' = {}
  BY DEF NoSleeperAfterBroadcast
<1>1. CASE pc[Main] \in {"unlock", "join", "destroyed"}
  <2>1. Asleep = {} /\ shutdown
    BY <1>1 DEF NoSleeperAfterBroadcast, ShutdownInv
  <2>2. \A v \in Workers : pc'[v] # "asleep"
    BY <2>1, FallAsleep DEF Asleep
  <2> QED BY <2>2 DEF Asleep
<1>2. CASE pc[Main] \notin {"unlock", "join", "destroyed"}
  <2>1. Broadcast BY <1>2, MainStep
  <2> QED BY <2>1, ConstantsOK DEF Broadcast, Asleep, Threads, Enqueuers
<1> QED BY <1>1, <1>2

-----------------------------------------------------------------------------
(* The inductive invariant holds initially,                                *)
LEMMA InvInit == Init => IInv
<1> SUFFICES ASSUME Init PROVE IInv OBVIOUS
<1> USE ConstantsOK DEF Init, Enqueuers, Threads
<1>1. TypeOK BY TypeInit
<1>2. \A w \in Workers : pc[w] = "top" OBVIOUS
<1>3. Counted = {} /\ Asleep = {} BY <1>2 DEF Counted, Asleep
<1>4. IdleCountIsExact BY <1>3, FS_EmptySet DEF IdleCountIsExact
<1>5. LockInv BY DEF LockInv, Holding, NoOwner
<1>6. CellInv BY DEF CellInv
<1>7. RescanInv BY <1>2 DEF RescanInv
<1>8. NoLostWakeup BY DEF NoLostWakeup
<1>9. ShutdownInv /\ NoSleeperAfterBroadcast BY DEF ShutdownInv, NoSleeperAfterBroadcast
<1> QED BY <1>1, <1>4, <1>5, <1>6, <1>7, <1>8, <1>9 DEF IInv

(* ... and is preserved.                                                   *)
LEMMA InvStep == IInv /\ [Next]_vars => IInv'
BY TypeStep, LockStep, CountStep, CellStep, RescanStep, WakeStep, ShutdownStep, BroadcastStep
   DEF IInv

(* The inductive invariant holds of every behaviour.                       *)
THEOREM Invariant == SafeSpec => []IInv
BY InvInit, InvStep, PTL DEF SafeSpec

(* idle_workers is exact, whatever the number of workers.                  *)
THEOREM IdleCountCorrect == SafeSpec => []IdleCountIsExact
<1>1. IInv => IdleCountIsExact BY DEF IInv
<1> QED BY <1>1, Invariant, PTL

(* No wake-up is lost: the pool never sleeps on a non-empty queue unless   *)
(* an enqueuer is still on its way to wake it.                             *)
THEOREM WakeupsAreNotLost == SafeSpec => []NoLostWakeup
<1>1. IInv => NoLostWakeup BY DEF IInv
<1> QED BY <1>1, Invariant, PTL

(* fl_jobs_destroy's broadcast leaves no worker asleep, for ever.          *)
THEOREM BroadcastReachesAll == SafeSpec => []NoSleeperAfterBroadcast
<1>1. IInv => NoSleeperAfterBroadcast BY DEF IInv
<1> QED BY <1>1, Invariant, PTL
=============================================================================
