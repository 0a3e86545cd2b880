----------------------------- MODULE WorkerIdle -----------------------------
(***************************************************************************)
(* How idle workers of src/core/jobsys.c go to sleep, are woken by those   *)
(* who enqueue jobs, and are stopped by fl_jobs_destroy.  The queues are   *)
(* lock-free and the wake-up is skipped when nobody is idle, so the module *)
(* keeps every access to idle_workers, idle_mutex, shutdown and the queues *)
(* a step of its own.  A queue cell is claimed before it is published      *)
(* (mcmpq.h), and until then hides the cells behind it.                    *)
(*                                                                         *)
(* Which job an entry stands for, and whether it is stale, is JobSystem's. *)
(***************************************************************************)
EXTENDS Integers, Sequences, FiniteSets

CONSTANTS
  Workers,      (* the worker threads that were created                     *)
  Producers,    (* other threads that add jobs                              *)
  Main,         (* the thread that calls fl_jobs_destroy                    *)
  Ready,        (* content of a published cell                              *)
  High,         (* JOB_PRIORITY_COUNT - 1                                   *)
  Capacity,     (* SLOTS of one queue                                       *)
  MaxEntries,   (* bound: entries enqueued in a behaviour                   *)
  MaxSpurious   (* bound: spurious wake-ups of the condition variable       *)

Enqueuers == Workers \union Producers   \* a worker enqueues promoted jobs
Threads   == Enqueuers \union {Main}
Levels    == 0..High

ASSUME ConstantsOK ==
  /\ IsFiniteSet(Workers) /\ Workers # {}
  /\ Workers \intersect Producers = {}
  /\ Main \notin Enqueuers /\ Ready \notin Threads
  /\ High \in Nat /\ Capacity \in Nat \ {0}
  /\ MaxEntries \in Nat /\ MaxSpurious \in Nat

NoOwner == Ready        \* any value that is no thread

VARIABLES
  pc,        (* where each thread is                                        *)
  level,     (* queue an enqueuer scans, or enqueues to                     *)
  queue,     (* cells: Ready, or the thread that has still to publish it    *)
  idle,      (* idle_workers                                                *)
  mutex,     (* owner of idle_mutex                                         *)
  shutdown,
  entries, spurious     (* counters of the bounds                           *)

vars == <<pc, level, queue, idle, mutex, shutdown, entries, spurious>>

Init ==
  /\ pc = [t \in Threads |-> IF t \in Workers THEN "top" ELSE "out"]
  /\ level = [t \in Enqueuers |-> High]
  /\ queue = [p \in Levels |-> <<>>]
  /\ idle = 0 /\ mutex = NoOwner /\ shutdown = FALSE
  /\ entries = 0 /\ spurious = 0

Goto(t, from, to) == pc[t] = from /\ pc' = [pc EXCEPT ![t] = to]
Acquire(t) == mutex = NoOwner /\ mutex' = t
Release(t) == mutex' = NoOwner

-----------------------------------------------------------------------------
(* schedule_job_with_priority: the enqueue, and the wake-up after it.      *)

(* Producers call from outside, until shutdown; a worker from a job body   *)
(* or while promoting.  A worker that finds the queue full runs the job    *)
(* itself, so only producers ever wait for room.                           *)
Schedule(t, p) ==
  /\ \/ t \in Producers /\ ~shutdown /\ Goto(t, "out", "claim")
     \/ t \in Workers /\ Len(queue[p]) < Capacity /\ Goto(t, "run", "claim")
  /\ entries < MaxEntries /\ entries' = entries + 1
  /\ level' = [level EXCEPT ![t] = p]
  /\ UNCHANGED <<queue, idle, mutex, shutdown, spurious>>

(* The queue may fill between a worker's look and its CAS: then as above.  *)
ClaimCell(t) ==
  LET p == level[t]
  IN  /\ \/ /\ Len(queue[p]) < Capacity
            /\ Goto(t, "claim", "publish")
            /\ queue' = [queue EXCEPT ![p] = Append(@, t)]
         \/ /\ Len(queue[p]) >= Capacity /\ t \in Workers
            /\ Goto(t, "claim", "run")
            /\ UNCHANGED queue
      /\ UNCHANGED <<level, idle, mutex, shutdown, entries, spurious>>

PublishCell(t) ==
  /\ Goto(t, "publish", "loadidle")
  /\ queue' = [queue EXCEPT ![level[t]] =
                 [i \in DOMAIN @ |-> IF @[i] = t THEN Ready ELSE @[i]]]
  /\ UNCHANGED <<level, idle, mutex, shutdown, entries, spurious>>

Resume(t) == IF t \in Workers THEN "run" ELSE "out"

LoadIdle(t) ==
  /\ Goto(t, "loadidle", IF idle > 0 THEN "siglock" ELSE Resume(t))
  /\ UNCHANGED <<level, queue, idle, mutex, shutdown, entries, spurious>>

LockToSignal(t) ==
  /\ Acquire(t) /\ Goto(t, "siglock", "signal")
  /\ UNCHANGED <<level, queue, idle, shutdown, entries, spurious>>

Asleep == {w \in Workers : pc[w] = "asleep"}

Signal(t) ==
  /\ pc[t] = "signal"
  /\ \/ Asleep = {} /\ pc' = [pc EXCEPT ![t] = "sigunlock"]
     \/ \E w \in Asleep : pc' = [pc EXCEPT ![t] = "sigunlock", ![w] = "woken"]
  /\ UNCHANGED <<level, queue, idle, mutex, shutdown, entries, spurious>>

UnlockAfterSignal(t) ==
  /\ Release(t) /\ Goto(t, "sigunlock", Resume(t))
  /\ UNCHANGED <<level, queue, idle, shutdown, entries, spurious>>

-----------------------------------------------------------------------------
(* worker_thread.                                                          *)

CheckShutdown(w) ==
  /\ Goto(w, "top", IF shutdown THEN "exited" ELSE "scan")
  /\ level' = [level EXCEPT ![w] = High]
  /\ UNCHANGED <<queue, idle, mutex, shutdown, entries, spurious>>

(* try_dequeue_prioritized: the head entry is taken, or dropped as stale   *)
(* or already claimed; an unpublished head counts as an empty queue.       *)
CanPop(p) == queue[p] # <<>> /\ Head(queue[p]) = Ready

TakeEntry(w, from, to) ==
  /\ CanPop(level[w])
  /\ Goto(w, from, to) \/ Goto(w, from, from)
  /\ queue' = [queue EXCEPT ![level[w]] = Tail(@)]
  /\ UNCHANGED level

NextLevel(w, from, to) ==
  /\ ~CanPop(level[w])
  /\ \/ /\ level[w] > 0
        /\ Goto(w, from, from)
        /\ level' = [level EXCEPT ![w] = @ - 1]
     \/ /\ level[w] = 0
        /\ Goto(w, from, to)
        /\ UNCHANGED level
  /\ UNCHANGED queue

Scan(w) ==
  /\ TakeEntry(w, "scan", "run") \/ NextLevel(w, "scan", "idlelock")
  /\ UNCHANGED <<idle, mutex, shutdown, entries, spurious>>

FinishJob(w) ==
  /\ Goto(w, "run", "top")
  /\ UNCHANGED <<level, queue, idle, mutex, shutdown, entries, spurious>>

-----------------------------------------------------------------------------
(* wait_for_work.                                                          *)

LockToIdle(w) ==
  /\ Acquire(w) /\ Goto(w, "idlelock", "register")
  /\ UNCHANGED <<level, queue, idle, shutdown, entries, spurious>>

(* Mutant: the queues are not scanned again after registering.             *)
RegisterWithoutRescan(w) ==
  /\ Goto(w, "register", "check")
  /\ idle' = idle + 1
  /\ level' = [level EXCEPT ![w] = High]
  /\ UNCHANGED <<queue, mutex, shutdown, entries, spurious>>

RegisterIdle(w) ==
  /\ Goto(w, "register", "rescan")
  /\ idle' = idle + 1
  /\ level' = [level EXCEPT ![w] = High]
  /\ UNCHANGED <<queue, mutex, shutdown, entries, spurious>>

Rescan(w) ==
  /\ TakeEntry(w, "rescan", "gotwork") \/ NextLevel(w, "rescan", "check")
  /\ UNCHANGED <<idle, mutex, shutdown, entries, spurious>>

(* Mutant: the shutdown flag is not read again before sleeping.            *)
SleepAlways(w) ==
  /\ Goto(w, "check", "asleep") /\ Release(w)
  /\ UNCHANGED <<level, queue, idle, shutdown, entries, spurious>>

(* The shutdown flag is read under the mutex; condvar_wait releases it and *)
(* sleeps in one step.                                                     *)
SleepUnlessShutdown(w) ==
  /\ IF shutdown THEN Goto(w, "check", "deregister") /\ UNCHANGED mutex
                 ELSE Goto(w, "check", "asleep") /\ Release(w)
  /\ UNCHANGED <<level, queue, idle, shutdown, entries, spurious>>

SpuriousWake(w) ==
  /\ spurious < MaxSpurious /\ spurious' = spurious + 1
  /\ Goto(w, "asleep", "woken")
  /\ UNCHANGED <<level, queue, idle, mutex, shutdown, entries>>

WakeUp(w) ==
  /\ Acquire(w) /\ Goto(w, "woken", "deregister")
  /\ UNCHANGED <<level, queue, idle, shutdown, entries, spurious>>

(* Mutant: the worker that found a job while rescanning stays counted.     *)
DeregisterSleeperOnly(w) ==
  /\ \/ Goto(w, "deregister", "unlocktop") /\ idle' = idle - 1
     \/ Goto(w, "gotwork", "unlockrun") /\ UNCHANGED idle
  /\ UNCHANGED <<level, queue, mutex, shutdown, entries, spurious>>

DeregisterIdle(w) ==
  /\ Goto(w, "deregister", "unlocktop") \/ Goto(w, "gotwork", "unlockrun")
  /\ idle' = idle - 1
  /\ UNCHANGED <<level, queue, mutex, shutdown, entries, spurious>>

UnlockIdle(w) ==
  /\ Goto(w, "unlocktop", "top") \/ Goto(w, "unlockrun", "run")
  /\ Release(w)
  /\ UNCHANGED <<level, queue, idle, shutdown, entries, spurious>>

-----------------------------------------------------------------------------
(* fl_jobs_destroy.  Its caller lets no other thread add jobs from then on.*)

RaiseShutdown ==
  /\ \A t \in Producers : pc[t] = "out"
  /\ Goto(Main, "out", "lock")
  /\ shutdown' = TRUE
  /\ UNCHANGED <<level, queue, idle, mutex, entries, spurious>>

LockToBroadcast ==
  /\ Acquire(Main) /\ Goto(Main, "lock", "broadcast")
  /\ UNCHANGED <<level, queue, idle, shutdown, entries, spurious>>

(* Mutant: one sleeper is woken instead of all.                            *)
BroadcastToOne ==
  /\ pc[Main] = "broadcast"
  /\ \/ Asleep = {} /\ pc' = [pc EXCEPT ![Main] = "unlock"]
     \/ \E w \in Asleep : pc' = [pc EXCEPT ![Main] = "unlock", ![w] = "woken"]
  /\ UNCHANGED <<level, queue, idle, mutex, shutdown, entries, spurious>>

Broadcast ==
  /\ pc[Main] = "broadcast"
  /\ pc' = [t \in Threads |-> IF t = Main THEN "unlock"
                              ELSE IF t \in Asleep THEN "woken" ELSE pc[t]]
  /\ UNCHANGED <<level, queue, idle, mutex, shutdown, entries, spurious>>

UnlockAfterBroadcast ==
  /\ Release(Main) /\ Goto(Main, "unlock", "join")
  /\ UNCHANGED <<level, queue, idle, shutdown, entries, spurious>>

Join ==
  /\ \A w \in Workers : pc[w] = "exited"
  /\ Goto(Main, "join", "destroyed")
  /\ UNCHANGED <<level, queue, idle, mutex, shutdown, entries, spurious>>

Destroyed == pc[Main] = "destroyed" /\ UNCHANGED vars

-----------------------------------------------------------------------------
EnqueueStep(t) == \/ ClaimCell(t) \/ PublishCell(t) \/ LoadIdle(t)
                  \/ LockToSignal(t) \/ Signal(t) \/ UnlockAfterSignal(t)
WorkerStep(w) == \/ CheckShutdown(w) \/ Scan(w) \/ FinishJob(w)
                 \/ LockToIdle(w) \/ RegisterIdle(w) \/ Rescan(w)
                 \/ SleepUnlessShutdown(w) \/ WakeUp(w)
                 \/ DeregisterIdle(w) \/ UnlockIdle(w)
DestroyStep == LockToBroadcast \/ Broadcast \/ UnlockAfterBroadcast \/ Join

Next == \/ \E t \in Enqueuers : EnqueueStep(t) \/ \E p \in Levels : Schedule(t, p)
        \/ \E w \in Workers : WorkerStep(w) \/ SpuriousWake(w)
        \/ RaiseShutdown \/ DestroyStep \/ Destroyed

(* Runnable threads run and job functions return; nobody has to add a job  *)
(* or to call fl_jobs_destroy.                                             *)
Fairness == /\ \A t \in Enqueuers : WF_vars(EnqueueStep(t))
            /\ \A w \in Workers : WF_vars(WorkerStep(w))
            /\ WF_vars(DestroyStep)

SafeSpec == Init /\ [][Next]_vars
Spec == SafeSpec /\ Fairness

-----------------------------------------------------------------------------
(* Properties.                                                             *)

PCs == {"top", "scan", "run", "idlelock", "register", "rescan", "gotwork", "check",
        "asleep", "woken", "deregister", "unlocktop", "unlockrun", "exited",
        "out", "claim", "publish", "loadidle", "siglock", "signal", "sigunlock",
        "lock", "broadcast", "unlock", "join", "destroyed"}
WorkerPCs   == {"top", "scan", "run", "idlelock", "register", "rescan", "gotwork",
                "check", "asleep", "woken", "deregister", "unlocktop", "unlockrun",
                "exited", "claim", "publish", "loadidle", "siglock", "signal", "sigunlock"}
ProducerPCs == {"out", "claim", "publish", "loadidle", "siglock", "signal", "sigunlock"}
MainPCs     == {"out", "lock", "broadcast", "unlock", "join", "destroyed"}

PcOK ==
  /\ pc \in [Threads -> PCs]
  /\ \A w \in Workers : pc[w] \in WorkerPCs
  /\ \A t \in Producers : pc[t] \in ProducerPCs
  /\ pc[Main] \in MainPCs

(* Every variable ranges over what its C type and the bounds allow.        *)
TypeOK ==
  /\ PcOK
  /\ level \in [Enqueuers -> Levels]
  /\ queue \in [Levels -> Seq(Threads \union {Ready})]
  /\ idle \in Int
  /\ mutex \in Threads \union {NoOwner}
  /\ shutdown \in BOOLEAN
  /\ entries \in 0..MaxEntries /\ spurious \in 0..MaxSpurious

Holding == {"register", "rescan", "gotwork", "check", "deregister", "unlocktop",
            "unlockrun", "signal", "sigunlock", "broadcast", "unlock"}
Counted == {w \in Workers : pc[w] \in {"rescan", "gotwork", "check", "asleep",
                                       "woken", "deregister"}}

(* idle_workers counts exactly the workers inside wait_for_work between    *)
(* their increment and their decrement, on every path out of it; so it     *)
(* never wraps below zero and never hides a sleeper from schedule_job.     *)
IdleCountIsExact == idle = Cardinality(Counted)

(* An enqueuer that has claimed a cell of queue p and not yet signalled.   *)
InFlight(p) == {t \in Enqueuers : /\ level[t] = p
                                  /\ pc[t] \in {"publish", "loadidle", "siglock", "signal"}}

(* No lost wake-up: when all workers sleep on the condition variable, each *)
(* queue that is not empty has an enqueuer who has yet to signal.          *)
NoLostWakeup ==
  Asleep = Workers => \A p \in Levels : queue[p] # <<>> => InFlight(p) # {}

(* After fl_jobs_destroy's broadcast nobody is left asleep, whatever the   *)
(* workers were doing when the shutdown flag went up.                      *)
NoSleeperAfterBroadcast == pc[Main] \in {"unlock", "join", "destroyed"} => Asleep = {}

(* An entry in a queue is taken by some worker, unless the pool is being   *)
(* shut down.                                                              *)
EntriesAreTaken == \A p \in Levels : queue[p] # <<>> ~> queue[p] = <<>> \/ shutdown

(* fl_jobs_destroy joins all workers and returns.                          *)
DestroyReturns == shutdown ~> pc[Main] = "destroyed"

-----------------------------------------------------------------------------
(* The inductive invariant behind them (WorkerIdle_proofs).                *)

(* idle_mutex is owned by exactly the thread that is between lock and unlock. *)
LockInv == \A t \in Threads : mutex = t <=> pc[t] \in Holding

(* An unpublished cell belongs to an enqueuer who is about to publish it.  *)
CellInv == \A p \in Levels : \A i \in DOMAIN queue[p] : queue[p][i] # Ready =>
             /\ queue[p][i] \in Enqueuers
             /\ pc[queue[p][i]] = "publish" /\ level[queue[p][i]] = p

(* What a worker registered as idle has scanned stays empty but for entries *)
(* whose enqueuer will find it counted: nobody signals while it holds the   *)
(* mutex, so none of those wake-ups is spent before it sleeps.              *)
RescanInv == \A w \in Workers, p \in Levels :
               /\ pc[w] = "check" \/ (pc[w] = "rescan" /\ level[w] < p)
               /\ queue[p] # <<>>
               => InFlight(p) # {}

ShutdownInv == shutdown <=> pc[Main] # "out"

IInv == TypeOK /\ LockInv /\ IdleCountIsExact /\ CellInv /\ RescanInv
        /\ NoLostWakeup /\ ShutdownInv /\ NoSleeperAfterBroadcast
=============================================================================
