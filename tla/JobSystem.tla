------------------------------ MODULE JobSystem ------------------------------
(***************************************************************************)
(* The job system of src/core/jobsys.c, one action per access to shared    *)
(* memory.  Threads are workers and clients; a thread's stack holds a      *)
(* frame per function in progress, so that a worker whose queue is full    *)
(* runs a job nested inside the job that scheduled it, as the code does.   *)
(*                                                                         *)
(* A job is known by its handle <<slot, generation>>.  The function stored *)
(* in a slot is represented by the handle it was submitted under.  `phase` *)
(* and `dep` are ghosts: what happened to each job and what was asked.     *)
(*                                                                         *)
(* Left to other modules: going to sleep and being woken (WorkerIdle), the *)
(* cells of the lock-free queue (McmpQueue).  Here an idle worker scans    *)
(* again as soon as a queue is not empty and a queue is a bounded FIFO.    *)
(***************************************************************************)
EXTENDS Integers, Sequences, FiniteSets

CONSTANTS
  Workers, Clients,  (* threads created by fl_jobs_create, and all others   *)
  MaxJobs,           (* bound: submissions in a behaviour                   *)
  MaxSets,           (* bound: fl_jobs_set_priority calls in a behaviour    *)
  PriorityCount,     (* JOB_PRIORITY_COUNT: number of queues                *)
  Priorities,        (* priorities callers pass (the C enum is unchecked)   *)
  Capacity,          (* SLOTS of one queue                                  *)
  ClientCalls,       (* the calls clients make                              *)
  BodyCalls,         (* the calls a running job body makes                  *)
  Exclusive,         (* no two calls name the same handle at a time         *)
  PollAfterDep,      (* callers poll a job only after its dependency has    *)
                     (* been reported finished                              *)
  BeforeFinish       (* callers set or depend on a handle only until a poll *)
                     (* has reported it finished                            *)

(* fl_jobs_is_finished is "poll", or "reap" in instances that leave out the *)
(* polls of jobs that have not completed, which change nothing.             *)
Calls == {"add", "after", "poll", "reap", "wait", "set"}

ASSUME ConstantsOK ==
  /\ Workers # {} /\ Workers \intersect Clients = {} /\ IsFiniteSet(Workers \union Clients)
  /\ MaxJobs \in Nat /\ MaxSets \in Nat
  /\ PriorityCount \in Nat \ {0} /\ Priorities \subseteq Nat
  /\ Capacity \in Nat \ {0}
  /\ ClientCalls \subseteq Calls /\ BodyCalls \subseteq Calls
  /\ {Exclusive, PollAfterDep, BeforeFinish} \subseteq BOOLEAN

Threads  == Workers \union Clients
Slots    == 1..MaxJobs          \* start_jobs[]: the arena grows on demand
Null     == 0                   \* nullptr
Levels   == 0..(PriorityCount - 1)
High     == PriorityCount - 1
Handles  == Slots \X (1..MaxJobs)
NoHandle == <<0, 0>>            \* FL_JOB_HANDLE_INVALID

Statuses == {"not_started", "claimed", "completed", "free", "waiting", "promoting"}
Finished == {"completed", "free"}
Done     == Finished \union {"promoting"}

VARIABLES
  status, generation, function, first_dependent, next_dependent, priority,
  freeList, total,   (* first_free_entity chain, total_jobs_allocated       *)
  queue,             (* work_queues, oldest entry first                     *)
  stack,             (* per thread: frames of the calls in progress         *)
  issued,            (* handles returned to callers                         *)
  adds, sets,        (* calls made so far, bounded                          *)
  phase, dep         (* ghosts, see JobsAbstract                            *)

slotVars == <<status, generation, function, first_dependent, next_dependent, priority>>
poolVars == <<freeList, total>>
ghosts   == <<phase, dep>>
vars     == <<slotVars, poolVars, queue, stack, issued, adds, sets, ghosts>>

-----------------------------------------------------------------------------
(* Frames: a program counter and the locals the calls need.                *)

PCs == {"depgen", "alloc", "fill", "depstatus", "publish", "park", "link",
        "prepend", "recheck", "selfpromote", "added",
        "loadprio", "enqueue", "inline",
        "scan", "match", "claim", "begin", "body", "drain", "walk", "promote",
        "pollgen", "pollstatus", "pollagain", "recycle", "push", "answer",
        "setgen", "setstatus", "setold", "setstore", "setagain"}

Frame == [pc   : PCs,
          job  : Slots \union {Null},           \* slot worked on
          own  : Handles \union {NoHandle},     \* job submitted, or run
          arg  : Handles \union {NoHandle},     \* handle passed by the caller
          prio : Nat,                           \* priority passed, level scanned
          cur  : Slots \union {Null},           \* dependency, or dependent
          next : Slots \union {Null},           \* list cursor, expected head
          seen : Statuses,                      \* status read by a poll
          wait : BOOLEAN,                       \* fl_jobs_wait, not a single poll
          late : BOOLEAN]                       \* ghost: finished before the poll

Blank == [pc |-> "scan", job |-> Null, own |-> NoHandle, arg |-> NoHandle,
          prio |-> 0, cur |-> Null, next |-> Null, seen |-> "free",
          wait |-> FALSE, late |-> FALSE]

Frames == UNION {{stack[t][i] : i \in DOMAIN stack[t]} : t \in Threads}

Top(t)        == Head(stack[t])
At(t, pc)     == stack[t] # <<>> /\ Top(t).pc = pc
Enter(t, f)   == stack' = [stack EXCEPT ![t] = <<f>> \o @]
Become(t, f)  == stack' = [stack EXCEPT ![t] = <<f>> \o Tail(@)]
Goto(t, pc)   == Become(t, [Top(t) EXCEPT !.pc = pc])
Call(t, f, g) == stack' = [stack EXCEPT ![t] = <<g, f>> \o Tail(@)]
Return(t)     == stack' = [stack EXCEPT ![t] = Tail(@)]

Init ==
  /\ status = [s \in Slots |-> "not_started"]      \* arena_alloc_zero
  /\ generation = [s \in Slots |-> 0]
  /\ function = [s \in Slots |-> NoHandle]
  /\ first_dependent = [s \in Slots |-> Null]
  /\ next_dependent = [s \in Slots |-> Null]
  /\ priority = [s \in Slots |-> 0]
  /\ freeList = <<>> /\ total = 0
  /\ queue = [p \in Levels |-> <<>>]
  /\ stack = [t \in Threads |-> <<>>]
  /\ issued = {} /\ adds = 0 /\ sets = 0
  /\ phase = [h \in Handles |-> "none"]
  /\ dep = [h \in Handles |-> NoHandle]

-----------------------------------------------------------------------------
(* Calls.  A client calls from outside any job, a worker from a job body.  *)

MayCall(t, c) == \/ t \in Clients /\ stack[t] = <<>> /\ c \in ClientCalls
                 \/ At(t, "body") /\ c \in BodyCalls

Live(h)     == generation[h[1]] = h[2]
Settled(h)  == ~Live(h) \/ status[h[1]] = "free"
Polling     == {"pollgen", "pollstatus", "pollagain", "recycle", "push", "answer"}
Naming(h)   == {f \in Frames : f.arg = h}
MayName(h)  == /\ h \in issued
               /\ Exclusive => Naming(h) = {}
               /\ BeforeFinish => ~Settled(h)
MayPoll(h)  == /\ h \in issued
               /\ Exclusive => Naming(h) = {}
               /\ PollAfterDep /\ dep[h] # NoHandle => Settled(dep[h])

(* The worker path of fl_jobs_add_job_with_priority runs the function at   *)
(* once inside the caller's body and leaves no trace here.                 *)
AddJob(t, p) ==
  /\ t \in Clients /\ MayCall(t, "add") /\ adds < MaxJobs
  /\ Enter(t, [Blank EXCEPT !.pc = "alloc", !.prio = p])
  /\ adds' = adds + 1
  /\ UNCHANGED <<slotVars, poolVars, queue, issued, sets, ghosts>>

AddJobAfter(t, p, h) ==
  /\ MayCall(t, "after") /\ adds < MaxJobs /\ MayName(h)
  /\ Enter(t, [Blank EXCEPT !.pc = "depgen", !.prio = p, !.arg = h])
  /\ adds' = adds + 1
  /\ UNCHANGED <<slotVars, poolVars, queue, issued, sets, ghosts>>

(* A worker returns from fl_jobs_wait at once.                             *)
Poll(t, h, call) ==
  /\ MayCall(t, call) /\ MayPoll(h)
  /\ call = "wait" => t \in Clients
  /\ call = "reap" => Live(h) /\ status[h[1]] = "completed"
  /\ Enter(t, [Blank EXCEPT !.pc = "pollgen", !.arg = h, !.wait = (call = "wait"),
                            !.late = ~Live(h) \/ status[h[1]] \in Finished])
  /\ UNCHANGED <<slotVars, poolVars, queue, issued, adds, sets, ghosts>>

SetPriority(t, h, p) ==
  /\ MayCall(t, "set") /\ sets < MaxSets /\ MayName(h)
  /\ Enter(t, [Blank EXCEPT !.pc = "setgen", !.arg = h, !.prio = p])
  /\ sets' = sets + 1
  /\ UNCHANGED <<slotVars, poolVars, queue, issued, adds, ghosts>>

-----------------------------------------------------------------------------
(* fl_jobs_add_job_with_priority[_and_dependency].  cur is dep_job, Null   *)
(* when the job is added without a dependency.                             *)

CheckDependency(t) ==
  /\ At(t, "depgen")
  /\ IF Live(Top(t).arg)
     THEN Become(t, [Top(t) EXCEPT !.pc = "alloc", !.cur = Top(t).arg[1]])
     ELSE IF t \in Workers THEN Return(t)         \* runs inline, see AddJob
                           ELSE Goto(t, "alloc")
  /\ UNCHANGED <<slotVars, poolVars, queue, issued, adds, sets, ghosts>>

Allocate(t) ==
  LET s == IF freeList # <<>> THEN Head(freeList) ELSE total + 1
      g == generation[s] + 1
  IN  /\ At(t, "alloc")
      /\ IF freeList # <<>> THEN freeList' = Tail(freeList) /\ UNCHANGED total
                            ELSE total' = total + 1 /\ UNCHANGED freeList
      /\ generation' = [generation EXCEPT ![s] = g]
      /\ Become(t, [Top(t) EXCEPT !.pc = "fill", !.job = s, !.own = <<s, g>>])
      /\ UNCHANGED <<status, function, first_dependent, next_dependent, priority,
                     queue, issued, adds, sets, ghosts>>

Fill(t) ==
  LET f == Top(t)
  IN  /\ At(t, "fill")
      /\ function' = [function EXCEPT ![f.job] = f.own]
      /\ first_dependent' = [first_dependent EXCEPT ![f.job] = Null]
      /\ next_dependent' = [next_dependent EXCEPT ![f.job] = Null]
      /\ priority' = [priority EXCEPT ![f.job] = f.prio]
      /\ phase' = [phase EXCEPT ![f.own] = "pending"]
      /\ dep' = [dep EXCEPT ![f.own] = f.arg]
      /\ Goto(t, IF f.cur = Null THEN "publish" ELSE "depstatus")
      /\ UNCHANGED <<status, generation, poolVars, queue, issued, adds, sets>>

(* Mutant: a dependency that has been claimed counts as done.              *)
ReadDependencyStatusEarly(t) ==
  /\ At(t, "depstatus")
  /\ Goto(t, IF status[Top(t).cur] \in Done \union {"claimed"} THEN "publish" ELSE "park")
  /\ UNCHANGED <<slotVars, poolVars, queue, issued, adds, sets, ghosts>>

ReadDependencyStatus(t) ==
  /\ At(t, "depstatus")
  /\ Goto(t, IF status[Top(t).cur] \in Done THEN "publish" ELSE "park")
  /\ UNCHANGED <<slotVars, poolVars, queue, issued, adds, sets, ghosts>>

(* schedule_job_with_priority(job, prio) starts in a frame of its own.     *)
Scheduling(f) == [Blank EXCEPT !.pc = "enqueue", !.job = f.job, !.prio = f.prio]

Publish(t) ==
  /\ At(t, "publish")
  /\ status' = [status EXCEPT ![Top(t).job] = "not_started"]
  /\ Call(t, [Top(t) EXCEPT !.pc = "added"], Scheduling(Top(t)))
  /\ UNCHANGED <<generation, function, first_dependent, next_dependent, priority,
                 poolVars, queue, issued, adds, sets, ghosts>>

Park(t) ==
  /\ At(t, "park")
  /\ status' = [status EXCEPT ![Top(t).job] = "waiting"]
  /\ Goto(t, "link")
  /\ UNCHANGED <<generation, function, first_dependent, next_dependent, priority,
                 poolVars, queue, issued, adds, sets, ghosts>>

(* Load the head of the dependency's list and point the new node at it.    *)
Link(t) ==
  LET head == first_dependent[Top(t).cur]
  IN  /\ At(t, "link")
      /\ next_dependent' = [next_dependent EXCEPT ![Top(t).job] = head]
      /\ Become(t, [Top(t) EXCEPT !.pc = "prepend", !.next = head])
      /\ UNCHANGED <<status, generation, function, first_dependent, priority,
                     poolVars, queue, issued, adds, sets, ghosts>>

(* The CAS of the prepend; on failure it has loaded the head again.        *)
Prepend(t) ==
  LET f == Top(t)
      head == first_dependent[f.cur]
  IN  /\ At(t, "prepend")
      /\ IF head = f.next
         THEN /\ first_dependent' = [first_dependent EXCEPT ![f.cur] = f.job]
              /\ Goto(t, "recheck")
              /\ UNCHANGED next_dependent
         ELSE /\ next_dependent' = [next_dependent EXCEPT ![f.job] = head]
              /\ Become(t, [f EXCEPT !.next = head])
              /\ UNCHANGED first_dependent
      /\ UNCHANGED <<status, generation, function, priority,
                     poolVars, queue, issued, adds, sets, ghosts>>

(* Mutant: the submitter does not look at the dependency again.            *)
RecheckSkipped(t) ==
  /\ At(t, "recheck")
  /\ Goto(t, "added")
  /\ UNCHANGED <<slotVars, poolVars, queue, issued, adds, sets, ghosts>>

RecheckDependency(t) ==
  /\ At(t, "recheck")
  /\ Goto(t, IF status[Top(t).cur] \in Done THEN "selfpromote" ELSE "added")
  /\ UNCHANGED <<slotVars, poolVars, queue, issued, adds, sets, ghosts>>

(* Mutant: self-promotion stores the status instead of comparing.          *)
SelfPromoteUnchecked(t) ==
  /\ At(t, "selfpromote")
  /\ status' = [status EXCEPT ![Top(t).job] = "not_started"]
  /\ Call(t, [Top(t) EXCEPT !.pc = "added"], Scheduling(Top(t)))
  /\ UNCHANGED <<generation, function, first_dependent, next_dependent, priority,
                 poolVars, queue, issued, adds, sets, ghosts>>

SelfPromote(t) ==
  /\ At(t, "selfpromote")
  /\ IF status[Top(t).job] = "waiting"
     THEN /\ status' = [status EXCEPT ![Top(t).job] = "not_started"]
          /\ Call(t, [Top(t) EXCEPT !.pc = "added"], Scheduling(Top(t)))
     ELSE Goto(t, "added") /\ UNCHANGED status
  /\ UNCHANGED <<generation, function, first_dependent, next_dependent, priority,
                 poolVars, queue, issued, adds, sets, ghosts>>

ReturnHandle(t) ==
  /\ At(t, "added")
  /\ issued' = issued \union {Top(t).own}
  /\ Return(t)
  /\ UNCHANGED <<slotVars, poolVars, queue, adds, sets, ghosts>>

-----------------------------------------------------------------------------
(* schedule_job, schedule_job_with_priority.                               *)

QueueOf(p) == IF p \in Levels THEN p ELSE High
Full(p)    == Len(queue[p]) >= Capacity

LoadPriority(t) ==
  /\ At(t, "loadprio")
  /\ Become(t, [Top(t) EXCEPT !.pc = "enqueue", !.prio = priority[Top(t).job]])
  /\ UNCHANGED <<slotVars, poolVars, queue, issued, adds, sets, ghosts>>

(* Mutant: a worker, too, waits for room in the queue.                     *)
EnqueueBlocking(t) ==
  LET p == QueueOf(Top(t).prio)
  IN  /\ At(t, "enqueue") /\ ~Full(p)
      /\ queue' = [queue EXCEPT ![p] = Append(@, Top(t).job)]
      /\ Return(t)
      /\ UNCHANGED <<slotVars, poolVars, issued, adds, sets, ghosts>>

(* A client finding the queue full sleeps and tries again; a worker goes   *)
(* on to claim the job for itself.                                         *)
Enqueue(t) ==
  LET p == QueueOf(Top(t).prio)
  IN  /\ At(t, "enqueue")
      /\ \/ /\ ~Full(p)
            /\ queue' = [queue EXCEPT ![p] = Append(@, Top(t).job)]
            /\ Return(t)
         \/ /\ Full(p) /\ t \in Workers
            /\ Goto(t, "inline")
            /\ UNCHANGED queue
      /\ UNCHANGED <<slotVars, poolVars, issued, adds, sets, ghosts>>

ClaimStatus(s) == status[s] = "not_started" /\ status' = [status EXCEPT ![s] = "claimed"]

ClaimInline(t) ==
  /\ At(t, "inline")
  /\ \/ ClaimStatus(Top(t).job) /\ Goto(t, "begin")
     \/ status[Top(t).job] # "not_started" /\ Return(t) /\ UNCHANGED status
  /\ UNCHANGED <<generation, function, first_dependent, next_dependent, priority,
                 poolVars, queue, issued, adds, sets, ghosts>>

-----------------------------------------------------------------------------
(* try_dequeue_prioritized, from worker_thread or wait_for_work.           *)

StartScan(t) ==
  /\ t \in Workers /\ stack[t] = <<>>
  /\ \E p \in Levels : queue[p] # <<>>
  /\ Enter(t, [Blank EXCEPT !.pc = "scan", !.prio = High])
  /\ UNCHANGED <<slotVars, poolVars, queue, issued, adds, sets, ghosts>>

Scan(t) ==
  LET p == Top(t).prio
  IN  /\ At(t, "scan")
      /\ IF queue[p] # <<>>
         THEN /\ queue' = [queue EXCEPT ![p] = Tail(@)]
              /\ Become(t, [Top(t) EXCEPT !.pc = "match", !.job = Head(queue[p])])
         ELSE /\ IF p = 0 THEN Return(t) ELSE Become(t, [Top(t) EXCEPT !.prio = p - 1])
              /\ UNCHANGED queue
      /\ UNCHANGED <<slotVars, poolVars, issued, adds, sets, ghosts>>

(* An entry whose job has meanwhile another priority is dropped as stale.  *)
Match(t) ==
  /\ At(t, "match")
  /\ Goto(t, IF priority[Top(t).job] = Top(t).prio THEN "claim" ELSE "scan")
  /\ UNCHANGED <<slotVars, poolVars, queue, issued, adds, sets, ghosts>>

Claim(t) ==
  /\ At(t, "claim")
  /\ \/ ClaimStatus(Top(t).job) /\ Goto(t, "begin")
     \/ status[Top(t).job] # "not_started" /\ Goto(t, "scan") /\ UNCHANGED status
  /\ UNCHANGED <<generation, function, first_dependent, next_dependent, priority,
                 poolVars, queue, issued, adds, sets, ghosts>>

-----------------------------------------------------------------------------
(* execute_job and promote_dependent_jobs.                                 *)

Begin(t) ==
  LET h == function[Top(t).job]
  IN  /\ At(t, "begin")
      /\ phase' = [phase EXCEPT ![h] = IF @ = "pending" THEN "running" ELSE "again"]
      /\ Become(t, [Top(t) EXCEPT !.pc = "body", !.own = h])
      /\ UNCHANGED <<slotVars, poolVars, queue, issued, adds, sets, dep>>

(* The function returns, its context is freed and PROMOTING is published.  *)
FinishBody(t) ==
  /\ At(t, "body")
  /\ phase' = [phase EXCEPT ![Top(t).own] = IF @ = "running" THEN "done" ELSE "again"]
  /\ status' = [status EXCEPT ![Top(t).job] = "promoting"]
  /\ Goto(t, "drain")
  /\ UNCHANGED <<generation, function, first_dependent, next_dependent, priority,
                 poolVars, queue, issued, adds, sets, dep>>

Drain(t) ==
  /\ At(t, "drain")
  /\ first_dependent' = [first_dependent EXCEPT ![Top(t).job] = Null]
  /\ Become(t, [Top(t) EXCEPT !.pc = "walk", !.next = first_dependent[Top(t).job]])
  /\ UNCHANGED <<status, generation, function, next_dependent, priority,
                 poolVars, queue, issued, adds, sets, ghosts>>

(* Mutant: COMPLETED is not stored after the list has been walked.         *)
WalkUnfinished(t) ==
  LET f == Top(t)
  IN  /\ At(t, "walk")
      /\ \/ /\ f.next # Null
            /\ Become(t, [f EXCEPT !.pc = "promote", !.cur = f.next,
                                   !.next = next_dependent[f.next]])
         \/ f.next = Null /\ Return(t)
      /\ UNCHANGED <<slotVars, poolVars, queue, issued, adds, sets, ghosts>>

Walk(t) ==
  LET f == Top(t)
  IN  /\ At(t, "walk")
      /\ \/ /\ f.next # Null
            /\ Become(t, [f EXCEPT !.pc = "promote", !.cur = f.next,
                                   !.next = next_dependent[f.next]])
            /\ UNCHANGED status
         \/ /\ f.next = Null
            /\ status' = [status EXCEPT ![f.job] = "completed"]
            /\ Return(t)
      /\ UNCHANGED <<generation, function, first_dependent, next_dependent, priority,
                     poolVars, queue, issued, adds, sets, ghosts>>

Promote(t) ==
  LET f == Top(t)
  IN  /\ At(t, "promote")
      /\ IF status[f.cur] = "waiting"
         THEN /\ status' = [status EXCEPT ![f.cur] = "not_started"]
              /\ Call(t, [f EXCEPT !.pc = "walk"],
                         [Blank EXCEPT !.pc = "loadprio", !.job = f.cur])
         ELSE Goto(t, "walk") /\ UNCHANGED status
      /\ UNCHANGED <<generation, function, first_dependent, next_dependent, priority,
                     poolVars, queue, issued, adds, sets, ghosts>>

-----------------------------------------------------------------------------
(* fl_jobs_is_finished, and fl_jobs_wait, which repeats it.                *)

PollGeneration(t) ==
  /\ At(t, "pollgen")
  /\ IF Live(Top(t).arg)
     THEN Become(t, [Top(t) EXCEPT !.pc = "pollstatus", !.job = Top(t).arg[1]])
     ELSE Return(t)
  /\ UNCHANGED <<slotVars, poolVars, queue, issued, adds, sets, ghosts>>

PollStatus(t) ==
  /\ At(t, "pollstatus")
  /\ Become(t, [Top(t) EXCEPT !.pc = "pollagain", !.seen = status[Top(t).job]])
  /\ UNCHANGED <<slotVars, poolVars, queue, issued, adds, sets, ghosts>>

(* Mutant: the generation is not read again after the status.              *)
PollGenerationOnce(t) ==
  /\ At(t, "pollagain")
  /\ Goto(t, IF Top(t).seen = "completed" THEN "recycle" ELSE "answer")
  /\ UNCHANGED <<slotVars, poolVars, queue, issued, adds, sets, ghosts>>

PollGenerationAgain(t) ==
  /\ At(t, "pollagain")
  /\ IF Live(Top(t).arg)
     THEN Goto(t, IF Top(t).seen = "completed" THEN "recycle" ELSE "answer")
     ELSE Return(t)
  /\ UNCHANGED <<slotVars, poolVars, queue, issued, adds, sets, ghosts>>

(* Mutant: the slot is recycled without the compare-and-swap.              *)
RecycleUnchecked(t) ==
  /\ At(t, "recycle")
  /\ status' = [status EXCEPT ![Top(t).job] = "free"]
  /\ Goto(t, "push")
  /\ UNCHANGED <<generation, function, first_dependent, next_dependent, priority,
                 poolVars, queue, issued, adds, sets, ghosts>>

Recycle(t) ==
  /\ At(t, "recycle")
  /\ \/ /\ status[Top(t).job] = "completed"
        /\ status' = [status EXCEPT ![Top(t).job] = "free"]
        /\ Goto(t, "push")
     \/ status[Top(t).job] # "completed" /\ Goto(t, "answer") /\ UNCHANGED status
  /\ UNCHANGED <<generation, function, first_dependent, next_dependent, priority,
                 poolVars, queue, issued, adds, sets, ghosts>>

PushFree(t) ==
  /\ At(t, "push")
  /\ freeList' = <<Top(t).job>> \o freeList
  /\ Goto(t, "answer")
  /\ UNCHANGED <<slotVars, total, queue, issued, adds, sets, ghosts>>

SaysFinished(f) == f.pc = "answer" /\ f.seen \in Finished
SaysNotFinished(f) == f.pc = "answer" /\ f.seen \notin Finished

Answer(t) ==
  LET f == Top(t)
  IN  /\ At(t, "answer")
      /\ IF f.wait /\ SaysNotFinished(f)
         THEN Become(t, [f EXCEPT !.pc = "pollgen",
                           !.late = ~Live(f.arg) \/ status[f.arg[1]] \in Finished])
         ELSE Return(t)
      /\ UNCHANGED <<slotVars, poolVars, queue, issued, adds, sets, ghosts>>

-----------------------------------------------------------------------------
(* fl_jobs_set_priority.                                                   *)

SetLookup(t) ==
  /\ At(t, "setgen")
  /\ IF Live(Top(t).arg)
     THEN Become(t, [Top(t) EXCEPT !.pc = "setstatus", !.job = Top(t).arg[1]])
     ELSE Return(t)
  /\ UNCHANGED <<slotVars, poolVars, queue, issued, adds, sets, ghosts>>

SetStatus(t) ==
  /\ At(t, "setstatus")
  /\ IF status[Top(t).job] \in {"not_started", "waiting"} THEN Goto(t, "setold") ELSE Return(t)
  /\ UNCHANGED <<slotVars, poolVars, queue, issued, adds, sets, ghosts>>

SetOld(t) ==
  /\ At(t, "setold")
  /\ IF priority[Top(t).job] = Top(t).prio THEN Return(t) ELSE Goto(t, "setstore")
  /\ UNCHANGED <<slotVars, poolVars, queue, issued, adds, sets, ghosts>>

SetStore(t) ==
  /\ At(t, "setstore")
  /\ priority' = [priority EXCEPT ![Top(t).job] = Top(t).prio]
  /\ Goto(t, "setagain")
  /\ UNCHANGED <<status, generation, function, first_dependent, next_dependent,
                 poolVars, queue, issued, adds, sets, ghosts>>

(* Mutant: the job is not enqueued again under its new priority.           *)
SetWithoutRequeue(t) ==
  /\ At(t, "setagain") /\ Return(t)
  /\ UNCHANGED <<slotVars, poolVars, queue, issued, adds, sets, ghosts>>

SetRecheck(t) ==
  /\ At(t, "setagain")
  /\ IF status[Top(t).job] = "not_started" THEN Become(t, Scheduling(Top(t))) ELSE Return(t)
  /\ UNCHANGED <<slotVars, poolVars, queue, issued, adds, sets, ghosts>>

-----------------------------------------------------------------------------
AddStep(t) == \/ CheckDependency(t) \/ Allocate(t) \/ Fill(t)
              \/ ReadDependencyStatus(t) \/ Publish(t) \/ Park(t) \/ Link(t)
              \/ Prepend(t) \/ RecheckDependency(t) \/ SelfPromote(t) \/ ReturnHandle(t)
ScheduleStep(t) == LoadPriority(t) \/ Enqueue(t) \/ ClaimInline(t)
RunStep(t) == \/ StartScan(t) \/ Scan(t) \/ Match(t) \/ Claim(t)
              \/ Begin(t) \/ FinishBody(t) \/ Drain(t) \/ Walk(t) \/ Promote(t)
PollStep(t) == \/ PollGeneration(t) \/ PollStatus(t) \/ PollGenerationAgain(t)
               \/ Recycle(t) \/ PushFree(t) \/ Answer(t)
SetStep(t) == \/ SetLookup(t) \/ SetStatus(t) \/ SetOld(t) \/ SetStore(t) \/ SetRecheck(t)

Step(t) == AddStep(t) \/ ScheduleStep(t) \/ RunStep(t) \/ PollStep(t) \/ SetStep(t)

NewCall(t) == \/ \E p \in Priorities : AddJob(t, p)
              \/ \E h \in issued :
                   \/ \E p \in Priorities : AddJobAfter(t, p, h) \/ SetPriority(t, h, p)
                   \/ \E call \in {"poll", "reap", "wait"} : Poll(t, h, call)

Next == \E t \in Threads : Step(t) \/ NewCall(t)

(* The OS runs every runnable thread, and job functions return.            *)
Fairness == \A t \in Threads : WF_vars(Step(t))

SafeSpec == Init /\ [][Next]_vars
Spec == SafeSpec /\ Fairness
-----------------------------------------------------------------------------
(* Properties.                                                             *)

(* Every variable ranges over what its C type and the bounds allow.        *)
TypeOK ==
  /\ status \in [Slots -> Statuses]
  /\ generation \in [Slots -> Nat]
  /\ function \in [Slots -> Handles \union {NoHandle}]
  /\ first_dependent \in [Slots -> Slots \union {Null}]
  /\ next_dependent \in [Slots -> Slots \union {Null}]
  /\ priority \in [Slots -> Nat]
  /\ freeList \in Seq(Slots) /\ total \in Nat
  /\ queue \in [Levels -> Seq(Slots)]
  /\ stack \in [Threads -> Seq(Frame)]
  /\ issued \subseteq Handles /\ adds \in 0..MaxJobs /\ sets \in 0..MaxSets
  /\ phase \in [Handles -> {"none", "pending", "running", "done", "again"}]
  /\ dep \in [Handles -> Handles \union {NoHandle}]

(* Slots a submitter has taken and not yet published or parked.            *)
Filling == {f.job : f \in {g \in Frames : g.pc \in {"fill", "depstatus", "publish", "park"}}}

(* No job is started before the one it depends on is done: "Schedule a job *)
(* that runs only after dependency completes" (api/jobs.def).              *)
DependencyOrder ==
  \A h \in Handles : phase[h] \notin {"none", "pending"} /\ dep[h] # NoHandle
                      => phase[dep[h]] = "done"

(* No job runs twice, whoever of dequeuer, promoter, submitter and inline  *)
(* runner gets to it.                                                      *)
RunsOnce == \A h \in Handles : phase[h] # "again"

(* The promise as a refinement: each submitted job runs once, after its    *)
(* dependency, and every one is run in the end, whatever saturates the     *)
(* queues.                                                                 *)
Abstract == INSTANCE JobsAbstract
EveryJobRuns == Abstract!Spec

(* A claimable job is never forgotten: an entry for it is in the queue of  *)
(* its present priority, or a thread is about to enqueue or claim it.      *)
(* "Stale entry - the job will be picked up from its correct queue."       *)
ReadyJobIsHeld ==
  \A s \in (1..total) \ Filling : status[s] = "not_started" =>
    \/ \E i \in DOMAIN queue[QueueOf(priority[s])] : queue[QueueOf(priority[s])][i] = s
    \/ \E f \in Frames : f.job = s /\ f.pc \in {"loadprio", "inline"}
    \/ \E f \in Frames : /\ f.job = s /\ f.prio = priority[s]
                         /\ f.pc \in {"match", "claim", "enqueue", "setagain"}

(* The dependents chained from a list cell: the slots that are in every    *)
(* set that holds the first and, with a slot, the next one.                *)
Chain(s) ==
  {x \in Slots : /\ s # Null
                 /\ \A S \in SUBSET Slots :
                      s \in S /\ (\A y \in S : next_dependent[y] \in S \union {Null}) => x \in S}

(* Lists that some job still to be drained, or a promoter, will go over.   *)
WillDrain(s) ==
  \/ status[s] \in {"not_started", "claimed", "waiting"} /\ s \notin Filling
  \/ \E f \in Frames : f.pc = "drain" /\ f.job = s

(* A job parked behind its dependency is never forgotten: it is on a list  *)
(* that will be drained, in a promoter's hands, or its submitter still has *)
(* to look at the dependency again.                                        *)
WaitingJobIsHeld ==
  \A s \in (1..total) \ Filling : status[s] = "waiting" =>
    \/ \E x \in 1..total : WillDrain(x) /\ s \in Chain(first_dependent[x])
    \/ \E f \in Frames : f.job = s /\ f.pc \in {"link", "prepend", "recheck", "selfpromote"}
    \/ \E f \in Frames : f.pc \in {"walk", "promote"} /\ s \in Chain(f.next)
    \/ \E f \in Frames : f.pc = "promote" /\ f.cur = s

(* FreeListIsSound: every variable keeps its type, the free list holds     *)
(* each recycled slot once, and a slot on it is in nobody else's hands: not *)
(* being filled, run or pushed (allocate_job_info, recycle_job_info).      *)
FreeListIsSound ==
  /\ TypeOK
  /\ \A i, j \in DOMAIN freeList : freeList[i] = freeList[j] => i = j
  /\ \A i \in DOMAIN freeList :
       /\ status[freeList[i]] = "free" /\ freeList[i] <= total
       /\ \A f \in Frames : f.job = freeList[i] =>
            f.pc \notin {"fill", "depstatus", "publish", "park", "begin", "body",
                         "drain", "walk", "promote", "push"}

(* "Finished" is only ever answered for a job whose function has returned, *)
(* and "not finished" never for one that had completed before the call:    *)
(* the generation is read on both sides of the status for this.            *)
AnswersAreTrue ==
  \A f \in Frames : (SaysFinished(f) => phase[f.arg] = "done")
                   /\ (SaysNotFinished(f) => ~f.late)

(* fl_jobs_wait returns.                                                   *)
Waiting(t) == stack[t] # <<>> /\ Top(t).wait
WaitReturns == \A t \in Clients : Waiting(t) ~> ~Waiting(t)
=============================================================================
