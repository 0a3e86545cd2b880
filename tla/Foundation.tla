------------------------------ MODULE Foundation ------------------------------
(***************************************************************************)
(* Bringing the process-wide core up and down (src/core/core.c,            *)
(* fl_jobs_create and fl_jobs_destroy of src/core/jobsys.c, and the Rust   *)
(* facade, rust/flowi_core/src/lib.rs).  fl_init may not run twice at a    *)
(* time; the facade serialises it with a lock, but a plugin has a copy of  *)
(* the facade with a lock of its own.                                      *)
(***************************************************************************)
EXTENDS Integers, FiniteSets

CONSTANTS
  Threads, Copies, Host,   (* copies of the facade, and that of the host   *)
  CopyOf,                  (* thread -> the copy it calls                  *)
  MaxCalls,                (* bound: calls of a thread                     *)
  None

VARIABLES
  base, lock,                              (* BASE_ARENA, BASE_LOCK        *)
  s_initialized, s_main_arena,             (* core.c                       *)
  g_global_job_system, pools,              (* and the pools that exist     *)
  pc, arena,                               (* thread -> step, its result   *)
  calls, births

core_vars == <<base, lock, s_initialized, s_main_arena, g_global_job_system, pools, pc, arena, calls, births>>

core == <<s_initialized, s_main_arena, g_global_job_system, pools, births>>
My(t) == base[CopyOf[t]]
Goto(t, step) == pc' = [pc EXCEPT ![t] = step]
Returns(t, a) == arena' = [arena EXCEPT ![t] = a]
Counts(t) == calls[t] < MaxCalls /\ calls' = [calls EXCEPT ![t] = @ + 1]
Unlock(t) == lock' = [lock EXCEPT ![CopyOf[t]] = None]

(* A plugin is loaded once the host is up.                                 *)
init_shared(t) ==
  /\ pc[t] = "idle" /\ Counts(t)
  /\ CopyOf[t] # Host => base[Host] # None
  /\ Returns(t, My(t))
  /\ Goto(t, IF My(t) # None THEN "up" ELSE "wait")
  /\ UNCHANGED <<base, lock, core>>

(* Mutant: the lock is let go once it was free.                            *)
LockedBriefly(t) ==
  /\ pc[t] = "wait" /\ lock[CopyOf[t]] = None
  /\ IF My(t) # None THEN Returns(t, My(t)) /\ Goto(t, "up") ELSE Goto(t, "init") /\ UNCHANGED arena
  /\ UNCHANGED <<base, lock, core, calls>>

(* The second look, under the lock.                                        *)
Locked(t) ==
  /\ pc[t] = "wait" /\ lock[CopyOf[t]] = None
  /\ IF My(t) # None THEN Returns(t, My(t)) /\ Goto(t, "up") /\ UNCHANGED lock
     ELSE lock' = [lock EXCEPT ![CopyOf[t]] = t] /\ Goto(t, "init") /\ UNCHANGED arena
  /\ UNCHANGED <<base, core, calls>>

fl_init(t) ==
  /\ pc[t] = "init"
  /\ IF s_initialized
     THEN Returns(t, s_main_arena) /\ Goto(t, "store") /\ UNCHANGED births
     ELSE births' = births + 1 /\ Returns(t, births + 1) /\ Goto(t, "jobs")
  /\ UNCHANGED <<base, lock, s_initialized, s_main_arena, g_global_job_system, pools, calls>>

fl_jobs_create(t) ==
  /\ pc[t] = "jobs"
  /\ Goto(t, IF g_global_job_system # None THEN "finish" ELSE "spawn")
  /\ UNCHANGED <<base, lock, core, arena, calls>>

Spawn(t) ==
  /\ pc[t] = "spawn" /\ Goto(t, "finish")
  /\ g_global_job_system' = arena[t] /\ pools' = pools \cup {arena[t]}
  /\ UNCHANGED <<base, lock, s_initialized, s_main_arena, births, arena, calls>>

Finish(t) ==
  /\ pc[t] = "finish" /\ Goto(t, "store")
  /\ s_initialized' = TRUE /\ s_main_arena' = arena[t]
  /\ UNCHANGED <<base, lock, g_global_job_system, pools, births, arena, calls>>

Store(t) ==
  /\ pc[t] = "store" /\ Goto(t, "up")
  /\ base' = [base EXCEPT ![CopyOf[t]] = arena[t]] /\ Unlock(t)
  /\ UNCHANGED <<core, arena, calls>>

(* The handle of the main arena is dropped.                                *)
Release(t) ==
  /\ pc[t] = "up" /\ Goto(t, "idle") /\ Returns(t, None)
  /\ UNCHANGED <<base, lock, core, calls>>

(* Jobs::add asserts is_up, then hands the job to the pool.                *)
is_up(t) ==
  /\ pc[t] = "idle" /\ My(t) # None /\ Counts(t)
  /\ Goto(t, "add")
  /\ UNCHANGED <<base, lock, core, arena>>

add(t) ==
  /\ pc[t] = "add" /\ Goto(t, "idle")
  /\ UNCHANGED <<base, lock, core, arena, calls>>

(* "Every arena handle must already be dropped; nothing may touch core     *)
(* afterwards": no thread is in a call or holds a handle until the swap,   *)
(* and the other copies are unloaded.  Later constructors are welcome.     *)
shutdown(t) ==
  /\ \A u \in Threads : pc[u] = "idle"
  /\ \A c \in Copies \ {CopyOf[t]} : base[c] = None
  /\ Counts(t)
  /\ base' = [base EXCEPT ![CopyOf[t]] = None]
  /\ IF My(t) = None THEN UNCHANGED <<lock, pc>>
     ELSE lock' = [lock EXCEPT ![CopyOf[t]] = t] /\ Goto(t, "destroy")
  /\ UNCHANGED <<core, arena>>

fl_jobs_destroy(t) ==
  /\ pc[t] = "destroy" /\ Goto(t, "forget")
  /\ pools' = pools \ {g_global_job_system} /\ g_global_job_system' = None
  /\ UNCHANGED <<base, lock, s_initialized, s_main_arena, births, arena, calls>>

fl_destroy(t) ==
  /\ pc[t] = "forget" /\ Goto(t, "idle")
  /\ s_main_arena' = None /\ s_initialized' = FALSE /\ Unlock(t)
  /\ UNCHANGED <<base, g_global_job_system, pools, births, arena, calls>>

Unload(c) ==
  /\ c # Host /\ base[c] # None
  /\ \A t \in Threads : CopyOf[t] = c => pc[t] = "idle"
  /\ base' = [base EXCEPT ![c] = None]
  /\ UNCHANGED <<lock, core, pc, arena, calls>>

CoreInit ==
  /\ base = [c \in Copies |-> None] /\ lock = [c \in Copies |-> None]
  /\ s_initialized = FALSE /\ s_main_arena = None
  /\ g_global_job_system = None /\ pools = {} /\ births = 0
  /\ pc = [t \in Threads |-> "idle"] /\ arena = [t \in Threads |-> None]
  /\ calls = [t \in Threads |-> 0]

CoreNext ==
  \/ \E t \in Threads :
       \/ init_shared(t) \/ Locked(t) \/ fl_init(t) \/ fl_jobs_create(t) \/ Spawn(t) \/ Finish(t) \/ Store(t)
       \/ Release(t) \/ is_up(t) \/ add(t) \/ shutdown(t) \/ fl_jobs_destroy(t) \/ fl_destroy(t)
  \/ \E c \in Copies : Unload(c)

CoreSpec == CoreInit /\ [][CoreNext]_core_vars

-----------------------------------------------------------------------------
Building == {t \in Threads : pc[t] \in {"jobs", "spawn", "finish", "destroy", "forget"}}

(* FoundationIsWhole: whoever brings the core up, host or plugin, at once  *)
(* or again after a shutdown, gets the one main arena of a core that is    *)
(* completely up, jobs are added to a pool that exists, and there is never *)
(* a second pool or a second thread in fl_init or fl_destroy (lib.rs:63-   *)
(* 165, core.c:17-96, jobsys.c:317-323).                                   *)
FoundationIsWhole ==
  /\ \A t \in Threads : pc[t] \in {"up", "add"} => s_initialized /\ g_global_job_system # None
  /\ \A t \in Threads : pc[t] = "up" => arena[t] = s_main_arena
  /\ \A c \in Copies : base[c] # None => s_initialized /\ base[c] = s_main_arena
  /\ Cardinality(Building) <= 1
  /\ pools = IF g_global_job_system = None THEN {} ELSE {g_global_job_system}
=============================================================================
