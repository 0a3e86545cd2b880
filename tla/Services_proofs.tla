-------------------------- MODULE Services_proofs ---------------------------
(***************************************************************************)
(* Proofs about the services around the core: bringing it up and down,     *)
(* watching files, making directories, the crash history.  Each part       *)
(* begins with the argument it follows.                                    *)
(***************************************************************************)
EXTENDS Foundation, FileWatcher, InotifyWatcher, Directories, CrashDetector, FiniteSetTheorems, SequenceTheorems,
        WellFoundedInduction, TLAPS

-----------------------------------------------------------------------------
(***************************************************************************)
(* Proofs about Foundation, for any number of threads, copies of the       *)
(* facade and calls: whoever brings the core up gets the one core that is  *)
(* completely up, and nobody gets hold of one that goes down.              *)
(*                                                                         *)
(* The argument: the base of the host tells whether the core is up.  Only  *)
(* the thread that has the host's lock brings it up or down, and while it  *)
(* does, no plugin and no user of the core is there.                       *)
(***************************************************************************)

(* What the model asks of its constants.                                   *)
CoreConstantsOK ==
  /\ Host \in Copies /\ CopyOf \in [Threads -> Copies]
  /\ None \notin Threads /\ None \notin Nat

-----------------------------------------------------------------------------
(* The invariant.                                                          *)

PCs == {"idle", "wait", "init", "jobs", "spawn", "finish", "store", "up", "add", "destroy", "forget"}
BuildPCs == {"jobs", "spawn", "finish", "destroy", "forget"}
HoldPCs  == BuildPCs \union {"init", "store"}

CoreTypeOK ==
  /\ base \in [Copies -> Nat \union {None}] /\ lock \in [Copies -> Threads \union {None}]
  /\ s_initialized \in BOOLEAN /\ s_main_arena \in Nat \union {None}
  /\ pc \in [Threads -> PCs] /\ arena \in [Threads -> Nat \union {None}] /\ births \in Nat

IsUp == base[Host] # None

(* The core while it is up, and when nobody is bringing it up or down.     *)
CoreOK ==
  /\ IsUp => s_initialized /\ g_global_job_system # None /\ base[Host] = s_main_arena
  /\ ~IsUp /\ lock[Host] = None => ~s_initialized /\ g_global_job_system = None
  /\ pools = IF g_global_job_system = None THEN {} ELSE {g_global_job_system}

(* The copies that have a core have that of the host.                      *)
CopiesOK == \A c \in Copies : base[c] # None => base[c] = base[Host]

(* A thread of a plugin runs only on a core that is up.                    *)
PluginOK(t) == CopyOf[t] # Host /\ pc[t] # "idle" => IsUp

(* A user has the core that is up.                                         *)
UserOK(t) ==
  /\ pc[t] \in {"up", "add"} => IsUp
  /\ pc[t] = "up" => arena[t] = base[Host]

(* A thread under the lock knows how far the core has come.                *)
HolderOK(t) ==
  /\ pc[t] \in HoldPCs => lock[CopyOf[t]] = t /\ (CopyOf[t] = Host => ~IsUp)
  /\ pc[t] \in BuildPCs => CopyOf[t] = Host
  /\ pc[t] \in {"init", "jobs", "spawn"} /\ CopyOf[t] = Host =>
       ~s_initialized /\ g_global_job_system = None
  /\ pc[t] \in {"jobs", "spawn", "finish", "store"} => arena[t] \in Nat
  /\ pc[t] = "finish" => ~s_initialized /\ g_global_job_system # None
  /\ pc[t] = "store" => s_initialized /\ g_global_job_system # None /\ arena[t] = s_main_arena
  /\ pc[t] = "destroy" => s_initialized /\ g_global_job_system # None
  /\ pc[t] = "forget" => g_global_job_system = None

ThreadOK(t) == PluginOK(t) /\ UserOK(t) /\ HolderOK(t)

FInv == CoreTypeOK /\ CoreOK /\ CopiesOK /\ \A t \in Threads : ThreadOK(t)

-----------------------------------------------------------------------------
(* One thread moves.                                                       *)

Moves(t, stage) == pc' = [pc EXCEPT ![t] = stage]

LEMMA MovedPC ==
  ASSUME CoreTypeOK, NEW t \in Threads, NEW stage \in PCs, Moves(t, stage)
  PROVE  /\ pc' \in [Threads -> PCs] /\ pc'[t] = stage
         /\ \A u \in Threads \ {t} : pc'[u] = pc[u]
BY DEF CoreTypeOK, Moves

(* A step that leaves alone the core and the lock that others rely on.     *)
LEMMA OthersKept ==
  ASSUME CoreConstantsOK, FInv, NEW t \in Threads, NEW stage \in PCs, Moves(t, stage),
         UNCHANGED <<s_initialized, s_main_arena, g_global_job_system>>,
         \A u \in Threads \ {t} : arena'[u] = arena[u],
         base'[Host] = base[Host],
         \A u \in Threads \ {t} : lock[CopyOf[u]] = u => lock'[CopyOf[u]] = u
  PROVE  \A u \in Threads \ {t} : ThreadOK(u)'
<1> TAKE u \in Threads \ {t}
<1>1. pc'[u] = pc[u] /\ arena'[u] = arena[u] /\ ThreadOK(u)
  BY MovedPC DEF FInv
<1>2. PluginOK(u)' /\ UserOK(u)'
  BY <1>1 DEF ThreadOK, PluginOK, UserOK, IsUp
<1>3. HolderOK(u)'
  BY <1>1 DEF ThreadOK, HolderOK, IsUp
<1> QED
  BY <1>2, <1>3 DEF ThreadOK

(* Who has the host's lock has it alone: the others do not build.          *)
LEMMA AloneWithLock ==
  ASSUME CoreConstantsOK, FInv, NEW t \in Threads, pc[t] \in HoldPCs, CopyOf[t] = Host
  PROVE  /\ ~IsUp /\ lock[Host] = t /\ lock[Host] # None
         /\ \A u \in Threads \ {t} : pc[u] = "idle" \/ (pc[u] = "wait" /\ CopyOf[u] = Host)
<1>1. ~IsUp /\ lock[Host] = t
  BY DEF FInv, ThreadOK, HolderOK
<1>2. t # None
  BY DEF CoreConstantsOK
<1>3. ASSUME NEW u \in Threads \ {t}
      PROVE  pc[u] = "idle" \/ (pc[u] = "wait" /\ CopyOf[u] = Host)
  <2>1. ThreadOK(u) /\ pc[u] \in PCs
    BY DEF FInv, CoreTypeOK
  <2>2. CopyOf[u] # Host => pc[u] = "idle"
    BY <1>1, <2>1 DEF ThreadOK, PluginOK
  <2>3. CopyOf[u] = Host => pc[u] \notin HoldPCs \union {"up", "add"}
    BY <1>1, <2>1 DEF ThreadOK, HolderOK, UserOK
  <2> QED
    BY <2>1, <2>2, <2>3 DEF PCs, HoldPCs, BuildPCs
<1> QED
  BY <1>1, <1>2, <1>3

(* Then the others are fine whatever it does to the core.                  *)
LEMMA OthersWait ==
  ASSUME CoreConstantsOK, FInv, NEW t \in Threads, pc[t] \in HoldPCs, CopyOf[t] = Host,
         NEW stage \in PCs, Moves(t, stage)
  PROVE  \A u \in Threads \ {t} : ThreadOK(u)'
<1> TAKE u \in Threads \ {t}
<1>1. pc'[u] = pc[u]
  BY MovedPC DEF FInv
<1>2. pc[u] = "idle" \/ (pc[u] = "wait" /\ CopyOf[u] = Host)
  BY AloneWithLock
<1> QED
  BY <1>1, <1>2 DEF ThreadOK, PluginOK, UserOK, HolderOK, HoldPCs, BuildPCs

-----------------------------------------------------------------------------
(* The facade's calls.                                                     *)

LEMMA InitSharedStep ==
  ASSUME CoreConstantsOK, FInv, NEW t \in Threads, init_shared(t)
  PROVE  FInv'
<1> PICK stage \in {"up", "wait"} : stage = IF My(t) # None THEN "up" ELSE "wait"
  OBVIOUS
<1>1. /\ Moves(t, stage) /\ stage \in PCs /\ pc[t] = "idle"
      /\ arena' = [arena EXCEPT ![t] = My(t)]
      /\ CopyOf[t] # Host => IsUp
      /\ UNCHANGED <<base, lock, core>>
  BY DEF init_shared, Goto, Returns, Moves, PCs, IsUp
<1>2. My(t) \in Nat \union {None} /\ (My(t) # None => My(t) = base[Host] /\ IsUp)
  BY DEF My, CoreConstantsOK, FInv, CoreTypeOK, CopiesOK, IsUp
<1>3. /\ arena' \in [Threads -> Nat \union {None}] /\ arena'[t] = My(t)
      /\ \A u \in Threads \ {t} : arena'[u] = arena[u]
  BY <1>1, <1>2 DEF FInv, CoreTypeOK
<1>4. CoreTypeOK' /\ CoreOK' /\ CopiesOK'
  BY <1>1, <1>3, MovedPC DEF FInv, CoreTypeOK, CoreOK, CopiesOK, IsUp, core
<1>5. ThreadOK(t)'
  <2>1. pc'[t] = stage
    BY <1>1, MovedPC DEF FInv
  <2> QED
    BY <1>1, <1>2, <1>3, <2>1 DEF ThreadOK, PluginOK, UserOK, HolderOK, HoldPCs, BuildPCs, IsUp
<1>6. \A u \in Threads \ {t} : ThreadOK(u)'
  BY <1>1, <1>3, OthersKept DEF core
<1> QED
  BY <1>4, <1>5, <1>6 DEF FInv

LEMMA LockedStep ==
  ASSUME CoreConstantsOK, FInv, NEW t \in Threads, Locked(t)
  PROVE  FInv'
<1>1. pc[t] = "wait" /\ lock[CopyOf[t]] = None /\ UNCHANGED <<base, core>> /\ CopyOf[t] \in Copies
  BY DEF Locked, CoreConstantsOK
<1>2. CopyOf[t] # Host => IsUp
  BY <1>1 DEF FInv, ThreadOK, PluginOK
<1>3. CASE My(t) # None
  <2>1. My(t) = base[Host] /\ IsUp /\ My(t) \in Nat
    BY <1>1, <1>3 DEF My, FInv, CoreTypeOK, CopiesOK, IsUp
  <2>2. /\ Moves(t, "up") /\ "up" \in PCs /\ lock' = lock
        /\ arena' = [arena EXCEPT ![t] = My(t)]
    BY <1>3 DEF Locked, Goto, Returns, Moves, PCs
  <2>3. /\ arena' \in [Threads -> Nat \union {None}] /\ arena'[t] = My(t)
        /\ \A u \in Threads \ {t} : arena'[u] = arena[u]
    BY <2>1, <2>2 DEF FInv, CoreTypeOK
  <2>4. CoreTypeOK' /\ CoreOK' /\ CopiesOK'
    BY <1>1, <2>2, <2>3, MovedPC DEF FInv, CoreTypeOK, CoreOK, CopiesOK, IsUp, core
  <2>5. ThreadOK(t)'
    BY <1>1, <2>1, <2>2, <2>3, MovedPC
       DEF FInv, ThreadOK, PluginOK, UserOK, HolderOK, HoldPCs, BuildPCs, IsUp
  <2>6. \A u \in Threads \ {t} : ThreadOK(u)'
    BY <1>1, <2>2, <2>3, OthersKept DEF core
  <2> QED
    BY <2>4, <2>5, <2>6 DEF FInv
<1>4. CASE My(t) = None
  <2>1. /\ Moves(t, "init") /\ "init" \in PCs /\ arena' = arena
        /\ lock' = [lock EXCEPT ![CopyOf[t]] = t]
    BY <1>4 DEF Locked, Goto, Moves, PCs
  <2>2. /\ lock' \in [Copies -> Threads \union {None}] /\ lock'[CopyOf[t]] = t /\ t # None
        /\ \A c \in Copies \ {CopyOf[t]} : lock'[c] = lock[c]
    BY <1>1, <2>1 DEF FInv, CoreTypeOK, CoreConstantsOK
  <2>3. CopyOf[t] = Host => ~IsUp /\ ~s_initialized /\ g_global_job_system = None
    BY <1>1, <1>4 DEF My, FInv, CoreOK, IsUp
  <2>4. CoreTypeOK' /\ CopiesOK'
    BY <1>1, <2>1, <2>2, MovedPC DEF FInv, CoreTypeOK, CopiesOK, core
  <2>5. CoreOK'
    BY <1>1, <2>2, CoreConstantsOK DEF FInv, CoreOK, IsUp, core, CoreConstantsOK
  <2>6. ThreadOK(t)'
    BY <1>1, <1>2, <2>1, <2>2, <2>3, MovedPC
       DEF FInv, ThreadOK, PluginOK, UserOK, HolderOK, HoldPCs, BuildPCs, IsUp, core
  <2>7. \A u \in Threads \ {t} : lock[CopyOf[u]] = u => lock'[CopyOf[u]] = u
    BY <1>1, <2>2 DEF CoreConstantsOK
  <2>8. \A u \in Threads \ {t} : ThreadOK(u)'
    BY <1>1, <2>1, <2>7, OthersKept DEF core
  <2> QED
    BY <2>4, <2>5, <2>6, <2>8 DEF FInv
<1> QED
  BY <1>3, <1>4

(* Holding no handle, adding a job: only the step changes.                 *)
LEMMA PlainStep ==
  ASSUME CoreConstantsOK, FInv, NEW t \in Threads, NEW stage \in PCs, Moves(t, stage),
         UNCHANGED <<base, lock, core>>,
         arena' \in [Threads -> Nat \union {None}], \A u \in Threads \ {t} : arena'[u] = arena[u],
         ThreadOK(t)'
  PROVE  FInv'
<1>1. CoreTypeOK' /\ CoreOK' /\ CopiesOK'
  BY MovedPC DEF FInv, CoreTypeOK, CoreOK, CopiesOK, IsUp, core
<1>2. \A u \in Threads \ {t} : ThreadOK(u)'
  BY OthersKept DEF core
<1> QED
  BY <1>1, <1>2 DEF FInv

LEMMA ReleaseStep ==
  ASSUME CoreConstantsOK, FInv, NEW t \in Threads, Release(t)
  PROVE  FInv'
<1>1. /\ Moves(t, "idle") /\ "idle" \in PCs /\ UNCHANGED <<base, lock, core>>
      /\ arena' = [arena EXCEPT ![t] = None]
  BY DEF Release, Goto, Returns, Moves, PCs
<1>2. arena' \in [Threads -> Nat \union {None}] /\ \A u \in Threads \ {t} : arena'[u] = arena[u]
  BY <1>1 DEF FInv, CoreTypeOK
<1>3. ThreadOK(t)'
  BY <1>1, MovedPC DEF FInv, ThreadOK, PluginOK, UserOK, HolderOK, HoldPCs, BuildPCs
<1> QED
  BY <1>1, <1>2, <1>3, PlainStep

LEMMA IsUpStep ==
  ASSUME CoreConstantsOK, FInv, NEW t \in Threads, is_up(t)
  PROVE  FInv'
<1>1. /\ Moves(t, "add") /\ "add" \in PCs /\ UNCHANGED <<base, lock, core, arena>>
      /\ My(t) # None /\ CopyOf[t] \in Copies
  BY DEF is_up, Goto, Moves, PCs, CoreConstantsOK
<1>2. IsUp
  BY <1>1 DEF My, FInv, CopiesOK, IsUp
<1>3. ThreadOK(t)'
  BY <1>1, <1>2, MovedPC DEF FInv, ThreadOK, PluginOK, UserOK, HolderOK, HoldPCs, BuildPCs, IsUp
<1> QED
  BY <1>1, <1>3, PlainStep DEF FInv, CoreTypeOK

LEMMA CoreAddStep ==
  ASSUME CoreConstantsOK, FInv, NEW t \in Threads, add(t)
  PROVE  FInv'
<1>1. Moves(t, "idle") /\ "idle" \in PCs /\ UNCHANGED <<base, lock, core, arena>>
  BY DEF add, Goto, Moves, PCs
<1>2. ThreadOK(t)'
  BY <1>1, MovedPC DEF FInv, ThreadOK, PluginOK, UserOK, HolderOK, HoldPCs, BuildPCs
<1> QED
  BY <1>1, <1>2, PlainStep DEF FInv, CoreTypeOK

-----------------------------------------------------------------------------
(* fl_init.                                                                *)

(* A plugin finds the core up.                                             *)
LEMMA InitStep ==
  ASSUME CoreConstantsOK, FInv, NEW t \in Threads, fl_init(t)
  PROVE  FInv'
<1>1. /\ pc[t] = "init" /\ ThreadOK(t) /\ CopyOf[t] \in Copies /\ lock[CopyOf[t]] = t
      /\ UNCHANGED <<base, lock, s_initialized, s_main_arena, g_global_job_system, pools>>
  BY DEF fl_init, FInv, ThreadOK, HolderOK, HoldPCs, BuildPCs, CoreConstantsOK
<1>2. CASE s_initialized
  <2>1. /\ Moves(t, "store") /\ "store" \in PCs /\ births' = births
        /\ arena' = [arena EXCEPT ![t] = s_main_arena]
    BY <1>2 DEF fl_init, Goto, Returns, Moves, PCs
  <2>2. CopyOf[t] # Host
    BY <1>1, <1>2 DEF ThreadOK, HolderOK
  <2>3. IsUp /\ g_global_job_system # None /\ base[Host] = s_main_arena /\ s_main_arena \in Nat
    BY <1>1, <2>2 DEF ThreadOK, PluginOK, FInv, CoreOK, CoreTypeOK, IsUp
  <2>4. /\ arena' \in [Threads -> Nat \union {None}] /\ arena'[t] = s_main_arena
        /\ \A u \in Threads \ {t} : arena'[u] = arena[u]
    BY <2>1, <2>3 DEF FInv, CoreTypeOK
  <2>5. ThreadOK(t)'
    BY <1>1, <1>2, <2>1, <2>2, <2>3, <2>4, MovedPC
       DEF FInv, ThreadOK, PluginOK, UserOK, HolderOK, HoldPCs, BuildPCs, IsUp
  <2> QED
    BY <1>1, <2>1, <2>4, <2>5, PlainStep DEF core
<1>3. CASE ~s_initialized
  <2>1. /\ Moves(t, "jobs") /\ "jobs" \in PCs /\ births' = births + 1
        /\ arena' = [arena EXCEPT ![t] = births + 1]
    BY <1>3 DEF fl_init, Goto, Returns, Moves, PCs
  <2>2. CopyOf[t] = Host
    BY <1>1, <1>3 DEF ThreadOK, PluginOK, FInv, CoreOK
  <2>3. /\ arena' \in [Threads -> Nat \union {None}] /\ arena'[t] \in Nat /\ births' \in Nat
        /\ \A u \in Threads \ {t} : arena'[u] = arena[u]
    BY <2>1 DEF FInv, CoreTypeOK
  <2>4. CoreTypeOK' /\ CoreOK' /\ CopiesOK'
    BY <1>1, <2>1, <2>3, MovedPC DEF FInv, CoreTypeOK, CoreOK, CopiesOK, IsUp
  <2>5. ThreadOK(t)'
    BY <1>1, <2>1, <2>2, <2>3, MovedPC
       DEF FInv, ThreadOK, PluginOK, UserOK, HolderOK, HoldPCs, BuildPCs, IsUp
  <2>6. \A u \in Threads \ {t} : ThreadOK(u)'
    BY <1>1, <2>1, <2>2, OthersWait DEF HoldPCs
  <2> QED
    BY <2>4, <2>5, <2>6 DEF FInv
<1> QED
  BY <1>2, <1>3

LEMMA JobsCreateStep ==
  ASSUME CoreConstantsOK, FInv, NEW t \in Threads, fl_jobs_create(t)
  PROVE  FInv'
<1>1. /\ pc[t] = "jobs" /\ ThreadOK(t) /\ CopyOf[t] = Host /\ g_global_job_system = None
      /\ UNCHANGED <<base, lock, core, arena>>
  BY DEF fl_jobs_create, FInv, ThreadOK, HolderOK, BuildPCs
<1>2. Moves(t, "spawn") /\ "spawn" \in PCs
  BY <1>1 DEF fl_jobs_create, Goto, Moves, PCs
<1>3. ThreadOK(t)'
  BY <1>1, <1>2, MovedPC
     DEF FInv, ThreadOK, PluginOK, UserOK, HolderOK, HoldPCs, BuildPCs, IsUp, core
<1> QED
  BY <1>1, <1>2, <1>3, PlainStep DEF FInv, CoreTypeOK

LEMMA SpawnStep ==
  ASSUME CoreConstantsOK, FInv, NEW t \in Threads, Spawn(t)
  PROVE  FInv'
<1>1. /\ pc[t] = "spawn" /\ ThreadOK(t) /\ CopyOf[t] = Host /\ arena[t] \in Nat /\ pc[t] \in HoldPCs
      /\ g_global_job_system = None /\ pools = {}
      /\ Moves(t, "finish") /\ "finish" \in PCs
      /\ g_global_job_system' = arena[t] /\ pools' = pools \union {arena[t]}
      /\ UNCHANGED <<base, lock, s_initialized, s_main_arena, births, arena>>
  BY DEF Spawn, Goto, Moves, PCs, FInv, ThreadOK, HolderOK, HoldPCs, BuildPCs, CoreOK
<1>2. ~IsUp /\ lock[Host] # None /\ arena[t] # None
  BY <1>1, AloneWithLock DEF CoreConstantsOK
<1>3. CoreTypeOK' /\ CoreOK' /\ CopiesOK'
  BY <1>1, <1>2, MovedPC DEF FInv, CoreTypeOK, CoreOK, CopiesOK, IsUp
<1>4. ThreadOK(t)'
  BY <1>1, <1>2, MovedPC DEF FInv, ThreadOK, PluginOK, UserOK, HolderOK, HoldPCs, BuildPCs, IsUp
<1>5. \A u \in Threads \ {t} : ThreadOK(u)'
  BY <1>1, OthersWait
<1> QED
  BY <1>3, <1>4, <1>5 DEF FInv

LEMMA FinishStep ==
  ASSUME CoreConstantsOK, FInv, NEW t \in Threads, Finish(t)
  PROVE  FInv'
<1>1. /\ pc[t] = "finish" /\ ThreadOK(t) /\ CopyOf[t] = Host /\ arena[t] \in Nat /\ pc[t] \in HoldPCs
      /\ g_global_job_system # None
      /\ Moves(t, "store") /\ "store" \in PCs
      /\ s_initialized' = TRUE /\ s_main_arena' = arena[t]
      /\ UNCHANGED <<base, lock, g_global_job_system, pools, births, arena>>
  BY DEF Finish, Goto, Moves, PCs, FInv, ThreadOK, HolderOK, HoldPCs, BuildPCs
<1>2. ~IsUp /\ lock[Host] # None
  BY <1>1, AloneWithLock
<1>3. CoreTypeOK' /\ CoreOK' /\ CopiesOK'
  BY <1>1, <1>2, MovedPC DEF FInv, CoreTypeOK, CoreOK, CopiesOK, IsUp
<1>4. ThreadOK(t)'
  BY <1>1, <1>2, MovedPC DEF FInv, ThreadOK, PluginOK, UserOK, HolderOK, HoldPCs, BuildPCs, IsUp
<1>5. \A u \in Threads \ {t} : ThreadOK(u)'
  BY <1>1, OthersWait
<1> QED
  BY <1>3, <1>4, <1>5 DEF FInv

(* The host publishes a new base; a plugin takes that of the host.         *)
LEMMA CoreStoreStep ==
  ASSUME CoreConstantsOK, FInv, NEW t \in Threads, Store(t)
  PROVE  FInv'
<1>1. /\ pc[t] = "store" /\ ThreadOK(t) /\ CopyOf[t] \in Copies /\ pc[t] \in HoldPCs
      /\ arena[t] \in Nat /\ arena[t] # None /\ arena[t] = s_main_arena
      /\ s_initialized /\ g_global_job_system # None /\ lock[CopyOf[t]] = t
      /\ Moves(t, "up") /\ "up" \in PCs
      /\ base' = [base EXCEPT ![CopyOf[t]] = arena[t]] /\ lock' = [lock EXCEPT ![CopyOf[t]] = None]
      /\ UNCHANGED <<core, arena>>
  BY DEF Store, Goto, Unlock, Moves, PCs, FInv, ThreadOK, HolderOK, HoldPCs, BuildPCs, CoreConstantsOK
<1>2. /\ base' \in [Copies -> Nat \union {None}] /\ lock' \in [Copies -> Threads \union {None}]
      /\ base'[CopyOf[t]] = arena[t] /\ lock'[CopyOf[t]] = None
      /\ \A c \in Copies \ {CopyOf[t]} : base'[c] = base[c] /\ lock'[c] = lock[c]
  BY <1>1 DEF FInv, CoreTypeOK
<1>3. base'[Host] = s_main_arena /\ base'[Host] # None /\ (CopyOf[t] # Host => base'[Host] = base[Host])
  <2>1. CASE CopyOf[t] = Host
    BY <1>1, <1>2, <2>1
  <2>2. CASE CopyOf[t] # Host
    <3>1. base[Host] # None /\ base[Host] = s_main_arena /\ Host \in Copies
      BY <1>1, <2>2 DEF ThreadOK, PluginOK, FInv, CoreOK, IsUp, CoreConstantsOK
    <3> QED
      BY <1>2, <2>2, <3>1
  <2> QED
    BY <2>1, <2>2
<1>4. CoreTypeOK' /\ CoreOK'
  BY <1>1, <1>2, <1>3, MovedPC DEF FInv, CoreTypeOK, CoreOK, IsUp, core
<1>5. CopiesOK'
  <2> SUFFICES ASSUME NEW c \in Copies, base'[c] # None
               PROVE  base'[c] = base'[Host]
    BY DEF CopiesOK
  <2>1. CASE c = CopyOf[t]
    BY <1>1, <1>2, <1>3, <2>1
  <2>2. CASE c # CopyOf[t]
    <3>1. base[c] # None /\ base'[c] = base[c] /\ base[c] = base[Host] /\ IsUp
      BY <1>2, <2>2 DEF FInv, CopiesOK, IsUp
    <3>2. base[Host] = s_main_arena
      BY <3>1 DEF FInv, CoreOK
    <3> QED
      BY <1>3, <3>1, <3>2
  <2> QED
    BY <2>1, <2>2
<1>6. ThreadOK(t)'
  BY <1>1, <1>3, MovedPC DEF FInv, ThreadOK, PluginOK, UserOK, HolderOK, HoldPCs, BuildPCs, IsUp, core
<1>7. \A u \in Threads \ {t} : ThreadOK(u)'
  <2>1. CASE CopyOf[t] = Host
    BY <1>1, <2>1, OthersWait
  <2>2. CASE CopyOf[t] # Host
    <3>1. \A u \in Threads \ {t} : lock[CopyOf[u]] = u => lock'[CopyOf[u]] = u
      BY <1>1, <1>2 DEF CoreConstantsOK
    <3> QED
      BY <1>1, <1>3, <2>2, <3>1, OthersKept DEF core
  <2> QED
    BY <2>1, <2>2
<1> QED
  BY <1>4, <1>5, <1>6, <1>7 DEF FInv

-----------------------------------------------------------------------------
(* shutdown, fl_destroy and plugins that go.                               *)

LEMMA ShutdownStep ==
  ASSUME CoreConstantsOK, FInv, NEW t \in Threads, shutdown(t)
  PROVE  FInv'
<1>1. /\ \A u \in Threads : pc[u] = "idle"
      /\ \A c \in Copies \ {CopyOf[t]} : base[c] = None
      /\ CopyOf[t] \in Copies /\ Host \in Copies
      /\ base' = [base EXCEPT ![CopyOf[t]] = None]
      /\ UNCHANGED <<core, arena>>
  BY DEF shutdown, CoreConstantsOK
<1>2. /\ base' \in [Copies -> Nat \union {None}] /\ \A c \in Copies : base'[c] = None
  BY <1>1 DEF FInv, CoreTypeOK
<1>3. CASE My(t) = None
  <2>1. lock' = lock /\ pc' = pc /\ ~IsUp
    BY <1>1, <1>3 DEF shutdown, My, IsUp
  <2>2. CoreTypeOK' /\ CoreOK' /\ CopiesOK'
    BY <1>1, <1>2, <2>1 DEF FInv, CoreTypeOK, CoreOK, CopiesOK, IsUp, core
  <2>3. \A u \in Threads : ThreadOK(u)'
    BY <1>1, <2>1 DEF ThreadOK, PluginOK, UserOK, HolderOK, HoldPCs, BuildPCs
  <2> QED
    BY <2>2, <2>3 DEF FInv
<1>4. CASE My(t) # None
  <2>1. /\ lock' = [lock EXCEPT ![CopyOf[t]] = t] /\ Moves(t, "destroy") /\ "destroy" \in PCs
    BY <1>4 DEF shutdown, Goto, Moves, PCs
  <2>2. IsUp /\ CopyOf[t] = Host
    BY <1>1, <1>4 DEF My, FInv, CopiesOK, IsUp
  <2>3. lock' \in [Copies -> Threads \union {None}] /\ lock'[Host] = t /\ t # None
    BY <1>1, <2>1, <2>2 DEF FInv, CoreTypeOK, CoreConstantsOK
  <2>4. s_initialized /\ g_global_job_system # None
    BY <2>2 DEF FInv, CoreOK
  <2>5. CoreTypeOK' /\ CoreOK' /\ CopiesOK'
    BY <1>1, <1>2, <2>1, <2>3, MovedPC DEF FInv, CoreTypeOK, CoreOK, CopiesOK, IsUp, core
  <2>6. ThreadOK(t)'
    BY <1>1, <1>2, <2>1, <2>2, <2>3, <2>4, MovedPC
       DEF FInv, ThreadOK, PluginOK, UserOK, HolderOK, HoldPCs, BuildPCs, IsUp, core
  <2>7. \A u \in Threads \ {t} : ThreadOK(u)'
    BY <1>1, <2>1, MovedPC DEF FInv, ThreadOK, PluginOK, UserOK, HolderOK, HoldPCs, BuildPCs
  <2> QED
    BY <2>5, <2>6, <2>7 DEF FInv
<1> QED
  BY <1>3, <1>4

LEMMA JobsDestroyStep ==
  ASSUME CoreConstantsOK, FInv, NEW t \in Threads, fl_jobs_destroy(t)
  PROVE  FInv'
<1>1. /\ pc[t] = "destroy" /\ ThreadOK(t) /\ CopyOf[t] = Host /\ pc[t] \in HoldPCs
      /\ g_global_job_system # None /\ pools = {g_global_job_system}
      /\ Moves(t, "forget") /\ "forget" \in PCs
      /\ pools' = pools \ {g_global_job_system} /\ g_global_job_system' = None
      /\ UNCHANGED <<base, lock, s_initialized, s_main_arena, births, arena>>
  BY DEF fl_jobs_destroy, Goto, Moves, PCs, FInv, ThreadOK, HolderOK, HoldPCs, BuildPCs, CoreOK
<1>2. ~IsUp /\ lock[Host] # None
  BY <1>1, AloneWithLock
<1>3. CoreTypeOK' /\ CoreOK' /\ CopiesOK'
  BY <1>1, <1>2, MovedPC DEF FInv, CoreTypeOK, CoreOK, CopiesOK, IsUp
<1>4. ThreadOK(t)'
  BY <1>1, <1>2, MovedPC DEF FInv, ThreadOK, PluginOK, UserOK, HolderOK, HoldPCs, BuildPCs, IsUp
<1>5. \A u \in Threads \ {t} : ThreadOK(u)'
  BY <1>1, OthersWait
<1> QED
  BY <1>3, <1>4, <1>5 DEF FInv

LEMMA CoreDestroyStep ==
  ASSUME CoreConstantsOK, FInv, NEW t \in Threads, fl_destroy(t)
  PROVE  FInv'
<1>1. /\ pc[t] = "forget" /\ ThreadOK(t) /\ CopyOf[t] = Host /\ pc[t] \in HoldPCs
      /\ g_global_job_system = None
      /\ Moves(t, "idle") /\ "idle" \in PCs
      /\ s_main_arena' = None /\ s_initialized' = FALSE
      /\ lock' = [lock EXCEPT ![CopyOf[t]] = None]
      /\ UNCHANGED <<base, g_global_job_system, pools, births, arena>>
  BY DEF fl_destroy, Goto, Unlock, Moves, PCs, FInv, ThreadOK, HolderOK, HoldPCs, BuildPCs
<1>2. ~IsUp
  BY <1>1, AloneWithLock
<1>3. CoreTypeOK' /\ CoreOK' /\ CopiesOK'
  BY <1>1, <1>2, MovedPC DEF FInv, CoreTypeOK, CoreOK, CopiesOK, IsUp
<1>4. ThreadOK(t)'
  BY <1>1, MovedPC DEF FInv, ThreadOK, PluginOK, UserOK, HolderOK, HoldPCs, BuildPCs
<1>5. \A u \in Threads \ {t} : ThreadOK(u)'
  BY <1>1, OthersWait
<1> QED
  BY <1>3, <1>4, <1>5 DEF FInv

LEMMA UnloadStep ==
  ASSUME CoreConstantsOK, FInv, NEW c \in Copies, Unload(c)
  PROVE  FInv'
<1>1. /\ c # Host /\ base' = [base EXCEPT ![c] = None] /\ Host \in Copies
      /\ UNCHANGED <<lock, core, pc, arena>>
  BY DEF Unload, CoreConstantsOK
<1>2. /\ base' \in [Copies -> Nat \union {None}] /\ base'[c] = None
      /\ \A d \in Copies \ {c} : base'[d] = base[d]
  BY <1>1 DEF FInv, CoreTypeOK
<1>3. base'[Host] = base[Host]
  BY <1>1, <1>2
<1>4. CoreTypeOK' /\ CoreOK' /\ CopiesOK'
  BY <1>1, <1>2, <1>3 DEF FInv, CoreTypeOK, CoreOK, CopiesOK, IsUp, core
<1>5. \A u \in Threads : ThreadOK(u)'
  BY <1>1, <1>3 DEF FInv, ThreadOK, PluginOK, UserOK, HolderOK, IsUp, core
<1> QED
  BY <1>4, <1>5 DEF FInv

-----------------------------------------------------------------------------
(* The invariant holds.                                                    *)

LEMMA InitInvariant ==
  ASSUME CoreConstantsOK, CoreInit
  PROVE  FInv
<1>1. CoreTypeOK
  BY DEF CoreInit, CoreTypeOK, PCs
<1>2. CoreOK /\ CopiesOK
  BY DEF CoreConstantsOK, CoreInit, CoreOK, CopiesOK, IsUp
<1>3. \A t \in Threads : ThreadOK(t)
  BY DEF CoreInit, ThreadOK, PluginOK, UserOK, HolderOK, HoldPCs, BuildPCs
<1> QED
  BY <1>1, <1>2, <1>3 DEF FInv

LEMMA StepInvariant ==
  ASSUME CoreConstantsOK, FInv, [CoreNext]_core_vars
  PROVE  FInv'
<1>1. ASSUME NEW t \in Threads,
             \/ init_shared(t) \/ Locked(t) \/ fl_init(t) \/ fl_jobs_create(t) \/ Spawn(t) \/ Finish(t)
             \/ Store(t) \/ Release(t) \/ is_up(t) \/ add(t) \/ shutdown(t) \/ fl_jobs_destroy(t)
             \/ fl_destroy(t)
      PROVE  FInv'
  BY <1>1, InitSharedStep, LockedStep, InitStep, JobsCreateStep, SpawnStep, FinishStep, CoreStoreStep,
     ReleaseStep, IsUpStep, CoreAddStep, ShutdownStep, JobsDestroyStep, CoreDestroyStep
<1>2. ASSUME NEW c \in Copies, Unload(c)
      PROVE  FInv'
  BY <1>2, UnloadStep
<1>3. CASE UNCHANGED core_vars
  <2> USE <1>3 DEF core_vars
  <2>1. CoreTypeOK' /\ CoreOK' /\ CopiesOK'
    BY DEF FInv, CoreTypeOK, CoreOK, CopiesOK, IsUp
  <2>2. \A t \in Threads : ThreadOK(t)'
    BY DEF FInv, ThreadOK, PluginOK, UserOK, HolderOK, IsUp
  <2> QED
    BY <2>1, <2>2 DEF FInv
<1> QED
  BY <1>1, <1>2, <1>3 DEF CoreNext

(* InvariantAlways: the core is up or down as the host's base says, and    *)
(* only who holds the host's lock, alone, brings it up or down             *)
(* (core.c:17-96, lib.rs:63-165, jobsys.c:317-323).                        *)
THEOREM CoreInvariantAlways == CoreConstantsOK => (CoreSpec => []FInv)
<1> SUFFICES ASSUME CoreConstantsOK
             PROVE  CoreSpec => []FInv
  OBVIOUS
<1>1. CoreInit => FInv
  BY InitInvariant
<1>2. FInv /\ [CoreNext]_core_vars => FInv'
  BY StepInvariant
<1> QED
  BY <1>1, <1>2, PTL DEF CoreSpec

(* At most one thread brings the core up or down.                          *)
LEMMA OneBuilds ==
  ASSUME CoreConstantsOK, FInv
  PROVE  Cardinality(Building) <= 1
<1>1. \A t \in Threads : t \in Building <=> pc[t] \in BuildPCs
  BY DEF Building, BuildPCs
<1>2. ASSUME NEW t \in Building, NEW u \in Building
      PROVE  t = u
  <2>1. lock[Host] = t /\ lock[Host] = u
    BY <1>1, <1>2 DEF Building, FInv, ThreadOK, HolderOK, HoldPCs
  <2> QED
    BY <2>1
<1>3. CASE Building = {}
  BY <1>3, FS_EmptySet
<1>4. CASE Building # {}
  <2>1. PICK t : Building = {t}
    BY <1>2, <1>4
  <2>2. Cardinality({t}) = 1
    BY FS_Singleton
  <2> QED
    BY <2>1, <2>2
<1> QED
  BY <1>3, <1>4

(* FoundationIsWholeAlways: whoever brings the core up, host or plugin, at *)
(* once or again after a shutdown, gets the one main arena of a core that  *)
(* is completely up; jobs are added to a pool that exists; nobody builds   *)
(* while another does (lib.rs:63-165, core.c:17-96, jobsys.c:317-323).     *)
THEOREM FoundationIsWholeAlways == CoreConstantsOK => (CoreSpec => []FoundationIsWhole)
<1> SUFFICES ASSUME CoreConstantsOK
             PROVE  CoreSpec => []FoundationIsWhole
  OBVIOUS
<1>1. CoreSpec => []FInv
  BY CoreInvariantAlways
<1>2. FInv => FoundationIsWhole
  <2> SUFFICES ASSUME FInv
               PROVE  FoundationIsWhole
    OBVIOUS
  <2>1. IsUp => s_initialized /\ g_global_job_system # None /\ base[Host] = s_main_arena
    BY DEF FInv, CoreOK
  <2>2. \A t \in Threads : /\ pc[t] \in {"up", "add"} => s_initialized /\ g_global_job_system # None
                           /\ pc[t] = "up" => arena[t] = s_main_arena
    BY <2>1 DEF FInv, ThreadOK, UserOK
  <2>3. \A c \in Copies : base[c] # None => s_initialized /\ base[c] = s_main_arena
    BY <2>1 DEF FInv, CopiesOK, IsUp
  <2>4. pools = IF g_global_job_system = None THEN {} ELSE {g_global_job_system}
    BY DEF FInv, CoreOK
  <2> QED
    BY <2>2, <2>3, <2>4, OneBuilds DEF FoundationIsWhole
<1> QED
  BY <1>1, <1>2, PTL

-----------------------------------------------------------------------------
(***************************************************************************)
(* Proofs about FileWatcher, for any capacities, paths, changes and calls: *)
(* a buffer tells what happened or says that it lost something, and the    *)
(* platform's thread works on the watcher it was given.                    *)
(*                                                                         *)
(* The argument: only the platform's thread adds to a buffer, with a time  *)
(* that no buffered change exceeds.  So when a change is taken in by an    *)
(* earlier one of its path, no later one of the path can be in the buffer; *)
(* and a stop that waits for the thread is the only way to lose a slot.    *)
(***************************************************************************)

(* What the proofs ask of the constants.                                   *)
WatcherConstantsOK == Capacity \in Nat /\ Window \in Nat

-----------------------------------------------------------------------------
(* The invariant.                                                          *)

Bits     == (UNION {e[1] : e \in Events}) \cup {"modified"}
Change   == [path : Paths, types : SUBSET Bits, time : Nat]
Callback == [id : Nat, path : Paths]
State ==
  [handle : Nat, is_active : BOOLEAN, platform_data : BOOLEAN, changes : Seq(Change),
   has_overflow : BOOLEAN, callbacks : Seq(Callback), next_callback : Nat,
   owed : [Paths -> SUBSET Bits]]

ArrayOK ==
  /\ watchers.length \in 0..Capacity
  /\ watchers = [capacity |-> Capacity, length |-> watchers.length,
                 data |-> [i \in 0..Capacity - 1 |-> watchers.data[i]]]

(* What a buffer promises, as in ChangesAreKept.                           *)
Truthful(w) == \A p \in Paths : Told(w, p) \subseteq w.owed[p] \cup {"modified"}
Complete(w) == ~w.has_overflow => \A p \in Paths : w.owed[p] \subseteq Told(w, p)
Spaced(w) ==
  \A i, j \in DOMAIN w.changes :
    i < j /\ w.changes[i].path = w.changes[j].path => w.changes[j].time - w.changes[i].time >= Window
Buffered(w) == Truthful(w) /\ Complete(w) /\ Spaced(w)

NoLaterThan(w, t) == \A i \in DOMAIN w.changes : w.changes[i].time <= t

SlotOK(w) == w \in State /\ Buffered(w) /\ NoLaterThan(w, now) /\ w.handle < next_handle

SlotsOK == now \in Nat /\ next_handle \in Nat \ {INVALID} /\ \A s \in Slots : SlotOK(At(s))

HandlesOK == \A s, t \in Live : At(s).handle = At(t).handle => s = t

StoppingOK == stopping = NoSlot \/ stopping \in Live

(* The platform's thread has the watcher it was given, and its time is not *)
(* before that of any change the watcher has.                              *)
Given == platform.slot \in Live /\ At(platform.slot).handle = platform.handle

Adding ==
  /\ platform.pc = "add" /\ Given
  /\ platform.path \in Paths /\ platform.time \in Nat /\ platform.time <= now
  /\ platform.raw \subseteq platform.types /\ platform.types \subseteq Bits
  /\ platform.types \subseteq platform.raw \cup {"modified"}
  /\ NoLaterThan(At(platform.slot), platform.time)

Calling ==
  /\ Given
  /\ platform = [pc |-> "call", slot |-> platform.slot, handle |-> platform.handle,
                 matched |-> platform.matched, calls |-> platform.calls]

PlatformOK == platform = Idle \/ Adding \/ Calling

WInv == ArrayOK /\ SlotsOK /\ HandlesOK /\ StoppingOK /\ PlatformOK

-----------------------------------------------------------------------------
(* Buffers.                                                                *)

LEMMA MinOfNaturals ==
  ASSUME NEW S, S \subseteq Nat, S # {}
  PROVE  Min(S) \in S
<1>1. IsWellFoundedOn({ss \in Nat \X Nat : ss[1] < ss[2]}, Nat)
  BY NatLessThanWellFounded DEF OpToRel
<1>2. PICK x \in S : \A y \in S : ~ (<<y, x>> \in {ss \in Nat \X Nat : ss[1] < ss[2]})
  BY <1>1, WFMin
<1>3. ASSUME NEW y \in S PROVE x =< y
  <2>1. ~ (y < x)
    <3>1. <<y, x>> \in Nat \X Nat /\ <<y, x>>[1] = y /\ <<y, x>>[2] = x
      OBVIOUS
    <3> QED
      BY <1>2, <3>1
  <2> QED
    BY <2>1
<1> QED
  BY <1>2, <1>3 DEF Min

LEMMA ToldMeans ==
  ASSUME NEW w, NEW p
  PROVE  \A x : x \in Told(w, p) <=>
                \E i \in DOMAIN w.changes : w.changes[i].path = p /\ x \in w.changes[i].types
BY DEF Told

(* What Put does: an earlier change of the path grows, the change is lost, *)
(* or it is appended because every change of its path is old.              *)
Grown(w, m, c) ==
  [w EXCEPT !.changes =
     [@ EXCEPT ![m] = [w.changes[m] EXCEPT !.types = @ \cup c.types, !.time = c.time]]]

LEMMA PutMeans ==
  ASSUME Window \in Nat, NEW w \in State, NEW c \in Change
  PROVE  \/ \E m \in DOMAIN w.changes :
              /\ w.changes[m].path = c.path /\ c.time - w.changes[m].time < Window
              /\ Put(w, c) = Grown(w, m, c)
         \/ /\ Recent(w, c.path, c.time) = {}
            /\ Put(w, c) = [w EXCEPT !.has_overflow = TRUE]
         \/ /\ Recent(w, c.path, c.time) = {}
            /\ Put(w, c) = [w EXCEPT !.changes = Append(@, c)]
<1> DEFINE here == Recent(w, c.path, c.time)
<1>1. w.changes \in Seq(Change) /\ DOMAIN w.changes = 1..Len(w.changes) /\ Len(w.changes) \in Nat
  BY LenProperties DEF State
<1>2. CASE here # {}
  <2> DEFINE m == Min(here)
  <2>1. m \in here
    <3>1. here \subseteq Nat
      BY <1>1 DEF Recent
    <3> HIDE DEF here
    <3> QED
      BY <1>2, <3>1, MinOfNaturals
  <2>2. m \in DOMAIN w.changes /\ w.changes[m].path = c.path /\ c.time - w.changes[m].time < Window
    BY <2>1 DEF Recent
  <2>3. w.changes[m] \in Change
    BY <1>1, <2>2, ElementOfSeq
  <2>4. Put(w, c) = [w EXCEPT !.changes[m].types = @ \cup c.types, !.changes[m].time = c.time]
    BY <1>2 DEF Put
  <2> HIDE DEF m
  <2>5. Put(w, c) = Grown(w, m, c)
    BY <1>1, <2>2, <2>4 DEF State, Grown
  <2> QED
    BY <2>2, <2>5
<1>3. CASE here = {}
  BY <1>3 DEF Put
<1> QED
  BY <1>2, <1>3

(* Put keeps what the buffer tells, adds the new change and no other, and  *)
(* says so when it does not.                                               *)
PutKeeps(w, v, c) ==
  /\ v \in State /\ v.handle = w.handle /\ v.owed = w.owed
  /\ Spaced(v) /\ NoLaterThan(v, c.time)
  /\ \A p \in Paths : Told(w, p) \subseteq Told(v, p)
  /\ \A p \in Paths : Told(v, p) \subseteq Told(w, p) \cup (IF p = c.path THEN c.types ELSE {})
  /\ ~v.has_overflow => ~w.has_overflow /\ c.types \subseteq Told(v, c.path)

LEMMA ChangesTyped ==
  ASSUME NEW w \in State
  PROVE  /\ w.changes \in Seq(Change) /\ DOMAIN w.changes = 1..Len(w.changes)
         /\ Len(w.changes) \in Nat
         /\ \A i \in DOMAIN w.changes :
              /\ w.changes[i] \in Change /\ w.changes[i].path \in Paths
              /\ w.changes[i].types \in SUBSET Bits /\ w.changes[i].time \in Nat
<1>1. w.changes \in Seq(Change)
  BY DEF State
<1>2. /\ DOMAIN w.changes = 1..Len(w.changes) /\ Len(w.changes) \in Nat
      /\ w.changes \in [1..Len(w.changes) -> Change]
  BY <1>1, LenProperties
<1>3. \A i \in DOMAIN w.changes : w.changes[i] \in Change
  BY <1>2
<1>4. \A e \in Change : e.path \in Paths /\ e.types \in SUBSET Bits /\ e.time \in Nat
  BY DEF Change
<1> QED
  BY <1>1, <1>2, <1>3, <1>4

LEMMA GrownKeeps ==
  ASSUME Window \in Nat, NEW w \in State, NEW c \in Change, Spaced(w), NoLaterThan(w, c.time),
         NEW m \in DOMAIN w.changes,
         w.changes[m].path = c.path, c.time - w.changes[m].time < Window
  PROVE  PutKeeps(w, Grown(w, m, c), c)
<1> DEFINE v == Grown(w, m, c)
<1> DEFINE old == w.changes
<1> DEFINE e == [old[m] EXCEPT !.types = @ \cup c.types, !.time = c.time]
<1>1. old \in Seq(Change) /\ DOMAIN old = 1..Len(old) /\ Len(old) \in Nat
  BY ChangesTyped
<1>2. /\ \A i \in DOMAIN old : old[i] \in Change /\ old[i].types \in SUBSET Bits /\ old[i].time \in Nat
      /\ m \in DOMAIN old /\ old[m].path = c.path
  BY ChangesTyped
<1>3. c.types \in SUBSET Bits /\ c.time \in Nat
  BY DEF Change
<1> HIDE DEF old
<1>4. e \in Change /\ e.path = c.path /\ e.types = old[m].types \cup c.types /\ e.time = c.time
  <2>1. old[m] \in Change /\ old[m].types \cup c.types \in SUBSET Bits
    BY <1>2, <1>3
  <2> HIDE DEF v
  <2> QED
    BY <1>2, <1>3, <2>1 DEF Change
<1> HIDE DEF e
<1> USE DEF old
<1>5. /\ v \in State /\ v.handle = w.handle /\ v.owed = w.owed /\ v.has_overflow = w.has_overflow
      /\ v.changes = [old EXCEPT ![m] = e]
  <2>1. v = [w EXCEPT !.changes = [old EXCEPT ![m] = e]]
    BY DEF Grown, e, State
  <2>2. [old EXCEPT ![m] = e] \in Seq(Change)
    BY <1>1, <1>4, ExceptSeq
  <2> QED
    BY <2>1, <2>2 DEF State
<1>6. /\ DOMAIN v.changes = DOMAIN old
      /\ \A i \in DOMAIN old : v.changes[i] = IF i = m THEN e ELSE old[i]
  BY <1>1, <1>5
<1> HIDE DEF v, old
<1>7. Spaced(v)
  <2> SUFFICES ASSUME NEW i \in DOMAIN old, NEW j \in DOMAIN old,
                      i < j, v.changes[i].path = v.changes[j].path
               PROVE  v.changes[j].time - v.changes[i].time >= Window
    BY <1>6 DEF Spaced
  <2>1. old[i].path = old[j].path
    BY <1>2, <1>4, <1>6
  <2>2. old[j].time - old[i].time >= Window
    BY <2>1 DEF Spaced, old
  <2>3. i # m
    BY <1>2, <1>3, <2>2 DEF NoLaterThan, old
  <2>4. CASE j = m
    BY <1>2, <1>3, <1>4, <1>6, <2>2, <2>3, <2>4 DEF NoLaterThan, old
  <2>5. CASE j # m
    BY <1>6, <2>2, <2>3, <2>5
  <2> QED
    BY <2>4, <2>5
<1>8. NoLaterThan(v, c.time)
  BY <1>3, <1>4, <1>6 DEF NoLaterThan, old
<1>9. ASSUME NEW p \in Paths
      PROVE  /\ Told(w, p) \subseteq Told(v, p)
             /\ Told(v, p) \subseteq Told(w, p) \cup (IF p = c.path THEN c.types ELSE {})
  BY <1>4, <1>6, ToldMeans DEF old
<1>10. c.types \subseteq Told(v, c.path)
  BY <1>4, <1>6, ToldMeans DEF old
<1> QED
  BY <1>5, <1>7, <1>8, <1>9, <1>10 DEF PutKeeps, v

LEMMA LostKeeps ==
  ASSUME NEW w \in State, NEW c \in Change, Spaced(w), NoLaterThan(w, c.time)
  PROVE  PutKeeps(w, [w EXCEPT !.has_overflow = TRUE], c)
<1> DEFINE v == [w EXCEPT !.has_overflow = TRUE]
<1>1. /\ v \in State /\ v.handle = w.handle /\ v.owed = w.owed /\ v.has_overflow = TRUE
      /\ v.changes = w.changes
  BY DEF State
<1> HIDE DEF v
<1>2. Spaced(v) /\ NoLaterThan(v, c.time) /\ \A p \in Paths : Told(v, p) = Told(w, p)
  BY <1>1 DEF Spaced, NoLaterThan, Told
<1> QED
  BY <1>1, <1>2 DEF PutKeeps, v

LEMMA AppendedKeeps ==
  ASSUME Window \in Nat, NEW w \in State, NEW c \in Change, Spaced(w), NoLaterThan(w, c.time),
         Recent(w, c.path, c.time) = {}
  PROVE  PutKeeps(w, [w EXCEPT !.changes = Append(@, c)], c)
<1> DEFINE v == [w EXCEPT !.changes = Append(@, c)]
<1> DEFINE n == Len(w.changes)
<1>1. w.changes \in Seq(Change) /\ DOMAIN w.changes = 1..n /\ n \in Nat
  BY ChangesTyped
<1>2. \A i \in 1..n : w.changes[i].types \in SUBSET Bits /\ w.changes[i].time \in Nat
  BY <1>1, ChangesTyped
<1>3. c.types \in SUBSET Bits /\ c.time \in Nat
  BY DEF Change
<1>4. /\ v \in State /\ v.handle = w.handle /\ v.owed = w.owed /\ v.has_overflow = w.has_overflow
      /\ v.changes = Append(w.changes, c)
  BY <1>1, AppendProperties DEF State
<1> HIDE DEF v, n
<1>5. /\ DOMAIN v.changes = 1..n + 1 /\ v.changes[n + 1] = c
      /\ \A i \in 1..n : v.changes[i] = w.changes[i]
  <2>1. v.changes \in Seq(Change) /\ Len(v.changes) = n + 1
    BY <1>1, <1>4, AppendProperties DEF n
  <2> QED
    BY <1>1, <1>4, <2>1, AppendProperties, LenProperties DEF n
<1>6. \A i \in 1..n : w.changes[i].path = c.path => c.time - w.changes[i].time >= Window
  BY <1>1, <1>2, <1>3 DEF Recent
<1>7. Spaced(v)
  <2> SUFFICES ASSUME NEW i \in 1..n + 1, NEW j \in 1..n + 1,
                      i < j, v.changes[i].path = v.changes[j].path
               PROVE  v.changes[j].time - v.changes[i].time >= Window
    BY <1>5 DEF Spaced
  <2>1. CASE j = n + 1
    BY <1>1, <1>5, <1>6, <2>1
  <2>2. CASE j # n + 1
    <3>1. i \in 1..n /\ j \in 1..n
      BY <1>1, <2>2
    <3>2. w.changes[i].path = w.changes[j].path
      BY <1>5, <3>1
    <3>3. w.changes[j].time - w.changes[i].time >= Window
      BY <1>1, <3>1, <3>2 DEF Spaced
    <3> QED
      BY <1>5, <3>1, <3>3
  <2> QED
    BY <2>1, <2>2
<1>8. NoLaterThan(v, c.time)
  BY <1>1, <1>3, <1>5 DEF NoLaterThan
<1>9. ASSUME NEW p \in Paths
      PROVE  /\ Told(w, p) \subseteq Told(v, p)
             /\ Told(v, p) \subseteq Told(w, p) \cup (IF p = c.path THEN c.types ELSE {})
  <2>1. ASSUME NEW x \in Told(w, p) PROVE x \in Told(v, p)
    <3>1. PICK i \in 1..n : w.changes[i].path = p /\ x \in w.changes[i].types
      BY <1>1, ToldMeans
    <3>2. i \in 1..n + 1 /\ v.changes[i] = w.changes[i]
      BY <1>1, <1>5
    <3> QED
      BY <3>1, <3>2, <1>5, ToldMeans
  <2>2. ASSUME NEW x \in Told(v, p) PROVE x \in Told(w, p) \/ (p = c.path /\ x \in c.types)
    <3>1. PICK i \in DOMAIN v.changes : v.changes[i].path = p /\ x \in v.changes[i].types
      BY <2>2, ToldMeans, Zenon
    <3>2. i \in 1..n + 1
      BY <1>5
    <3>3. CASE i = n + 1
      BY <3>1, <3>3, <1>5
    <3>4. CASE i # n + 1
      <4>1. i \in DOMAIN w.changes /\ v.changes[i] = w.changes[i]
        BY <1>1, <1>5, <3>2, <3>4
      <4> QED
        BY <3>1, <4>1, ToldMeans
    <3> QED
      BY <3>3, <3>4
  <2> QED
    BY <2>1, <2>2
<1>10. c.types \subseteq Told(v, c.path)
  BY <1>1, <1>5, ToldMeans
<1> QED
  BY <1>4, <1>7, <1>8, <1>9, <1>10 DEF PutKeeps, v

(* So a change that is stored and owed leaves the buffer true.             *)
LEMMA StoredBuffered ==
  ASSUME Window \in Nat, NEW w \in State, NEW c \in Change, Buffered(w), NoLaterThan(w, c.time),
         NEW raw, raw \subseteq c.types, c.types \subseteq raw \cup {"modified"}
  PROVE  LET new == [Put(w, c) EXCEPT !.owed[c.path] = @ \cup raw]
         IN  new \in State /\ Buffered(new) /\ NoLaterThan(new, c.time) /\ new.handle = w.handle
<1> DEFINE v == Put(w, c)
<1> DEFINE new == [v EXCEPT !.owed[c.path] = @ \cup raw]
<1>1. PutKeeps(w, v, c)
  <2>1. Spaced(w)
    BY DEF Buffered
  <2> QED
    BY <2>1, PutMeans, GrownKeeps, LostKeeps, AppendedKeeps
<1> HIDE DEF v
<1>2. v \in State /\ v.owed = w.owed /\ v.owed \in [Paths -> SUBSET Bits]
  BY <1>1 DEF PutKeeps, State
<1>3. c.path \in Paths /\ raw \in SUBSET Bits
  BY DEF Change
<1>4. /\ new \in State /\ new.handle = v.handle /\ new.changes = v.changes
      /\ new.has_overflow = v.has_overflow
      /\ new.owed = [v.owed EXCEPT ![c.path] = @ \cup raw]
  <2>1. new = [v EXCEPT !.owed = [v.owed EXCEPT ![c.path] = @ \cup raw]]
    BY <1>2 DEF State
  <2>2. [v.owed EXCEPT ![c.path] = @ \cup raw] \in [Paths -> SUBSET Bits]
    BY <1>2, <1>3
  <2> QED
    BY <1>2, <2>1, <2>2 DEF State
<1> HIDE DEF new
<1>5. \A p \in Paths : new.owed[p] = IF p = c.path THEN w.owed[p] \cup raw ELSE w.owed[p]
  BY <1>2, <1>4
<1>6. Spaced(new) /\ NoLaterThan(new, c.time) /\ \A p \in Paths : Told(new, p) = Told(v, p)
  BY <1>1, <1>4 DEF PutKeeps, Spaced, NoLaterThan, Told
<1>7. Truthful(new)
  <2> SUFFICES ASSUME NEW p \in Paths
               PROVE  Told(v, p) \subseteq new.owed[p] \cup {"modified"}
    BY <1>6 DEF Truthful
  <2>1. Told(w, p) \subseteq w.owed[p] \cup {"modified"}
    BY DEF Buffered, Truthful
  <2>2. Told(v, p) \subseteq Told(w, p) \cup (IF p = c.path THEN c.types ELSE {})
    BY <1>1 DEF PutKeeps
  <2> QED
    BY <1>5, <2>1, <2>2
<1>8. Complete(new)
  <2> SUFFICES ASSUME ~v.has_overflow, NEW p \in Paths
               PROVE  new.owed[p] \subseteq Told(v, p)
    BY <1>4, <1>6 DEF Complete
  <2>1. ~w.has_overflow /\ c.types \subseteq Told(v, c.path) /\ Told(w, p) \subseteq Told(v, p)
    BY <1>1 DEF PutKeeps
  <2>2. w.owed[p] \subseteq Told(w, p)
    BY <2>1 DEF Buffered, Complete
  <2> QED
    BY <1>5, <2>1, <2>2
<1> QED
  BY <1>1, <1>4, <1>6, <1>7, <1>8 DEF Buffered, PutKeeps, new, v

(* What the API leaves in a buffer: what was there, or nothing.            *)
SameBuffer(w, v) == v.changes = w.changes /\ v.has_overflow = w.has_overflow /\ v.owed = w.owed
Emptied(v) == v.changes = << >> /\ ~v.has_overflow /\ v.owed = NoChanges

LEMMA KeptBuffered ==
  ASSUME NEW w, NEW v, SameBuffer(w, v), Buffered(w)
  PROVE  Buffered(v) /\ \A t : NoLaterThan(w, t) => NoLaterThan(v, t)
BY DEF SameBuffer, Buffered, Truthful, Complete, Spaced, NoLaterThan, Told

LEMMA EmptyBuffered ==
  ASSUME NEW v, Emptied(v)
  PROVE  Buffered(v) /\ \A t : NoLaterThan(v, t)
<1>1. DOMAIN v.changes = {}
  BY DEF Emptied
<1>2. \A p \in Paths : Told(v, p) = {} /\ v.owed[p] = {}
  BY <1>1, ToldMeans DEF Emptied, NoChanges
<1> QED
  BY <1>1, <1>2 DEF Buffered, Truthful, Complete, Spaced, NoLaterThan

LEMMA NewStateMeans ==
  ASSUME NEW h \in Nat
  PROVE  NewState(h) \in State /\ NewState(h).handle = h /\ Emptied(NewState(h))
<1>1. << >> \in Seq(Change) /\ << >> \in Seq(Callback) /\ NoChanges \in [Paths -> SUBSET Bits]
  BY EmptySeq DEF NoChanges
<1> QED
  BY <1>1 DEF NewState, State, Emptied

-----------------------------------------------------------------------------
(* Slots.                                                                  *)

LEMMA UpdateMeans ==
  ASSUME WatcherConstantsOK, ArrayOK, NEW s \in Slots, NEW w, Update(s, w)
  PROVE  /\ ArrayOK' /\ Slots' = Slots /\ At(s)' = w
         /\ \A t \in Slots \ {s} : At(t)' = At(t)
<1>1. s \in 0..Capacity - 1 /\ \A t \in Slots : t \in 0..Capacity - 1
  BY DEF ArrayOK, Slots, WatcherConstantsOK
<1>2. /\ watchers'.length = watchers.length /\ watchers'.capacity = Capacity
      /\ watchers'.data = [i \in 0..Capacity - 1 |-> IF i = s THEN w ELSE watchers.data[i]]
      /\ watchers' = [capacity |-> watchers'.capacity, length |-> watchers'.length,
                      data |-> watchers'.data]
  <2>1. watchers' = [watchers EXCEPT !.data = [watchers.data EXCEPT ![s] = w]]
    BY DEF Update
  <2>2. PICK d : watchers = [capacity |-> Capacity, length |-> watchers.length, data |-> d]
                 /\ d = [i \in 0..Capacity - 1 |-> watchers.data[i]]
    BY DEF ArrayOK
  <2>3. watchers.data = d /\ watchers.capacity = Capacity
    BY <2>2
  <2>4. watchers' = [capacity |-> Capacity, length |-> watchers.length,
                     data |-> [watchers.data EXCEPT ![s] = w]]
    BY <2>1, <2>2, <2>3
  <2>5. [watchers.data EXCEPT ![s] = w] = [i \in 0..Capacity - 1 |-> IF i = s THEN w ELSE watchers.data[i]]
    BY <2>2, <2>3
  <2> QED
    BY <2>4, <2>5
<1>3. watchers'.data = [i \in 0..Capacity - 1 |-> watchers'.data[i]]
  BY <1>2
<1>4. ArrayOK'
  BY <1>2, <1>3 DEF ArrayOK
<1> QED
  BY <1>1, <1>2, <1>4 DEF Slots, At

(* A watcher that keeps its handle leaves the registry as it is.           *)
LEMMA Touch ==
  ASSUME WatcherConstantsOK, WInv, NEW s \in Live, NEW w \in State, w.handle = At(s).handle,
         Buffered(w), NoLaterThan(w, now), Update(s, w), UNCHANGED <<next_handle, stopping, now>>
  PROVE  /\ ArrayOK' /\ SlotsOK' /\ HandlesOK' /\ StoppingOK' /\ Live' = Live
         /\ \A t \in Slots : At(t)'.handle = At(t).handle
         /\ At(s)' = w /\ \A t \in Slots \ {s} : At(t)' = At(t)
<1>1. s \in Slots
  BY DEF Live
<1>2. /\ ArrayOK' /\ Slots' = Slots /\ At(s)' = w
      /\ \A t \in Slots \ {s} : At(t)' = At(t)
  BY <1>1, UpdateMeans DEF WInv
<1>3. \A t \in Slots : At(t)'.handle = At(t).handle
  BY <1>2
<1>4. Live' = Live
  BY <1>2, <1>3 DEF Live, At
<1>5. SlotsOK'
  <2> SUFFICES ASSUME NEW t \in Slots PROVE SlotOK(At(t))'
    BY <1>2 DEF WInv, SlotsOK
  <2>1. SlotOK(At(t))
    BY DEF WInv, SlotsOK
  <2>2. CASE t = s
    BY <1>1, <1>2, <2>1, <2>2 DEF SlotOK
  <2>3. CASE t # s
    BY <1>2, <2>1, <2>3 DEF SlotOK
  <2> QED
    BY <2>2, <2>3
<1>6. HandlesOK' /\ StoppingOK'
  BY <1>3, <1>4 DEF WInv, HandlesOK, StoppingOK, Live
<1> QED
  BY <1>2, <1>3, <1>4, <1>5, <1>6

(* A call of the API moves no change to a later time.                      *)
LEMMA ApiStep ==
  ASSUME WatcherConstantsOK, WInv, NEW s \in Live, NEW w \in State, w.handle = At(s).handle,
         Emptied(w) \/ SameBuffer(At(s), w), Update(s, w),
         UNCHANGED <<next_handle, stopping, now, platform>>
  PROVE  WInv'
<1>1. s \in Slots /\ SlotOK(At(s))
  BY DEF Live, WInv, SlotsOK
<1>2. Buffered(w) /\ \A t : NoLaterThan(At(s), t) => NoLaterThan(w, t)
  BY <1>1, KeptBuffered, EmptyBuffered DEF SlotOK
<1>3. NoLaterThan(w, now)
  BY <1>1, <1>2 DEF SlotOK
<1>4. /\ ArrayOK' /\ SlotsOK' /\ HandlesOK' /\ StoppingOK' /\ Live' = Live
      /\ \A t \in Slots : At(t)'.handle = At(t).handle
      /\ At(s)' = w /\ \A t \in Slots \ {s} : At(t)' = At(t)
  BY <1>2, <1>3, Touch
<1>5. Given => Given'
  BY <1>4 DEF Given, Live
<1>6. Adding => Adding'
  <2> SUFFICES ASSUME Adding PROVE Adding'
    OBVIOUS
  <2>1. NoLaterThan(At(platform.slot), platform.time) /\ platform.slot \in Slots
    BY DEF Adding, Given, Live
  <2>2. CASE platform.slot = s
    BY <1>2, <1>4, <1>5, <2>1, <2>2 DEF Adding
  <2>3. CASE platform.slot # s
    BY <1>4, <1>5, <2>1, <2>3 DEF Adding
  <2> QED
    BY <2>2, <2>3
<1>7. Calling => Calling'
  BY <1>5 DEF Calling
<1> QED
  BY <1>4, <1>6, <1>7 DEF WInv, PlatformOK

-----------------------------------------------------------------------------
(* Starting and stopping.                                                  *)

(* A new watcher comes to a slot that no watcher lives in.                 *)
LEMMA Placed ==
  ASSUME WatcherConstantsOK, WInv, NEW s, s \in Slots', s \notin Live, NEW w \in State, Emptied(w),
         w.handle \in {INVALID, next_handle}, ArrayOK', Slots \subseteq Slots', At(s)' = w,
         \A t \in Slots' \ {s} : t \in Slots /\ At(t)' = At(t),
         next_handle' = next_handle + 1, CanFind, UNCHANGED <<stopping, now, platform>>
  PROVE  WInv'
<1>1. Buffered(w) /\ \A t : NoLaterThan(w, t)
  BY EmptyBuffered
<1>2. next_handle \in Nat /\ next_handle' \in Nat \ {INVALID} /\ next_handle < next_handle'
  BY DEF WInv, SlotsOK, INVALID
<1>3. SlotsOK'
  <2> SUFFICES ASSUME NEW t \in Slots' PROVE SlotOK(At(t))'
    BY <1>2 DEF WInv, SlotsOK
  <2>1. CASE t = s
    BY <1>1, <1>2, <2>1 DEF SlotOK, INVALID
  <2>2. CASE t # s
    <3>1. SlotOK(At(t)) /\ At(t)' = At(t) /\ At(t).handle \in Nat
      BY <2>2 DEF WInv, SlotsOK, SlotOK, State
    <3> QED
      BY <1>2, <3>1 DEF SlotOK
  <2> QED
    BY <2>1, <2>2
<1>4. \A t \in Live : t \in Live' /\ t # s /\ At(t)' = At(t)
  BY DEF Live, At
<1>5. \A t \in Live' \ {s} : t \in Live /\ At(t)' = At(t)
  BY DEF Live, At
<1>6. \A t \in Live : At(t).handle < next_handle
  BY DEF Live, WInv, SlotsOK, SlotOK
<1>7. HandlesOK'
  <2> SUFFICES ASSUME NEW t \in Live', NEW u \in Live', At(t)'.handle = At(u)'.handle
               PROVE  t = u
    BY DEF HandlesOK
  <2>1. s \in Live' => At(s)'.handle = next_handle
    BY DEF Live, At, INVALID
  <2>2. CASE t # s /\ u # s
    BY <1>5, <2>2 DEF WInv, HandlesOK
  <2>3. CASE t = s \/ u = s
    BY <1>2, <1>5, <1>6, <2>1, <2>3
  <2> QED
    BY <2>2, <2>3
<1>8. StoppingOK'
  BY DEF CanFind, StoppingOK
<1>9. PlatformOK'
  BY <1>4 DEF WInv, PlatformOK, Given, Adding, Calling
<1> QED
  BY <1>3, <1>7, <1>8, <1>9 DEF WInv

LEMMA StartStep ==
  ASSUME WatcherConstantsOK, WInv, NEW refused \in BOOLEAN, file_watcher_start(refused)
  PROVE  WInv'
<1>1. PICK w : w = IF refused
                   THEN [NewState(INVALID) EXCEPT !.is_active = FALSE, !.platform_data = FALSE]
                   ELSE NewState(next_handle)
  OBVIOUS
<1>2. w \in State /\ Emptied(w) /\ w.handle \in {INVALID, next_handle}
  <2>1. INVALID \in Nat /\ next_handle \in Nat
    BY DEF INVALID, WInv, SlotsOK
  <2>2. CASE refused
    <3>1. NewState(INVALID) \in State /\ NewState(INVALID).handle = INVALID /\ Emptied(NewState(INVALID))
      BY <2>1, NewStateMeans
    <3>2. w = [NewState(INVALID) EXCEPT !.is_active = FALSE, !.platform_data = FALSE]
      BY <1>1, <2>2
    <3> QED
      BY <3>1, <3>2 DEF State, Emptied
  <2>3. CASE ~refused
    BY <1>1, <2>1, <2>3, NewStateMeans
  <2> QED
    BY <2>2, <2>3
<1>3. /\ next_handle' = next_handle + 1 /\ CanFind /\ UNCHANGED <<stopping, now, platform>>
      /\ IF Tombstones # {} THEN Update(Min(Tombstones), w)
         ELSE watchers.length < watchers.capacity /\ watchers' = fixed_array_add_raw(watchers, w)
  BY <1>1 DEF file_watcher_start
<1>4. CASE Tombstones # {}
  <2>1. Tombstones \subseteq Nat
    BY DEF Tombstones, Slots, WInv, ArrayOK
  <2>2. PICK s \in Slots : s \notin Live /\ s = Min(Tombstones)
    BY <1>4, <2>1, MinOfNaturals DEF Tombstones
  <2>3. Update(s, w)
    BY <1>3, <1>4, <2>2
  <2>4. /\ ArrayOK' /\ Slots' = Slots /\ At(s)' = w
        /\ \A t \in Slots \ {s} : At(t)' = At(t)
    BY <2>2, <2>3, UpdateMeans DEF WInv
  <2> QED
    BY <1>2, <1>3, <2>2, <2>4, Placed
<1>5. CASE Tombstones = {}
  <2> PICK s : s = watchers.length
    OBVIOUS
  <2>1. watchers.capacity = Capacity /\ s \in 0..Capacity - 1 /\ s \notin Slots
    BY <1>3, <1>5 DEF WInv, ArrayOK, Slots, WatcherConstantsOK
  <2>2. watchers' = [watchers EXCEPT !.data = [watchers.data EXCEPT ![s] = w], !.length = @ + 1]
    BY <1>3, <1>5, <2>1 DEF fixed_array_add_raw, WatcherConstantsOK
  <2>3. PICK d : watchers = [capacity |-> Capacity, length |-> watchers.length, data |-> d]
                 /\ d = [i \in 0..Capacity - 1 |-> watchers.data[i]]
    BY DEF WInv, ArrayOK
  <2>4. watchers.data = d
    BY <2>3
  <2>5. watchers' = [capacity |-> Capacity, length |-> s + 1, data |-> [watchers.data EXCEPT ![s] = w]]
    <3>1. watchers' = [[watchers EXCEPT !.data = [watchers.data EXCEPT ![s] = w]] EXCEPT !.length = s + 1]
      BY <2>2
    <3>2. PICK e : e = [watchers.data EXCEPT ![s] = w]
      OBVIOUS
    <3>3. [watchers EXCEPT !.data = e] = [capacity |-> Capacity, length |-> s, data |-> e]
      BY <2>3
    <3> QED
      BY <3>1, <3>2, <3>3
  <2>6. [watchers.data EXCEPT ![s] = w] = [i \in 0..Capacity - 1 |-> IF i = s THEN w ELSE watchers.data[i]]
    BY <2>3, <2>4
  <2>7. /\ watchers'.length = s + 1 /\ watchers'.capacity = Capacity
        /\ watchers'.data = [i \in 0..Capacity - 1 |-> IF i = s THEN w ELSE watchers.data[i]]
        /\ watchers' = [capacity |-> Capacity, length |-> watchers'.length, data |-> watchers'.data]
    BY <2>5, <2>6
  <2>8. watchers'.data = [i \in 0..Capacity - 1 |-> watchers'.data[i]]
    BY <2>7
  <2>9. ArrayOK'
    BY <2>1, <2>7, <2>8 DEF ArrayOK, WatcherConstantsOK
  <2>10. /\ s \in Slots' /\ Slots \subseteq Slots' /\ At(s)' = w
         /\ \A t \in Slots' \ {s} : t \in Slots /\ At(t)' = At(t)
    BY <2>1, <2>7 DEF Slots, At, WatcherConstantsOK
  <2>11. s \notin Live
    BY <2>1 DEF Live
  <2> QED
    BY <1>2, <1>3, <2>9, <2>10, <2>11, Placed
<1> QED
  BY <1>4, <1>5

LEMMA StopStep ==
  ASSUME WInv, NEW s \in Live, file_watcher_stop(s)
  PROVE  WInv'
<1>1. stopping' = s /\ UNCHANGED <<watchers, next_handle, now, platform>>
  BY DEF file_watcher_stop
<1>2. ArrayOK' /\ SlotsOK' /\ HandlesOK' /\ Live' = Live
  BY <1>1 DEF WInv, ArrayOK, SlotsOK, SlotOK, Slots, HandlesOK, Live, At
<1>3. PlatformOK'
  BY <1>1, <1>2 DEF WInv, PlatformOK, Given, Adding, Calling, At
<1> QED
  BY <1>1, <1>2, <1>3 DEF WInv, StoppingOK

(* The thread does not work on the slot that goes.                         *)
LEMMA WatcherDestroyStep ==
  ASSUME WatcherConstantsOK, WInv, destroy_watcher_state
  PROVE  WInv'
<1> DEFINE s == stopping
<1> DEFINE w == [At(s) EXCEPT !.handle = INVALID, !.is_active = FALSE, !.platform_data = FALSE]
<1>1. /\ s \in Live /\ s \in Slots /\ ~WorksOn(s) /\ Update(s, w) /\ stopping' = NoSlot
      /\ UNCHANGED <<next_handle, now, platform>>
  BY DEF destroy_watcher_state, Tombstone, WInv, StoppingOK, Live
<1>2. SlotOK(At(s))
  BY <1>1 DEF WInv, SlotsOK
<1>3. w \in State /\ w.handle = INVALID /\ SameBuffer(At(s), w)
  <2>1. At(s) \in State
    BY <1>2 DEF SlotOK
  <2> QED
    BY <2>1 DEF State, SameBuffer, INVALID
<1> HIDE DEF w
<1>4. Buffered(w) /\ NoLaterThan(w, now)
  BY <1>2, <1>3, KeptBuffered DEF SlotOK
<1>5. PICK k \in Slots : k = stopping
  BY <1>1
<1>6. /\ ArrayOK' /\ Slots' = Slots /\ At(k)' = w
      /\ \A t \in Slots \ {k} : At(t)' = At(t)
  BY <1>1, <1>5, UpdateMeans DEF WInv
<1>7. SlotsOK'
  <2> SUFFICES ASSUME NEW t \in Slots PROVE SlotOK(At(t))'
    BY <1>1, <1>6 DEF WInv, SlotsOK
  <2>1. CASE t = k
    BY <1>1, <1>3, <1>4, <1>6, <2>1 DEF SlotOK, WInv, SlotsOK, INVALID
  <2>2. CASE t # k
    BY <1>1, <1>6, <2>2 DEF SlotOK, WInv, SlotsOK
  <2> QED
    BY <2>1, <2>2
<1>8. /\ \A t \in Live' : t \in Live /\ At(t)' = At(t)
      /\ \A t \in Live \ {k} : t \in Live' /\ At(t)' = At(t)
  BY <1>3, <1>6 DEF Live, At
<1>9. HandlesOK' /\ StoppingOK'
  BY <1>1, <1>8 DEF WInv, HandlesOK, StoppingOK
<1>10. platform # Idle => platform.slot \in Live \ {k} /\ platform.pc # "idle"
  BY <1>1, <1>5 DEF WInv, PlatformOK, Adding, Calling, Given, WorksOn
<1>11. PlatformOK'
  BY <1>1, <1>8, <1>10 DEF WInv, PlatformOK, Given, Adding, Calling
<1> QED
  BY <1>6, <1>7, <1>9, <1>11 DEF WInv

-----------------------------------------------------------------------------
(* The platform's thread.                                                  *)

LEMMA AddStep ==
  ASSUME WInv, NEW s \in Live, NEW path \in Paths, NEW e \in Events,
         add_file_change(s, path, e[1], e[2])
  PROVE  WInv'
<1>1. /\ platform' = [pc |-> "add", slot |-> s, handle |-> At(s).handle, path |-> path,
                      raw |-> e[1], types |-> WithModified(e[1], e[2]), time |-> now]
      /\ UNCHANGED <<watchers, next_handle, stopping, now>>
  BY DEF add_file_change
<1>2. /\ e[1] \subseteq WithModified(e[1], e[2]) /\ WithModified(e[1], e[2]) \subseteq Bits
      /\ WithModified(e[1], e[2]) \subseteq e[1] \cup {"modified"}
  BY DEF WithModified, Bits
<1>3. /\ ArrayOK' /\ SlotsOK' /\ HandlesOK' /\ StoppingOK' /\ Live' = Live
      /\ At(s)' = At(s)
  BY <1>1 DEF WInv, ArrayOK, SlotsOK, SlotOK, Slots, HandlesOK, StoppingOK, Live, At
<1>4. /\ platform'.pc = "add" /\ platform'.slot = s /\ platform'.handle = At(s).handle
      /\ platform'.path = path /\ platform'.raw = e[1] /\ platform'.types = WithModified(e[1], e[2])
      /\ platform'.time = now
  BY <1>1
<1>5. NoLaterThan(At(s), now) /\ now \in Nat
  BY DEF Live, WInv, SlotsOK, SlotOK
<1>6. Adding'
  BY <1>1, <1>2, <1>3, <1>4, <1>5 DEF Adding, Given, NoLaterThan, At
<1> QED
  BY <1>3, <1>6 DEF WInv, PlatformOK

LEMMA StoreStep ==
  ASSUME WatcherConstantsOK, WInv, StoreChange
  PROVE  WInv'
<1>1. platform.pc = "add" /\ Adding
  BY DEF StoreChange, WInv, PlatformOK, Idle, Calling
<1>2. PICK s \in Live : s = platform.slot
  BY <1>1 DEF Adding, Given
<1>3. PICK c : c = [path |-> platform.path, types |-> platform.types, time |-> platform.time]
  OBVIOUS
<1>4. c \in Change /\ c.types = platform.types /\ c.time = platform.time
  BY <1>1, <1>3 DEF Adding, Change
<1>5. s \in Slots /\ SlotOK(At(s)) /\ now \in Nat
  BY DEF Live, WInv, SlotsOK
<1>6. PICK w : w = [Put(At(s), c) EXCEPT !.owed[c.path] = @ \cup platform.raw]
  OBVIOUS
<1>7. /\ Update(s, w) /\ UNCHANGED <<next_handle, stopping, now>>
      /\ \/ platform' = Idle
         \/ \E told \in Calls :
              platform' = [pc |-> "call", slot |-> s, handle |-> platform.handle,
                           matched |-> snapshot_matching_callbacks(At(s), c.path), calls |-> told]
  BY <1>2, <1>3, <1>6 DEF StoreChange
<1>8. w \in State /\ Buffered(w) /\ NoLaterThan(w, c.time) /\ w.handle = At(s).handle
  <2>1. Window \in Nat /\ At(s) \in State /\ Buffered(At(s)) /\ NoLaterThan(At(s), c.time)
    BY <1>1, <1>2, <1>4, <1>5 DEF WatcherConstantsOK, SlotOK, Adding
  <2>2. platform.raw \subseteq c.types /\ c.types \subseteq platform.raw \cup {"modified"}
    BY <1>1, <1>4 DEF Adding
  <2> QED
    BY <1>4, <1>6, <2>1, <2>2, StoredBuffered
<1>9. NoLaterThan(w, now)
  <2>1. c.time \in Nat /\ c.time <= now
    BY <1>1, <1>4 DEF Adding
  <2>2. \A i \in DOMAIN w.changes : w.changes[i].time \in Nat /\ w.changes[i].time <= c.time
    BY <1>8, ChangesTyped DEF NoLaterThan
  <2> QED
    BY <1>5, <2>1, <2>2 DEF NoLaterThan
<1>10. /\ ArrayOK' /\ SlotsOK' /\ HandlesOK' /\ StoppingOK' /\ Live' = Live
       /\ At(s)'.handle = At(s).handle
  BY <1>5, <1>7, <1>8, <1>9, Touch
<1>11. PlatformOK'
  <2>1. CASE platform' = Idle
    BY <2>1 DEF PlatformOK, Idle
  <2>2. ASSUME NEW told \in Calls,
               platform' = [pc |-> "call", slot |-> s, handle |-> platform.handle,
                            matched |-> snapshot_matching_callbacks(At(s), c.path), calls |-> told]
        PROVE  Calling'
    <3>1. /\ platform'.slot = s /\ platform'.handle = platform.handle
          /\ platform' = [pc |-> "call", slot |-> platform'.slot, handle |-> platform'.handle,
                          matched |-> platform'.matched, calls |-> platform'.calls]
      BY <2>2
    <3>2. At(s).handle = platform.handle
      BY <1>1, <1>2 DEF Adding, Given
    <3> QED
      BY <1>10, <3>1, <3>2 DEF Calling, Given, At
  <2> QED
    BY <1>7, <2>1, <2>2 DEF PlatformOK
<1> QED
  BY <1>10, <1>11 DEF WInv

(* After a callback the thread has the same watcher, or none.              *)
LEMMA Returned ==
  ASSUME Calling, platform' = Return, Live' = Live,
         \A t \in Slots : At(t)'.handle = At(t).handle
  PROVE  PlatformOK'
<1>1. CASE Return = Idle
  BY <1>1 DEF PlatformOK, Idle
<1>2. CASE Return # Idle
  <2>1. platform' = [platform EXCEPT !.matched = Tail(@)]
    BY <1>2 DEF Return
  <2>2. PICK r : r = Tail(platform.matched)
    OBVIOUS
  <2>3. platform' = [pc |-> "call", slot |-> platform.slot, handle |-> platform.handle,
                     matched |-> r, calls |-> platform.calls]
    <3>1. PICK slot, handle, matched, told :
            platform = [pc |-> "call", slot |-> slot, handle |-> handle, matched |-> matched,
                        calls |-> told]
      BY DEF Calling
    <3>2. platform.slot = slot /\ platform.handle = handle /\ platform.calls = told
      BY <3>1
    <3>3. platform' = [platform EXCEPT !.matched = r]
      BY <2>1, <2>2
    <3> QED
      BY <3>1, <3>2, <3>3
  <2>4. /\ platform'.slot = platform.slot /\ platform'.handle = platform.handle
        /\ platform' = [pc |-> "call", slot |-> platform'.slot, handle |-> platform'.handle,
                        matched |-> platform'.matched, calls |-> platform'.calls]
    BY <2>3
  <2>5. platform.slot \in Live /\ platform.slot \in Slots /\ At(platform.slot).handle = platform.handle
    BY DEF Calling, Given, Live
  <2>6. PICK s \in Live : s = platform.slot /\ s \in Slots
    BY <2>5
  <2>7. At(s)'.handle = platform.handle
    BY <2>5, <2>6
  <2>8. Given'
    BY <2>4, <2>6, <2>7 DEF Given, At
  <2> QED
    BY <2>4, <2>8 DEF PlatformOK, Calling
<1> QED
  BY <1>1, <1>2

LEMMA InvokeStep ==
  ASSUME WInv, InvokeCallback
  PROVE  WInv'
<1>1. platform.pc = "call" /\ platform' = Return /\ UNCHANGED <<watchers, next_handle, stopping, now>>
  BY DEF InvokeCallback
<1>2. Calling
  BY <1>1 DEF WInv, PlatformOK, Idle, Adding
<1>3. /\ ArrayOK' /\ SlotsOK' /\ HandlesOK' /\ StoppingOK' /\ Live' = Live
      /\ \A t \in Slots : At(t)'.handle = At(t).handle
  BY <1>1 DEF WInv, ArrayOK, SlotsOK, SlotOK, Slots, HandlesOK, StoppingOK, Live, At
<1> QED
  BY <1>1, <1>2, <1>3, Returned DEF WInv

(* To unregister a callback moves the last one and nothing else.           *)
LEMMA UnregisterMeans ==
  ASSUME NEW w \in State, NEW id
  PROVE  Unregister(w, id) \in State /\ Unregister(w, id).handle = w.handle /\ SameBuffer(w, Unregister(w, id))
<1> DEFINE n == Len(w.callbacks)
<1> DEFINE here == {i \in DOMAIN w.callbacks : w.callbacks[i].id = id}
<1>1. /\ w.callbacks \in Seq(Callback) /\ w.callbacks \in [1..n -> Callback]
      /\ DOMAIN w.callbacks = 1..n /\ n \in Nat
  BY LenProperties DEF State
<1>2. CASE here = {}
  BY <1>2 DEF Unregister, SameBuffer
<1>3. CASE here # {}
  <2>1. PICK i \in 1..n : i = CHOOSE j \in here : TRUE
    BY <1>1, <1>3
  <2>2. PICK moved : moved = [w.callbacks EXCEPT ![i] = w.callbacks[n]]
    OBVIOUS
  <2>3. \A j \in 1..n - 1 : moved[j] \in Callback
    BY <1>1, <2>2
  <2>4. PICK cut : cut = SubSeq(moved, 1, n - 1)
    OBVIOUS
  <2>5. cut \in Seq(Callback)
    BY <1>1, <2>3, <2>4, SubSeqProperties
  <2>6. Unregister(w, id) = [w EXCEPT !.callbacks = cut]
    BY <1>3, <2>1, <2>2, <2>4 DEF Unregister
  <2> QED
    BY <2>5, <2>6 DEF State, SameBuffer
<1> QED
  BY <1>2, <1>3

LEMMA CallbackUnregistersStep ==
  ASSUME WatcherConstantsOK, WInv, CallbackUnregisters
  PROVE  WInv'
<1>1. /\ platform.pc = "call" /\ platform' = Return /\ UNCHANGED <<next_handle, stopping, now>>
      /\ Update(platform.slot, Unregister(At(platform.slot), Head(platform.matched).id))
  BY DEF CallbackUnregisters
<1>2. Calling
  BY <1>1 DEF WInv, PlatformOK, Idle, Adding
<1>3. PICK s \in Live : s = platform.slot
  BY <1>2 DEF Calling, Given
<1>4. PICK w : w = Unregister(At(s), Head(platform.matched).id)
  OBVIOUS
<1>5. SlotOK(At(s))
  BY DEF Live, WInv, SlotsOK
<1>6. w \in State /\ w.handle = At(s).handle /\ SameBuffer(At(s), w)
  BY <1>4, <1>5, UnregisterMeans DEF SlotOK
<1>7. Buffered(w) /\ NoLaterThan(w, now)
  BY <1>5, <1>6, KeptBuffered DEF SlotOK
<1>8. /\ ArrayOK' /\ SlotsOK' /\ HandlesOK' /\ StoppingOK' /\ Live' = Live
      /\ \A t \in Slots : At(t)'.handle = At(t).handle
  <2>1. Update(s, w)
    BY <1>1, <1>3, <1>4
  <2> QED
    BY <1>1, <1>6, <1>7, <2>1, Touch
<1> QED
  BY <1>1, <1>2, <1>8, Returned DEF WInv

LEMMA TickStep ==
  ASSUME WInv, Tick
  PROVE  WInv'
<1>1. now' = now + 1 /\ UNCHANGED <<watchers, next_handle, stopping, platform>> /\ now \in Nat
  BY DEF Tick, WInv, SlotsOK
<1>2. ArrayOK' /\ HandlesOK' /\ StoppingOK' /\ Slots' = Slots /\ \A s \in Slots : At(s)' = At(s)
  BY <1>1 DEF WInv, ArrayOK, HandlesOK, StoppingOK, Slots, Live, At
<1>3. SlotsOK'
  <2> SUFFICES ASSUME NEW s \in Slots PROVE SlotOK(At(s))'
    BY <1>1, <1>2 DEF WInv, SlotsOK
  <2>1. SlotOK(At(s))
    BY DEF WInv, SlotsOK
  <2>2. \A i \in DOMAIN At(s).changes : At(s).changes[i].time \in Nat /\ At(s).changes[i].time <= now
    BY <2>1, ChangesTyped DEF SlotOK, NoLaterThan
  <2>3. NoLaterThan(At(s), now')
    BY <1>1, <2>2 DEF NoLaterThan
  <2> QED
    BY <1>1, <1>2, <2>1, <2>3 DEF SlotOK
<1>4. PlatformOK'
  BY <1>1 DEF WInv, PlatformOK, Given, Adding, Calling, Live, Slots, At
<1> QED
  BY <1>2, <1>3, <1>4 DEF WInv

-----------------------------------------------------------------------------
(* The rest of the API.                                                    *)

LEMMA LiveState ==
  ASSUME WInv, NEW s \in Live
  PROVE  /\ At(s) \in State /\ At(s).next_callback \in Nat
         /\ At(s).callbacks \in Seq(Callback)
BY DEF Live, WInv, SlotsOK, SlotOK, State

LEMMA RegisterStep ==
  ASSUME WatcherConstantsOK, WInv, NEW s \in Live, NEW path \in Paths, file_watcher_register_callback(s, path)
  PROVE  WInv'
<1>1. UNCHANGED <<next_handle, stopping, now, platform>>
  BY DEF file_watcher_register_callback
<1>2. PICK c \in Callback : c = [id |-> At(s).next_callback, path |-> path]
  BY LiveState DEF Callback
<1>3. PICK list \in Seq(Callback) : list = Append(At(s).callbacks, c)
  BY LiveState, AppendProperties
<1>4. PICK next \in Nat : next = At(s).next_callback + 1
  BY LiveState
<1>5. PICK w : w = [At(s) EXCEPT !.callbacks = list, !.next_callback = next]
  OBVIOUS
<1>6. Update(s, w)
  BY <1>2, <1>3, <1>4, <1>5 DEF file_watcher_register_callback
<1>7. w \in State /\ w.handle = At(s).handle /\ SameBuffer(At(s), w)
  BY <1>5, LiveState DEF State, SameBuffer
<1> QED
  BY <1>1, <1>6, <1>7, ApiStep

LEMMA UnregisterStep ==
  ASSUME WatcherConstantsOK, WInv, NEW s \in Live, NEW id, file_watcher_unregister_callback(s, id)
  PROVE  WInv'
<1>1. UNCHANGED <<next_handle, stopping, now, platform>> /\ Update(s, Unregister(At(s), id))
  BY DEF file_watcher_unregister_callback
<1>2. PICK w \in State : w = Unregister(At(s), id) /\ w.handle = At(s).handle /\ SameBuffer(At(s), w)
  BY LiveState, UnregisterMeans
<1> QED
  BY <1>1, <1>2, ApiStep

LEMMA DrainedMeans ==
  ASSUME NEW w \in State
  PROVE  Drained(w) \in State /\ Drained(w).handle = w.handle /\ Emptied(Drained(w))
<1>1. << >> \in Seq(Change) /\ NoChanges \in [Paths -> SUBSET Bits]
  BY EmptySeq DEF NoChanges
<1> QED
  BY <1>1 DEF Drained, State, Emptied

LEMMA ClearStep ==
  ASSUME WatcherConstantsOK, WInv, NEW s \in Live, file_watcher_clear_changes(s)
  PROVE  WInv'
<1>1. UNCHANGED <<next_handle, stopping, now, platform>> /\ Update(s, Drained(At(s)))
  BY DEF file_watcher_clear_changes
<1>2. PICK w \in State : w = Drained(At(s)) /\ w.handle = At(s).handle /\ Emptied(w)
  BY LiveState, DrainedMeans
<1> QED
  BY <1>1, <1>2, ApiStep

LEMMA GetStep ==
  ASSUME WatcherConstantsOK, WInv, NEW s \in Live, NEW broken \in BOOLEAN, file_watcher_get_changes(s, broken)
  PROVE  WInv'
<1>1. /\ UNCHANGED <<next_handle, stopping, now, platform>>
      /\ Update(s, [Drained(At(s)) EXCEPT !.is_active = ~broken])
  BY DEF file_watcher_get_changes
<1>2. PICK v \in State : v = Drained(At(s)) /\ v.handle = At(s).handle /\ Emptied(v)
  BY LiveState, DrainedMeans
<1>3. PICK w : w = [v EXCEPT !.is_active = ~broken]
  OBVIOUS
<1>4. w \in State /\ w.handle = At(s).handle /\ Emptied(w)
  BY <1>2, <1>3 DEF State, Emptied
<1>5. Update(s, w)
  BY <1>1, <1>2, <1>3
<1> QED
  BY <1>1, <1>4, <1>5, ApiStep

LEMMA HasStep ==
  ASSUME WatcherConstantsOK, WInv, NEW s \in Live, NEW broken \in BOOLEAN, file_watcher_has_changes(s, broken)
  PROVE  WInv'
<1>1. UNCHANGED <<next_handle, stopping, now, platform>>
  BY DEF file_watcher_has_changes
<1>2. PICK w : w = [At(s) EXCEPT !.is_active = ~broken]
  OBVIOUS
<1>3. w \in State /\ w.handle = At(s).handle /\ SameBuffer(At(s), w)
  BY <1>2, LiveState DEF State, SameBuffer
<1>4. Update(s, w)
  BY <1>2 DEF file_watcher_has_changes
<1> QED
  BY <1>1, <1>3, <1>4, ApiStep

-----------------------------------------------------------------------------
(* The theorems.                                                           *)

LEMMA InitOK == WatcherConstantsOK /\ Init => WInv
<1> SUFFICES ASSUME WatcherConstantsOK, Init PROVE WInv
  OBVIOUS
<1>1. /\ watchers = [capacity |-> Capacity, length |-> 0, data |-> [i \in 0..Capacity - 1 |-> Unset]]
      /\ next_handle = 1 /\ stopping = NoSlot /\ now = 0 /\ platform = Idle
  BY DEF Init, fixed_array_init_raw
<1>2. watchers.length = 0 /\ watchers.data = [i \in 0..Capacity - 1 |-> Unset]
  BY <1>1
<1>3. Slots = {} /\ Live = {}
  BY <1>2 DEF Slots, Live
<1>4. watchers.data = [i \in 0..Capacity - 1 |-> watchers.data[i]]
  BY <1>2
<1>5. ArrayOK
  BY <1>1, <1>2, <1>4 DEF ArrayOK, WatcherConstantsOK
<1> QED
  BY <1>1, <1>3, <1>5 DEF WInv, SlotsOK, HandlesOK, StoppingOK, PlatformOK, INVALID

LEMMA NextOK == WatcherConstantsOK /\ WInv /\ [Next]_vars => WInv'
<1> SUFFICES ASSUME WatcherConstantsOK, WInv, [Next]_vars PROVE WInv'
  OBVIOUS
<1>1. CASE UNCHANGED vars
  BY <1>1 DEF vars, WInv, ArrayOK, SlotsOK, SlotOK, HandlesOK, StoppingOK, PlatformOK, Adding, Calling,
              Given, Live, Slots, At
<1>2. ASSUME NEW refused \in BOOLEAN, file_watcher_start(refused) PROVE WInv'
  BY <1>2, StartStep
<1>3. ASSUME NEW s \in Live, file_watcher_stop(s) PROVE WInv'
  BY <1>3, StopStep
<1>4. CASE destroy_watcher_state
  BY <1>4, WatcherDestroyStep
<1>5. ASSUME NEW s \in Live, NEW p \in Paths, NEW e \in Events, add_file_change(s, p, e[1], e[2])
      PROVE  WInv'
  BY <1>5, AddStep
<1>6. CASE StoreChange
  BY <1>6, StoreStep
<1>7. CASE InvokeCallback
  BY <1>7, InvokeStep
<1>8. CASE CallbackUnregisters
  BY <1>8, CallbackUnregistersStep
<1>9. CASE Tick
  BY <1>9, TickStep
<1>10. ASSUME NEW s \in Live, NEW p \in Paths, file_watcher_register_callback(s, p) PROVE WInv'
  BY <1>10, RegisterStep
<1>11. ASSUME NEW s \in Live, NEW id \in 1..MaxRegs, file_watcher_unregister_callback(s, id) PROVE WInv'
  BY <1>11, UnregisterStep
<1>12. ASSUME NEW s \in Live, file_watcher_clear_changes(s) PROVE WInv'
  BY <1>12, ClearStep
<1>13. ASSUME NEW s \in Live, NEW broken \in BOOLEAN, file_watcher_get_changes(s, broken) PROVE WInv'
  BY <1>13, GetStep
<1>14. ASSUME NEW s \in Live, NEW broken \in BOOLEAN, file_watcher_has_changes(s, broken) PROVE WInv'
  BY <1>14, HasStep
<1> QED
  BY <1>1, <1>2, <1>3, <1>4, <1>5, <1>6, <1>7, <1>8, <1>9, <1>10, <1>11, <1>12, <1>13, <1>14 DEF Next

(* InvariantAlways: every reachable state satisfies the invariant: the     *)
(* slots hold watchers with truthful buffers, the thread of the platform   *)
(* works on a live one, and no buffered change is later than the thread's  *)
(* time (file_watcher.c:69-104, 198-364, 488-557).                         *)
THEOREM WatcherInvariantAlways == WatcherConstantsOK => (Spec => []WInv)
<1> SUFFICES ASSUME WatcherConstantsOK PROVE Spec => []WInv
  OBVIOUS
<1>1. Init => WInv
  BY InitOK
<1>2. WInv /\ [Next]_vars => WInv'
  BY NextOK
<1> QED
  BY <1>1, <1>2, PTL DEF Spec

(* ChangesAreKeptAlways: what a buffer tells of a path since it was last   *)
(* drained is what happened to it, or the buffer says that changes were    *)
(* lost; and two entries of a path are at least the window apart           *)
(* (file_watcher.c:198-268, 488-557).                                      *)
THEOREM ChangesAreKeptAlways == WatcherConstantsOK => (Spec => []ChangesAreKept)
<1> SUFFICES ASSUME WatcherConstantsOK PROVE Spec => []ChangesAreKept
  OBVIOUS
<1>1. WInv => ChangesAreKept
  <2> SUFFICES ASSUME WInv, NEW s \in Live PROVE Buffered(At(s))
    BY DEF ChangesAreKept, Buffered, Truthful, Complete, Spaced
  <2> QED
    BY DEF WInv, SlotsOK, SlotOK, Live
<1> QED
  BY <1>1, WatcherInvariantAlways, PTL

(* WatchersArePinnedAlways: the slot that the platform's thread works on   *)
(* keeps its watcher, whoever stops it meanwhile, and handles of watchers  *)
(* are unique (file_watcher.c:69-104, 272-364).                            *)
THEOREM WatchersArePinnedAlways == WatcherConstantsOK => (Spec => []WatchersArePinned)
<1> SUFFICES ASSUME WatcherConstantsOK PROVE Spec => []WatchersArePinned
  OBVIOUS
<1>1. WInv => WatchersArePinned
  BY DEF WInv, PlatformOK, Adding, Calling, Given, Idle, HandlesOK, WatchersArePinned
<1> QED
  BY <1>1, WatcherInvariantAlways, PTL

(* WatchesAreSoundAlways: both hold of every reachable state, for every    *)
(* capacity, buffer size and window (file_watcher.c:69-557).               *)
THEOREM WatchesAreSoundAlways == WatcherConstantsOK => (Spec => []WatchesAreSound)
<1>1. ChangesAreKept /\ WatchersArePinned => WatchesAreSound
  BY DEF WatchesAreSound
<1> QED
  BY <1>1, ChangesAreKeptAlways, WatchersArePinnedAlways, PTL

-----------------------------------------------------------------------------
(***************************************************************************)
(* Making directories: the tree is rooted, and a call remembers every      *)
(* directory there was since it began, or sees it removed.  So a component *)
(* it has passed or could not make is there, was removed, or a file is in  *)
(* its place.                                                              *)
(***************************************************************************)

Steps == {"idle", "whole", "look", "make", "again", "made", "failed"}

DirTypeOK ==
  /\ folders \in SUBSET Seq(Names) /\ files \in SUBSET Seq(Names)
  /\ at \in [Processes -> [step : Steps, path : Seq(Names), i : Nat]]
  /\ seen \in [Processes -> SUBSET Seq(Names)] /\ lost \in [Processes -> SUBSET Seq(Names)]

(* A directory's parents are there.                                        *)
Rooted == \A q \in folders : \A j \in 1..Len(q) : Prefix(q, j) \in folders

(* A call remembers the directories there are, or were and went.           *)
Remembers(t) ==
  /\ seen[t] \subseteq folders \cup lost[t]
  /\ at[t].step # "idle" => folders \subseteq seen[t]

Blocked(t) == \E j \in 1..Len(at[t].path) : Prefix(at[t].path, j) \in files \cup lost[t]

(* What a call knows of the components before the one it is at.            *)
Knows(t) ==
  /\ at[t].step \in {"look", "make", "again"} =>
       at[t].i \in 1..Len(at[t].path) /\ \A j \in 1..(at[t].i - 1) : Prefix(at[t].path, j) \in seen[t]
  /\ at[t].step = "again" => Prefix(at[t].path, at[t].i) \in seen[t] \/ Blocked(t)
  /\ at[t].step = "made" => at[t].path # << >> /\ \A j \in 1..Len(at[t].path) : Prefix(at[t].path, j) \in seen[t]
  /\ at[t].step = "failed" => at[t].path = << >> \/ Blocked(t)

DirInv == DirTypeOK /\ Rooted /\ \A t \in Processes : Remembers(t) /\ Knows(t)

-----------------------------------------------------------------------------

LEMMA PrefixIs ==
  ASSUME NEW p \in Seq(Names), NEW i \in 1..Len(p)
  PROVE  Prefix(p, i) \in Seq(Names) /\ Len(Prefix(p, i)) = i /\ Prefix(p, i) # << >>
<1>1. Prefix(p, i) \in Seq(Names) /\ Len(Prefix(p, i)) = i
  BY SubSeqProperties DEF Prefix
<1>. QED  BY <1>1

LEMMA PrefixOfPrefix ==
  ASSUME NEW p \in Seq(Names), NEW i \in 1..Len(p), NEW j \in 1..i
  PROVE  Prefix(Prefix(p, i), j) = Prefix(p, j)
  BY SubSeqOfSubSeq DEF Prefix

LEMMA FrontOfPrefix ==
  ASSUME NEW p \in Seq(Names), NEW i \in 1..Len(p)
  PROVE  Front(Prefix(p, i)) = Prefix(p, i - 1)
<1>1. CASE i = 1
  BY <1>1, PrefixIs, SubSeqEmpty DEF Front, Prefix
<1>2. CASE i # 1
  <2>1. i - 1 \in 1..i
    BY <1>2
  <2>2. Front(Prefix(p, i)) = Prefix(Prefix(p, i), i - 1)
    BY PrefixIs DEF Front, Prefix
  <2>. QED  BY <2>1, <2>2, PrefixOfPrefix
<1>. QED  BY <1>1, <1>2

LEMMA WholePath ==
  ASSUME NEW p \in Seq(Names)
  PROVE  /\ Prefix(p, Len(p)) = p /\ Prefix(p, 0) = << >> /\ Len(p) \in Nat
         /\ p # << >> => Len(p) \in 1..Len(p) /\ Front(p) = Prefix(p, Len(p) - 1)
<1>1. Prefix(p, Len(p)) = p
  BY SubSeqFull DEF Prefix
<1>2. Prefix(p, 0) = << >>
  BY SubSeqEmpty DEF Prefix
<1>3. Len(p) \in Nat /\ (p # << >> => Len(p) \in 1..Len(p))
  BY EmptySeq
<1>. QED  BY <1>1, <1>2, <1>3 DEF Front, Prefix

-----------------------------------------------------------------------------
(* Making a directory where mkdir can keeps the tree rooted.               *)
LEMMA MadeIsRooted ==
  ASSUME DirTypeOK, Rooted, NEW p \in Seq(Names), p # << >>, mkdir(p)
  PROVE  \A q \in folders \cup {p} : \A j \in 1..Len(q) : Prefix(q, j) \in folders \cup {p}
<1> SUFFICES ASSUME NEW j \in 1..Len(p), j # Len(p)
             PROVE  Prefix(p, j) \in folders
  BY WholePath DEF Rooted
<1>1. Len(p) \in 1..Len(p) /\ Front(p) = Prefix(p, Len(p) - 1) /\ Len(p) - 1 \in 1..Len(p) /\ j \in 1..(Len(p) - 1)
  BY WholePath
<1>2. Front(p) \in folders /\ Len(Front(p)) = Len(p) - 1
  BY <1>1, PrefixIs DEF mkdir, file_directory_exists_os
<1>3. Prefix(Front(p), j) \in folders
  BY <1>1, <1>2 DEF Rooted
<1>. QED  BY <1>1, <1>3, PrefixOfPrefix

(* So does removing one without children.                                  *)
LEMMA RemovedIsRooted ==
  ASSUME DirTypeOK, Rooted, NEW p \in folders,
         ~\E q \in folders \cup files : Len(q) = Len(p) + 1 /\ Front(q) = p
  PROVE  \A q \in folders \ {p} : \A j \in 1..Len(q) : Prefix(q, j) \in folders \ {p}
<1> SUFFICES ASSUME NEW q \in folders, q # p, NEW j \in 1..Len(q), Prefix(q, j) = p
             PROVE  FALSE
  BY DEF Rooted
<1>1. q \in Seq(Names) /\ Len(q) \in Nat
  BY DEF DirTypeOK
<1>2. j # Len(q)
  BY <1>1, WholePath
<1>3. j + 1 \in 1..Len(q) /\ (j + 1) - 1 = j
  BY <1>1, <1>2
<1>4. Prefix(q, j + 1) \in folders /\ Len(Prefix(q, j + 1)) = j + 1 /\ Front(Prefix(q, j + 1)) = p
  BY <1>1, <1>3, PrefixIs, FrontOfPrefix DEF Rooted
<1>5. Len(p) = j
  BY <1>1, PrefixIs
<1>. QED  BY <1>4, <1>5

-----------------------------------------------------------------------------
LEMMA DirInitInv == DirInit => DirInv
<1> SUFFICES ASSUME DirInit PROVE DirInv
  OBVIOUS
<1>1. DirTypeOK
  <2>1. AtRest \in [step : Steps, path : Seq(Names), i : Nat]
    BY EmptySeq DEF AtRest, Steps
  <2>. QED  BY <2>1 DEF DirInit, DirTypeOK
<1>2. Rooted
  BY DEF DirInit, Rooted
<1>3. \A t \in Processes : Remembers(t) /\ Knows(t)
  BY DEF DirInit, Remembers, Knows, AtRest
<1>. QED  BY <1>1, <1>2, <1>3 DEF DirInv

(* What a call knows it keeps while others only add to what it saw.        *)
LEMMA KnowledgeStays ==
  ASSUME DirInv, NEW t \in Processes, at'[t] = at[t],
         files \subseteq files', seen[t] \subseteq seen'[t], lost[t] \subseteq lost'[t]
  PROVE  Knows(t)'
<1>1. Knows(t)
  BY DEF DirInv
<1>2. Blocked(t) => Blocked(t)'
  BY DEF Blocked
<1>. QED  BY <1>1, <1>2 DEF Knows

(* The file system and what the calls saw of it change together.           *)
LEMMA TreeStep ==
  ASSUME DirInv, NEW made \in SUBSET Seq(Names), NEW gone \in SUBSET Seq(Names), Observe(made, gone),
         folders' = (folders \cup made) \ gone, files' \in SUBSET Seq(Names), files \subseteq files',
         NEW t \in Processes, at'[t].step # "idle" => at[t].step # "idle"
  PROVE  Remembers(t)' /\ seen[t] \subseteq seen'[t] /\ lost[t] \subseteq lost'[t]
<1>1. Remembers(t)
  BY DEF DirInv
<1>2. seen'[t] = seen[t] \cup made /\ lost'[t] = lost[t] \cup gone
  BY DEF Observe
<1>. QED  BY <1>1, <1>2 DEF Remembers

LEMMA ObservedTypes ==
  ASSUME DirTypeOK, NEW made \in SUBSET Seq(Names), NEW gone \in SUBSET Seq(Names), Observe(made, gone)
  PROVE  seen' \in [Processes -> SUBSET Seq(Names)] /\ lost' \in [Processes -> SUBSET Seq(Names)]
<1>1. \A t \in Processes : seen[t] \cup made \in SUBSET Seq(Names) /\ lost[t] \cup gone \in SUBSET Seq(Names)
  BY DEF DirTypeOK
<1>. QED  BY <1>1 DEF Observe

LEMMA OtherKeepsDirInv ==
  ASSUME DirInv, NEW p \in Seq(Names), p # << >>, Other(p)
  PROVE  DirInv'
<1>. DirTypeOK /\ Rooted /\ at' = at
  BY DEF DirInv, Other
<1>1. CASE mkdir(p) /\ folders' = folders \cup {p} /\ Observe({p}, {}) /\ UNCHANGED files
  <2>1. DirTypeOK'
    BY <1>1, ObservedTypes DEF DirTypeOK
  <2>2. Rooted'
    BY <1>1, MadeIsRooted DEF Rooted
  <2>3. \A t \in Processes : Remembers(t)' /\ seen[t] \subseteq seen'[t] /\ lost[t] \subseteq lost'[t]
    BY <1>1, TreeStep DEF DirTypeOK
  <2>4. \A t \in Processes : Knows(t)'
    BY <1>1, <2>3, KnowledgeStays
  <2>. QED  BY <2>1, <2>2, <2>3, <2>4 DEF DirInv
<1>2. CASE mkdir(p) /\ files' = files \cup {p} /\ UNCHANGED <<folders, seen, lost>>
  <2>1. DirTypeOK' /\ Rooted'
    BY <1>2 DEF DirTypeOK, Rooted
  <2>2. \A t \in Processes : Remembers(t)'
    BY <1>2 DEF DirInv, Remembers
  <2>3. \A t \in Processes : Knows(t)'
    BY <1>2, KnowledgeStays
  <2>. QED  BY <2>1, <2>2, <2>3 DEF DirInv
<1>3. CASE /\ p \in folders /\ ~\E q \in folders \cup files : Len(q) = Len(p) + 1 /\ Front(q) = p
           /\ folders' = folders \ {p} /\ Observe({}, {p}) /\ UNCHANGED files
  <2>1. DirTypeOK'
    BY <1>3, ObservedTypes DEF DirTypeOK
  <2>2. Rooted'
    BY <1>3, RemovedIsRooted DEF Rooted
  <2>3. \A t \in Processes : Remembers(t)' /\ seen[t] \subseteq seen'[t] /\ lost[t] \subseteq lost'[t]
    <3>1. folders' = (folders \cup {}) \ {p} /\ files' \in SUBSET Seq(Names)
      BY <1>3 DEF DirTypeOK
    <3>. QED  BY <1>3, <3>1, TreeStep
  <2>4. \A t \in Processes : Knows(t)'
    BY <1>3, <2>3, KnowledgeStays
  <2>. QED  BY <2>1, <2>2, <2>3, <2>4 DEF DirInv
<1>. QED  BY <1>1, <1>2, <1>3 DEF Other

-----------------------------------------------------------------------------
(* The steps of a call.                                                    *)
LEMMA StepKeepsTypes ==
  ASSUME DirTypeOK, NEW t \in Processes, NEW s \in Steps, NEW i \in Nat, StepTo(t, s, i)
  PROVE  /\ at' \in [Processes -> [step : Steps, path : Seq(Names), i : Nat]]
         /\ at'[t].step = s /\ at'[t].path = at[t].path /\ at'[t].i = i
         /\ \A u \in Processes \ {t} : at'[u] = at[u]
  BY DEF StepTo, DirTypeOK

LEMMA Advances ==
  ASSUME DirTypeOK, NEW t \in Processes, Advance(t), at[t].i \in 1..Len(at[t].path),
         \A j \in 1..at[t].i : Prefix(at[t].path, j) \in seen'[t]
  PROVE  /\ at' \in [Processes -> [step : Steps, path : Seq(Names), i : Nat]]
         /\ Knows(t)'
         /\ \A u \in Processes \ {t} : at'[u] = at[u]
         /\ at'[t].path = at[t].path
<1>. at[t].path \in Seq(Names) /\ Len(at[t].path) \in Nat
  BY WholePath DEF DirTypeOK
<1>1. CASE at[t].i = Len(at[t].path)
  <2>1. StepTo(t, "made", at[t].i)
    BY <1>1 DEF Advance
  <2>2. /\ at' \in [Processes -> [step : Steps, path : Seq(Names), i : Nat]]
        /\ at'[t].step = "made" /\ at'[t].path = at[t].path
        /\ \A u \in Processes \ {t} : at'[u] = at[u]
    BY <2>1, StepKeepsTypes DEF Steps
  <2>3. at[t].path # << >>
    BY <1>1, EmptySeq
  <2>. QED  BY <1>1, <2>2, <2>3 DEF Knows
<1>2. CASE at[t].i # Len(at[t].path)
  <2>1. StepTo(t, "look", at[t].i + 1)
    BY <1>2 DEF Advance
  <2>2. /\ at' \in [Processes -> [step : Steps, path : Seq(Names), i : Nat]]
        /\ at'[t].step = "look" /\ at'[t].path = at[t].path /\ at'[t].i = at[t].i + 1
        /\ \A u \in Processes \ {t} : at'[u] = at[u]
    BY <2>1, StepKeepsTypes DEF Steps
  <2>3. at[t].i + 1 \in 1..Len(at[t].path) /\ (at[t].i + 1) - 1 = at[t].i
    BY <1>2
  <2>. QED  BY <2>2, <2>3 DEF Knows
<1>. QED  BY <1>1, <1>2

LEMMA AskKeepsDirInv ==
  ASSUME DirInv, NEW t \in Processes, NEW p \in Wanted, Ask(t, p)
  PROVE  DirInv'
<1>. DirTypeOK /\ Rooted /\ p \in Seq(Names)
  BY DirAssumption DEF DirInv
<1>1. DirTypeOK' /\ Rooted'
  BY DEF Ask, DirTypeOK, Rooted, Steps
<1>2. at'[t].step = "whole" /\ seen'[t] = folders /\ folders' = folders /\ files' = files
  BY DEF Ask, DirTypeOK
<1>3. Remembers(t)' /\ Knows(t)'
  BY <1>2 DEF Remembers, Knows
<1>4. ASSUME NEW u \in Processes \ {t} PROVE Remembers(u)' /\ Knows(u)'
  <2>1. at'[u] = at[u] /\ seen'[u] = seen[u] /\ lost'[u] = lost[u]
    BY DEF Ask, DirTypeOK
  <2>2. Remembers(u)
    BY DEF DirInv
  <2>. QED  BY <1>2, <2>1, <2>2, KnowledgeStays DEF Remembers
<1>. QED  BY <1>1, <1>3, <1>4 DEF DirInv

(* A step of one call that leaves the tree alone.                          *)
LEMMA CallStep ==
  ASSUME DirInv, NEW t \in Processes, UNCHANGED <<folders, files, seen, lost>>,
         at' \in [Processes -> [step : Steps, path : Seq(Names), i : Nat]],
         \A u \in Processes \ {t} : at'[u] = at[u],
         at'[t].step # "idle" => at[t].step # "idle", Knows(t)'
  PROVE  DirInv'
<1>1. DirTypeOK' /\ Rooted'
  BY DEF DirInv, DirTypeOK, Rooted
<1>2. \A u \in Processes : Remembers(u)'
  BY DEF DirInv, Remembers
<1>3. \A u \in Processes : Knows(u)'
  BY KnowledgeStays
<1>. QED  BY <1>1, <1>2, <1>3 DEF DirInv

LEMMA AnswerKeepsDirInv ==
  ASSUME DirInv, NEW t \in Processes, Answer(t)
  PROVE  DirInv'
<1>. AtRest \in [step : Steps, path : Seq(Names), i : Nat]
  BY EmptySeq DEF AtRest, Steps
<1>1. at' \in [Processes -> [step : Steps, path : Seq(Names), i : Nat]] /\ at'[t] = AtRest
      /\ \A u \in Processes \ {t} : at'[u] = at[u]
  BY DEF DirInv, DirTypeOK, Answer
<1>2. Knows(t)' /\ at'[t].step = "idle"
  BY <1>1 DEF Knows, AtRest
<1>. QED  BY <1>1, <1>2, CallStep DEF Answer

(* A directory that is there was seen; one that was seen and is not there  *)
(* is lost.                                                                *)
LEMMA ThereOrLost ==
  ASSUME DirInv, NEW t \in Processes, at[t].step # "idle"
  PROVE  /\ \A q \in folders : q \in seen[t]
         /\ \A q \in seen[t] \ folders : q \in lost[t]
  BY DEF DirInv, Remembers

LEMMA LooksAt ==
  ASSUME DirInv, NEW t \in Processes, at[t].step \in {"look", "make", "again"}
  PROVE  /\ at[t].path \in Seq(Names) /\ at[t].i \in 1..Len(at[t].path) /\ at[t].path # << >> /\ at[t].i \in Nat
         /\ Prefix(at[t].path, at[t].i) # << >> /\ Prefix(at[t].path, at[t].i) \in Seq(Names)
         /\ \A j \in 1..(at[t].i - 1) : Prefix(at[t].path, j) \in seen[t]
<1>1. at[t].path \in Seq(Names) /\ at[t].i \in Nat
  BY DEF DirInv, DirTypeOK
<1>2. Knows(t)
  BY DEF DirInv
<1>3. at[t].i \in 1..Len(at[t].path) /\ \A j \in 1..(at[t].i - 1) : Prefix(at[t].path, j) \in seen[t]
  BY <1>2 DEF Knows
<1>4. at[t].path # << >>
  BY <1>1, <1>3, EmptySeq
<1>. QED  BY <1>1, <1>3, <1>4, PrefixIs

LEMMA CheckKeepsDirInv ==
  ASSUME DirInv, NEW t \in Processes, Check(t)
  PROVE  DirInv'
<1> DEFINE p == at[t].path
           i == at[t].i
<1>1. DirTypeOK /\ Rooted /\ p \in Seq(Names) /\ i \in Nat /\ Len(p) \in Nat /\ at[t].step # "idle"
  BY WholePath DEF DirInv, DirTypeOK, Check
<1>2. UNCHANGED <<folders, files, seen, lost>>
  BY DEF Check
<1>3. ASSUME NEW s \in Steps, NEW k \in Nat, StepTo(t, s, k), Knows(t)'
      PROVE  DirInv'
  BY <1>1, <1>2, <1>3, StepKeepsTypes, CallStep
<1>4. CASE p = << >>
  <2>0. at[t].step = "whole"
    BY <1>4, LooksAt DEF Check
  <2>1. StepTo(t, "failed", 0)
    BY <1>4, <2>0 DEF Check
  <2>2. at'[t].step = "failed" /\ at'[t].path = << >>
    BY <1>1, <1>4, <2>1, StepKeepsTypes DEF Steps
  <2>3. Knows(t)'
    BY <2>2 DEF Knows
  <2>. QED  BY <1>3, <2>1, <2>3 DEF Steps
<1>5. CASE p # << >> /\ at[t].step = "whole"
  <2>0. Len(p) \in 1..Len(p)
    BY <1>1, <1>5, WholePath
  <2>1. CASE p \in folders
    <3>1. StepTo(t, "made", Len(p))
      BY <1>5, <2>1 DEF Check, file_directory_exists_os
    <3>2. at'[t].step = "made" /\ at'[t].path = p
      BY <1>1, <3>1, StepKeepsTypes DEF Steps
    <3>3. \A j \in 1..Len(p) : Prefix(p, j) \in seen[t]
      BY <1>1, <2>1, ThereOrLost DEF Rooted
    <3>4. Knows(t)'
      BY <1>2, <1>5, <3>2, <3>3 DEF Knows
    <3>. QED  BY <1>1, <1>3, <3>1, <3>4 DEF Steps
  <2>2. CASE p \notin folders
    <3>1. StepTo(t, "look", 1)
      BY <1>5, <2>2 DEF Check, file_directory_exists_os
    <3>2. at'[t].step = "look" /\ at'[t].path = p /\ at'[t].i = 1
      BY <1>1, <3>1, StepKeepsTypes DEF Steps
    <3>3. Knows(t)'
      BY <1>1, <2>0, <3>2 DEF Knows
    <3>. QED  BY <1>3, <3>1, <3>3 DEF Steps
  <2>. QED  BY <2>1, <2>2
<1>6. CASE p # << >> /\ at[t].step \in {"look", "again"}
  <2>0. /\ i \in 1..Len(p) /\ Prefix(p, i) # << >> /\ Prefix(p, i) \in Seq(Names)
        /\ \A j \in 1..(i - 1) : Prefix(p, j) \in seen[t]
    BY <1>6, LooksAt
  <2>1. CASE Prefix(p, i) \in folders
    <3>1. Advance(t)
      BY <1>6, <2>1 DEF Check, file_directory_exists_os
    <3>2. \A j \in 1..i : Prefix(p, j) \in seen'[t]
      <4>1. ASSUME NEW j \in 1..i PROVE j = i \/ j \in 1..(i - 1)
        BY <1>1
      <4>. QED  BY <1>1, <1>2, <2>0, <2>1, <4>1, ThereOrLost
    <3>. QED  BY <1>1, <1>2, <2>0, <3>1, <3>2, Advances, CallStep
  <2>2. CASE Prefix(p, i) \notin folders /\ at[t].step = "look"
    <3>1. StepTo(t, "make", i)
      BY <1>6, <2>0, <2>2 DEF Check, file_directory_exists_os
    <3>2. at'[t].step = "make" /\ at'[t].path = p /\ at'[t].i = i
      BY <1>1, <3>1, StepKeepsTypes DEF Steps
    <3>3. Knows(t)'
      BY <1>2, <2>0, <3>2 DEF Knows
    <3>. QED  BY <1>1, <1>3, <3>1, <3>3 DEF Steps
  <2>3. CASE Prefix(p, i) \notin folders /\ at[t].step = "again"
    <3>1. StepTo(t, "failed", i)
      BY <1>6, <2>0, <2>3 DEF Check, file_directory_exists_os
    <3>2. at'[t].step = "failed" /\ at'[t].path = p
      BY <1>1, <3>1, StepKeepsTypes DEF Steps
    <3>3. Prefix(p, i) \in seen[t] \/ Blocked(t)
      BY <2>3 DEF DirInv, Knows
    <3>4. Blocked(t)
      BY <1>1, <2>0, <2>3, <3>3, ThereOrLost DEF Blocked
    <3>5. Blocked(t)'
      BY <1>2, <3>2, <3>4 DEF Blocked
    <3>6. Knows(t)'
      BY <3>2, <3>5 DEF Knows
    <3>. QED  BY <1>1, <1>3, <3>1, <3>6 DEF Steps
  <2>. QED  BY <1>6, <2>1, <2>2, <2>3
<1>. QED  BY <1>4, <1>5, <1>6 DEF Check

LEMMA MakeKeepsDirInv ==
  ASSUME DirInv, NEW t \in Processes, file_create_directory_os(t)
  PROVE  DirInv'
<1> DEFINE p == at[t].path
           i == at[t].i
           d == Prefix(at[t].path, at[t].i)
<1>1. at[t].step = "make" /\ files' = files
  BY DEF file_create_directory_os
<1>2. /\ p \in Seq(Names) /\ i \in 1..Len(p) /\ i \in Nat /\ d # << >> /\ d \in Seq(Names)
      /\ \A j \in 1..(i - 1) : Prefix(p, j) \in seen[t]
  BY <1>1, LooksAt
<1>3. DirTypeOK /\ Rooted
  BY DEF DirInv
<1>4. CASE mkdir(d)
  <2>1. folders' = folders \cup {d} /\ Advance(t) /\ Observe({d}, {})
    BY <1>4 DEF file_create_directory_os
  <2>2. \A j \in 1..i : Prefix(p, j) \in seen'[t]
    <3>1. ASSUME NEW j \in 1..i PROVE j = i \/ j \in 1..(i - 1)
      BY <1>2
    <3>. QED  BY <1>2, <2>1, <3>1 DEF Observe
  <2>3. /\ at' \in [Processes -> [step : Steps, path : Seq(Names), i : Nat]] /\ Knows(t)'
        /\ \A u \in Processes \ {t} : at'[u] = at[u]
    BY <1>2, <1>3, <2>1, <2>2, Advances
  <2>4. \A u \in Processes : Remembers(u)' /\ seen[u] \subseteq seen'[u] /\ lost[u] \subseteq lost'[u]
    <3>1. folders' = (folders \cup {d}) \ {} /\ files' \in SUBSET Seq(Names)
      BY <1>1, <1>3, <2>1 DEF DirTypeOK
    <3>2. {d} \in SUBSET Seq(Names) /\ {} \in SUBSET Seq(Names)
      BY <1>2
    <3>3. \A u \in Processes : at'[u].step # "idle" => at[u].step # "idle"
      BY <1>1, <2>3
    <3>. QED  BY <1>1, <2>1, <3>1, <3>2, <3>3, TreeStep
  <2>5. \A u \in Processes \ {t} : Knows(u)'
    BY <1>1, <2>3, <2>4, KnowledgeStays
  <2>6. Rooted'
    BY <1>2, <1>3, <1>4, <2>1, MadeIsRooted DEF Rooted
  <2>7. DirTypeOK'
    <3>1. folders' \in SUBSET Seq(Names) /\ files' \in SUBSET Seq(Names)
      BY <1>1, <1>2, <1>3, <2>1 DEF DirTypeOK
    <3>2. seen' \in [Processes -> SUBSET Seq(Names)] /\ lost' \in [Processes -> SUBSET Seq(Names)]
      <4>1. {d} \in SUBSET Seq(Names) /\ {} \in SUBSET Seq(Names)
        BY <1>2
      <4>. QED  BY <1>3, <2>1, <4>1, ObservedTypes
    <3>. QED  BY <2>3, <3>1, <3>2 DEF DirTypeOK
  <2>. QED  BY <2>3, <2>4, <2>5, <2>6, <2>7 DEF DirInv
<1>5. CASE ~mkdir(d)
  <2>1. StepTo(t, "again", i) /\ UNCHANGED <<folders, files, seen, lost>>
    BY <1>1, <1>5 DEF file_create_directory_os
  <2>2. /\ at' \in [Processes -> [step : Steps, path : Seq(Names), i : Nat]]
        /\ at'[t].step = "again" /\ at'[t].path = p /\ at'[t].i = i
        /\ \A u \in Processes \ {t} : at'[u] = at[u]
    BY <1>2, <1>3, <2>1, StepKeepsTypes DEF Steps
  <2>3. d \in seen[t] \/ Blocked(t)
    <3>1. CASE d \in folders
      BY <1>1, <3>1, ThereOrLost
    <3>2. CASE d \in files
      BY <1>2, <3>2 DEF Blocked
    <3>3. CASE Front(d) # << >> /\ Front(d) \notin folders
      <4>1. Front(d) = Prefix(p, i - 1)
        BY <1>2, FrontOfPrefix
      <4>2. i # 1
        BY <1>2, <3>3, <4>1, WholePath
      <4>3. i - 1 \in 1..(i - 1) /\ i - 1 \in 1..Len(p)
        BY <1>2, <4>2
      <4>4. Prefix(p, i - 1) \in lost[t]
        BY <1>1, <1>2, <3>3, <4>1, <4>3, ThereOrLost
      <4>. QED  BY <4>3, <4>4 DEF Blocked
    <3>. QED  BY <1>5, <3>1, <3>2, <3>3 DEF mkdir, file_directory_exists_os
  <2>4. Blocked(t) => Blocked(t)'
    BY <2>1, <2>2 DEF Blocked
  <2>5. Knows(t)'
    BY <1>2, <2>1, <2>2, <2>3, <2>4 DEF Knows
  <2>. QED  BY <1>1, <2>1, <2>2, <2>5, CallStep
<1>. QED  BY <1>4, <1>5

-----------------------------------------------------------------------------
LEMMA DirStepInv == DirInv /\ [DirNext]_dir_vars => DirInv'
<1> SUFFICES ASSUME DirInv, [DirNext]_dir_vars PROVE DirInv'
  OBVIOUS
<1>1. ASSUME NEW t \in Processes, file_create_directory_recursive_os(t) PROVE DirInv'
  BY <1>1, AskKeepsDirInv, CheckKeepsDirInv, MakeKeepsDirInv, AnswerKeepsDirInv DEF file_create_directory_recursive_os
<1>2. ASSUME NEW n \in 1..MaxLength, NEW p \in [1..n -> Names], Other(p) PROVE DirInv'
  <2>1. p \in Seq(Names) /\ Len(p) = n /\ p # << >>
    BY DirAssumption
  <2>. QED  BY <1>2, <2>1, OtherKeepsDirInv
<1>3. CASE UNCHANGED dir_vars
  BY <1>3 DEF dir_vars, DirInv, DirTypeOK, Rooted, Remembers, Knows, Blocked
<1>. QED  BY <1>1, <1>2, <1>3 DEF DirNext

LEMMA DirInvMeans == DirInv => DirectoriesAreMade
<1> SUFFICES ASSUME DirInv, NEW t \in Processes
             PROVE  LET p == at[t].path
                    IN  /\ at[t].step = "made" =>
                             /\ \A i \in DOMAIN p : Prefix(p, i) \in seen[t]
                             /\ p \in folders \/ \E i \in DOMAIN p : Prefix(p, i) \in lost[t]
                        /\ at[t].step = "failed" =>
                             p = << >> \/ \E i \in DOMAIN p : Prefix(p, i) \in files \cup lost[t]
  BY DEF DirectoriesAreMade
<1> DEFINE p == at[t].path
<1>1. p \in Seq(Names) /\ DOMAIN p = 1..Len(p)
  BY DEF DirInv, DirTypeOK
<1>2. Knows(t)
  BY DEF DirInv
<1>3. ASSUME at[t].step = "made"
      PROVE  /\ \A i \in DOMAIN p : Prefix(p, i) \in seen[t]
             /\ p \in folders \/ \E i \in DOMAIN p : Prefix(p, i) \in lost[t]
  <2>1. p # << >> /\ \A i \in DOMAIN p : Prefix(p, i) \in seen[t]
    BY <1>1, <1>2, <1>3 DEF Knows
  <2>2. Len(p) \in DOMAIN p /\ Prefix(p, Len(p)) = p
    BY <1>1, <2>1, WholePath
  <2>. QED  BY <1>3, <2>1, <2>2, ThereOrLost
<1>4. at[t].step = "failed" => p = << >> \/ \E i \in DOMAIN p : Prefix(p, i) \in files \cup lost[t]
  BY <1>1, <1>2 DEF Knows, Blocked
<1>. QED  BY <1>3, <1>4

(* The invariant of the calls and the tree holds of every process and path. *)
THEOREM DirInvariantAlways == DirSpec => []DirInv
<1>. QED  BY DirInitInv, DirStepInv, PTL DEF DirSpec

(* DirectoriesAreMade: a call that answers success met every component, and *)
(* the path is there unless one was removed meanwhile; it fails otherwise  *)
(* only for a file in its way (posix.c:427-473), for any number of         *)
(* processes and paths of any length.                                      *)
THEOREM DirectoriesAreMadeAlways == DirSpec => []DirectoriesAreMade
<1>. QED  BY DirInvariantAlways, DirInvMeans, PTL

-----------------------------------------------------------------------------
(***************************************************************************)
(* The crash history.  Only the main thread saves, and the handler of its  *)
(* own crash holds it: so a state that is loaded holds the last records,   *)
(* the recent slots stand one to one for the recent ones of them, and the  *)
(* startup time in the file is the session's.                              *)
(***************************************************************************)

SIZE == CRASH_HISTORY_SIZE
CrashStates == [count : Nat, safe : BOOLEAN, startup : Nat, times : [0..SIZE - 1 -> Nat]]
Sessions == [up : BOOLEAN, installed : BOOLEAN, ready : BOOLEAN, started : BOOLEAN, age : Nat]

CrashTypeOK ==
  /\ file = Unreadable \/ \E s \in CrashStates : file = <<s>>
  /\ clock \in Nat /\ steps \in Nat
  /\ session \in Sessions
  /\ op = Resting \/ op \in [at : {"truncate", "write"}, state : CrashStates, effect : {"keep", "clear", "add"}, time : Nat]
  /\ handler = Resting \/ handler \in [at : {"entered"}, worker : {FALSE}]
       \/ handler \in [at : {"read"}, worker : {FALSE}, state : CrashStates]
  /\ recorded \in Seq(Nat)
  /\ verdict \in [answer : {"None", "Detected", "SafeModeActive"}, real : BOOLEAN]
  /\ cleared \in SUBSET Nat

(* A state holds the last of the records made.                             *)
HoldsRecords(s, r) ==
  /\ s.count = Len(r)
  /\ \A i \in 1..Len(r) : i > Len(r) - SIZE => s.times[(i - 1) % SIZE] = r[i]

(* What is saved is what was recorded; a file that cannot be read and is   *)
(* not being written has lost every record.                                *)
WillHold(s, effect, time) ==
  CASE effect = "keep" -> HoldsRecords(s, recorded)
    [] effect = "clear" -> HoldsRecords(s, << >>)
    [] effect = "add" -> HoldsRecords(s, Append(recorded, time))
FileHolds ==
  /\ file # Unreadable => HoldsRecords(Head(file), recorded)
  /\ file = Unreadable /\ (op = Resting \/ op.at = "truncate") => recorded = << >>
SaveHolds == op # Resting => WillHold(op.state, op.effect, op.time)
HandlerHolds == handler # Resting /\ handler.at = "read" => handler.state = load_crash_state

(* A startup time is no older than the session, however the clock steps.   *)
Dated(s) == s.startup = 0 \/ session.age >= LongSession \/ clock - s.startup <= session.age
StartupIsDated ==
  /\ session.started => session.up
  /\ session.started => Dated(IF op = Resting THEN load_crash_state ELSE op.state)

CrashInv ==
  /\ CrashTypeOK /\ FileHolds /\ SaveHolds /\ HandlerHolds /\ StartupIsDated
  /\ LoopsAreDetected /\ OnlyLongSessionsClear

-----------------------------------------------------------------------------
(* Division.                                                               *)
LEMMA Division ==
  ASSUME NEW n \in Nat \ {0}, NEW a \in Nat
  PROVE  a % n \in 0..(n - 1) /\ a % n <= a /\ a \div n \in Nat /\ a = n * (a \div n) + (a % n)
  OBVIOUS

LEMMA DivisionIsUnique ==
  ASSUME NEW n \in Nat \ {0}, NEW a \in Nat, NEW r \in 0..(n - 1), NEW q \in Nat, a = n * q + r
  PROVE  a % n = r
  OBVIOUS

(* Two numbers less than n apart fall into different slots.                *)
LEMMA SlotsDiffer ==
  ASSUME NEW n \in Nat \ {0}, NEW a \in Nat, NEW b \in Nat, a < b, b - a < n
  PROVE  a % n # b % n
<1> SUFFICES ASSUME a % n = b % n PROVE FALSE
  OBVIOUS
<1>1. PICK q \in Nat : a = n * q + (a % n) /\ q = a \div n
  BY Division
<1>2. PICK p \in Nat : b = n * p + (a % n) /\ p = b \div n
  BY Division
<1>3. a % n \in Int
  BY Division
<1>4. b - a = n * p - n * q /\ n * p \in Int /\ n * q \in Int
  BY <1>1, <1>2, <1>3
<1>5. n * p - n * q = n * (p - q)
  OBVIOUS
<1>6. CASE p <= q
  <2>1. n * (q - p) >= 0 /\ n * (p - q) = -(n * (q - p))
    BY <1>6
  <2>. QED  BY <1>4, <1>5, <2>1
<1>7. CASE p > q
  <2>1. n * (p - q) >= n
    BY <1>7
  <2>. QED  BY <1>4, <1>5, <2>1
<1>. QED  BY <1>6, <1>7

(* Every slot is met within n numbers.                                     *)
LEMMA SlotIsMet ==
  ASSUME NEW n \in Nat \ {0}, NEW s \in 0..(n - 1), NEW b \in Nat, s <= b
  PROVE  \E a \in 0..b : a % n = s /\ b - a < n
<1>0. b - s \in Nat /\ s \in Nat /\ n - 1 \in Nat
  OBVIOUS
<1>1. PICK q \in Nat, r \in 0..(n - 1) : b - s = n * q + r
  BY <1>0, Division
<1>2. n * q \in Nat
  BY <1>1
<1>3. PICK m \in Nat : m = n * q
  BY <1>2
<1>4. s + m \in 0..b /\ b - (s + m) < n
  BY <1>0, <1>1, <1>3
<1>5. (s + m) % n = s
  BY <1>0, <1>3, <1>4, DivisionIsUnique
<1>. QED  BY <1>4, <1>5

-----------------------------------------------------------------------------
(* The states of the history.                                              *)
LEMMA FreshIsEmpty == FreshState \in CrashStates /\ HoldsRecords(FreshState, << >>) /\ FreshState.startup = 0
  BY CrashAssumption DEF FreshState, CrashStates, HoldsRecords, SIZE

LEMMA LoadedIsState == CrashTypeOK => load_crash_state \in CrashStates
<1> SUFFICES ASSUME CrashTypeOK PROVE load_crash_state \in CrashStates
  OBVIOUS
<1>1. CASE file = Unreadable
  BY <1>1, FreshIsEmpty DEF load_crash_state
<1>2. CASE file # Unreadable
  <2>1. PICK s \in CrashStates : file = <<s>>
    BY <1>2 DEF CrashTypeOK
  <2>2. Head(file) = s
    BY <2>1
  <2>. QED  BY <1>2, <2>2 DEF load_crash_state
<1>. QED  BY <1>1, <1>2

LEMMA Added ==
  ASSUME NEW s \in CrashStates, NEW time \in Nat
  PROVE  /\ AddRecord(s, time) \in CrashStates
         /\ AddRecord(s, time).count = s.count + 1 /\ AddRecord(s, time).startup = s.startup
         /\ AddRecord(s, time).times = [s.times EXCEPT ![s.count % SIZE] = time]
<1>1. s.count % SIZE \in 0..SIZE - 1
  BY CrashAssumption, Division DEF CrashStates, SIZE
<1>2. PICK k \in 0..SIZE - 1 : k = s.count % SIZE
  BY <1>1
<1>3. [s.times EXCEPT ![k] = time] \in [0..SIZE - 1 -> Nat] /\ s.count + 1 \in Nat
  BY <1>2 DEF CrashStates
<1>4. AddRecord(s, time) = [s EXCEPT !.times = [s.times EXCEPT ![k] = time], !.count = s.count + 1]
  BY <1>2 DEF AddRecord, SIZE, CrashStates
<1>. QED  BY <1>2, <1>3, <1>4 DEF CrashStates

(* A record takes the slot of the oldest one.                              *)
LEMMA AddHolds ==
  ASSUME NEW s \in CrashStates, NEW r \in Seq(Nat), NEW time \in Nat, HoldsRecords(s, r)
  PROVE  HoldsRecords(AddRecord(s, time), Append(r, time))
<1> DEFINE a == AddRecord(s, time)
           c == Append(r, time)
<1>1. /\ c \in Seq(Nat) /\ Len(c) = Len(r) + 1 /\ Len(r) \in Nat /\ s.count = Len(r) /\ c[Len(r) + 1] = time
      /\ \A i \in 1..Len(r) : c[i] = r[i]
  BY AppendProperties DEF HoldsRecords
<1>2. a.count = Len(c) /\ a.times = [s.times EXCEPT ![Len(r) % SIZE] = time] /\ s.times \in [0..SIZE - 1 -> Nat]
  BY <1>1, Added DEF CrashStates
<1>3. SIZE \in Nat \ {0} /\ Len(r) % SIZE \in 0..SIZE - 1
  BY <1>1, CrashAssumption, Division DEF SIZE
<1>4. ASSUME NEW i \in 1..Len(c), i > Len(c) - SIZE
      PROVE  a.times[(i - 1) % SIZE] = c[i]
  <2>1. CASE i = Len(r) + 1
    <3>1. i - 1 = Len(r)
      BY <1>1, <2>1
    <3>. QED  BY <1>1, <1>2, <1>3, <2>1, <3>1
  <2>2. CASE i # Len(r) + 1
    <3>1. i \in 1..Len(r) /\ i > Len(r) - SIZE /\ i - 1 \in Nat /\ i - 1 < Len(r) /\ Len(r) - (i - 1) < SIZE
      BY <1>1, <1>3, <1>4, <2>2
    <3>2. (i - 1) % SIZE # Len(r) % SIZE
      BY <1>1, <1>3, <3>1, SlotsDiffer
    <3>3. s.times[(i - 1) % SIZE] = r[i]
      BY <3>1 DEF HoldsRecords
    <3>4. (i - 1) % SIZE \in 0..SIZE - 1
      BY <1>3, <3>1, Division
    <3>. QED  BY <1>1, <1>2, <3>1, <3>2, <3>3, <3>4
  <2>. QED  BY <2>1, <2>2
<1>. QED  BY <1>2, <1>4 DEF HoldsRecords

-----------------------------------------------------------------------------
(* The recent slots are the recent ones of the last records.               *)
LastRecent == {i \in DOMAIN recorded : IsRecent(recorded[i]) /\ i > Len(recorded) - SIZE}
RecentSlots(s) == {i \in 0..Kept(s.count) - 1 : IsRecent(s.times[i])}

LEMMA LeastOfTwo ==
  ASSUME NEW a \in Int, NEW b \in Int
  PROVE  Min({a, b}) = IF a <= b THEN a ELSE b
<1>1. \E x \in {a, b} : \A y \in {a, b} : x <= y
  OBVIOUS
<1>2. Min({a, b}) \in {a, b} /\ \A y \in {a, b} : Min({a, b}) <= y
  BY <1>1 DEF Min
<1>. QED  BY <1>2

LEMMA SlotsAreRecords ==
  ASSUME NEW s \in CrashStates, recorded \in Seq(Nat), HoldsRecords(s, recorded)
  PROVE  Cardinality(RecentSlots(s)) = Cardinality(LastRecent)
<1> DEFINE n == Len(recorded)
           f == [i \in LastRecent |-> (i - 1) % SIZE]
<1>1. n \in Nat /\ DOMAIN recorded = 1..n /\ s.count = n /\ SIZE \in Nat \ {0}
  BY CrashAssumption DEF HoldsRecords, SIZE
<1>2. Kept(s.count) = IF n <= SIZE THEN n ELSE SIZE
  BY <1>1, LeastOfTwo DEF Kept, SIZE
<1> HIDE DEF n
<1>3. ASSUME NEW i \in LastRecent
      PROVE  /\ i \in 1..n /\ i > n - SIZE /\ i - 1 \in Nat
             /\ f[i] \in RecentSlots(s) /\ f[i] = (i - 1) % SIZE
  <2>1. i \in 1..n /\ i > n - SIZE /\ IsRecent(recorded[i]) /\ i - 1 \in Nat
    BY <1>1 DEF LastRecent, n
  <2>2. s.times[(i - 1) % SIZE] = recorded[i]
    BY <2>1 DEF HoldsRecords, n
  <2>3. (i - 1) % SIZE \in 0..(SIZE - 1) /\ (i - 1) % SIZE <= i - 1
    BY <1>1, <2>1, Division
  <2>4. (i - 1) % SIZE \in 0..(Kept(s.count) - 1)
    BY <1>1, <1>2, <2>1, <2>3
  <2>. QED  BY <2>1, <2>2, <2>4 DEF RecentSlots
<1>4. ASSUME NEW i \in LastRecent, NEW j \in LastRecent, i < j
      PROVE  f[i] # f[j]
  <2>0. i \in Int /\ j \in Int /\ i > n - SIZE /\ j <= n
    BY <1>1, <1>3
  <2>1. i - 1 < j - 1 /\ (j - 1) - (i - 1) < SIZE
    BY <1>1, <1>4, <2>0
  <2>. QED  BY <1>1, <1>3, <2>1, SlotsDiffer
<1>5. ASSUME NEW i \in LastRecent, NEW j \in LastRecent, f[i] = f[j]
      PROVE  i = j
  <2>1. i \in 1..n /\ j \in 1..n
    BY <1>3
  <2>2. ~(i < j) /\ ~(j < i)
    BY <1>4, <1>5
  <2>. QED  BY <1>1, <2>1, <2>2
<1>6. ASSUME NEW k \in RecentSlots(s)
      PROVE  \E i \in LastRecent : f[i] = k
  <2>1. k \in 0..(Kept(s.count) - 1) /\ IsRecent(s.times[k])
    BY DEF RecentSlots
  <2>2. k \in 0..(SIZE - 1) /\ n - 1 \in Nat /\ k <= n - 1
    BY <1>1, <1>2, <2>1
  <2>3. PICK a \in 0..(n - 1) : a % SIZE = k /\ (n - 1) - a < SIZE
    BY <1>1, <2>2, SlotIsMet
  <2>4. a + 1 \in 1..n /\ a + 1 > n - SIZE /\ (a + 1) - 1 = a
    BY <1>1, <2>2, <2>3
  <2>5. s.times[k] = recorded[a + 1]
    BY <2>3, <2>4 DEF HoldsRecords, n
  <2>6. a + 1 \in LastRecent
    BY <1>1, <2>1, <2>4, <2>5 DEF LastRecent, n
  <2>. QED  BY <1>3, <2>3, <2>4, <2>6
<1>7. f \in Bijection(LastRecent, RecentSlots(s))
  <2>1. f \in [LastRecent -> RecentSlots(s)]
    BY <1>3
  <2>. HIDE DEF f
  <2>. QED  BY <1>5, <1>6, <2>1 DEF Bijection, Injection, Surjection, IsInjective
<1>8. IsFiniteSet(LastRecent)
  <2>1. LastRecent \subseteq 1..n
    BY <1>3
  <2>2. IsFiniteSet(1..n)
    BY <1>1, FS_Interval
  <2>. QED  BY <2>1, <2>2, FS_Subset
<1>9. ExistsBijection(LastRecent, RecentSlots(s))
  BY <1>7 DEF ExistsBijection
<1>. QED  BY <1>8, <1>9, FS_Bijection

-----------------------------------------------------------------------------
LEMMA CrashInitInv == CrashInit => CrashInv
<1> SUFFICES ASSUME CrashInit PROVE CrashInv
  OBVIOUS
<1>1. CrashTypeOK
  BY EmptySeq DEF CrashInit, CrashTypeOK, Sessions, NoSession, NoVerdict
<1>2. FileHolds /\ SaveHolds /\ HandlerHolds
  BY DEF CrashInit, FileHolds, SaveHolds, HandlerHolds
<1>3. StartupIsDated /\ LoopsAreDetected /\ OnlyLongSessionsClear
  BY DEF CrashInit, StartupIsDated, LoopsAreDetected, OnlyLongSessionsClear, NoSession, NoVerdict
<1>. QED  BY <1>1, <1>2, <1>3 DEF CrashInv

(* Between two calls the state read is the one of the records.             *)
LEMMA LoadedHolds ==
  ASSUME CrashInv, op = Resting \/ op.at = "truncate"
  PROVE  load_crash_state \in CrashStates /\ HoldsRecords(load_crash_state, recorded)
<1>1. CASE file = Unreadable
  BY <1>1, LoadedIsState, FreshIsEmpty DEF CrashInv, FileHolds, load_crash_state
<1>2. CASE file # Unreadable
  BY <1>2, LoadedIsState DEF CrashInv, FileHolds, load_crash_state
<1>. QED  BY <1>1, <1>2

(* A call saves a state, or cannot.                                        *)
LEMMA SaveStarts ==
  ASSUME CrashInv, MainIsFree, NEW s \in CrashStates, NEW effect \in {"keep", "clear", "add"}, Saves(s, effect),
         WillHold(s, effect, clock), UNCHANGED <<file, clock, steps, handler, recorded>>,
         session' \in Sessions, session' = session \/ op' # Resting,
         session'.started => session'.up /\ Dated(s)',
         verdict' \in [answer : {"None", "Detected", "SafeModeActive"}, real : BOOLEAN], cleared' \in SUBSET Nat
  PROVE  CrashTypeOK' /\ FileHolds' /\ SaveHolds' /\ HandlerHolds' /\ StartupIsDated'
<1> DEFINE save == [at |-> "truncate", state |-> s, effect |-> effect, time |-> clock]
<1>0. CrashTypeOK /\ op = Resting /\ handler = Resting
  BY DEF CrashInv, MainIsFree
<1>1. op' = Resting \/ op' = save
  BY DEF Saves
<1>2. save \in [at : {"truncate", "write"}, state : CrashStates, effect : {"keep", "clear", "add"}, time : Nat]
      /\ save # Resting /\ save.at = "truncate" /\ save.state = s /\ save.effect = effect /\ save.time = clock
  BY <1>0 DEF CrashTypeOK, Resting
<1> HIDE DEF save
<1>3. CrashTypeOK'
  BY <1>0, <1>1, <1>2 DEF CrashTypeOK
<1>4. FileHolds'
  BY <1>0, <1>1, <1>2 DEF FileHolds, CrashInv
<1>5. SaveHolds'
  BY <1>1, <1>2 DEF SaveHolds, WillHold
<1>6. HandlerHolds'
  BY <1>0 DEF HandlerHolds
<1>7. load_crash_state' = load_crash_state
  BY DEF load_crash_state
<1>8. StartupIsDated'
  BY <1>0, <1>1, <1>2, <1>7 DEF StartupIsDated, CrashInv, Dated
<1>. QED  BY <1>3, <1>4, <1>5, <1>6, <1>8

(* A session that ends leaves a file of its records, or none.              *)
LEMMA DeathKeepsInv ==
  ASSUME CrashInv, Dies, Torn, UNCHANGED file
  PROVE  CrashInv'
<1>1. CrashTypeOK'
  <2>1. recorded' \in Seq(Nat)
    BY EmptySeq DEF Torn, CrashInv, CrashTypeOK
  <2>. QED  BY <2>1 DEF Dies, CrashInv, CrashTypeOK, Sessions, NoSession, NoVerdict
<1>2. FileHolds' /\ SaveHolds' /\ HandlerHolds'
  BY DEF Dies, Torn, CrashInv, FileHolds, SaveHolds, HandlerHolds
<1>3. StartupIsDated' /\ LoopsAreDetected' /\ OnlyLongSessionsClear'
  BY DEF Dies, StartupIsDated, LoopsAreDetected, OnlyLongSessionsClear, NoSession, NoVerdict
<1>. QED  BY <1>1, <1>2, <1>3 DEF CrashInv

(* The handler of the main thread's crash holds the main thread.           *)
LEMMA MainRunsAlone ==
  ASSUME CrashTypeOK, MainRuns
  PROVE  handler = Resting
<1> SUFFICES ASSUME handler # Resting PROVE FALSE
  OBVIOUS
<1>1. handler.worker
  BY DEF MainRuns
<1>2. handler.worker \in {FALSE}
  BY DEF CrashTypeOK
<1>3. handler.worker = FALSE
  BY <1>2
<1>. QED  BY <1>1, <1>3

LEMMA truncateKeeps == ASSUME CrashInv, truncate PROVE CrashInv'
<1>0. CrashTypeOK /\ op # Resting /\ op.at = "truncate" /\ op' = [op EXCEPT !.at = "write"] /\ file' = Unreadable
      /\ handler = Resting
  BY MainRunsAlone DEF CrashInv, truncate, Resting
<1>1. op \in [at : {"truncate", "write"}, state : CrashStates, effect : {"keep", "clear", "add"}, time : Nat]
  BY <1>0 DEF CrashTypeOK
<1>2. op' \in [at : {"truncate", "write"}, state : CrashStates, effect : {"keep", "clear", "add"}, time : Nat]
      /\ op'.at = "write" /\ op'.state = op.state /\ op'.effect = op.effect /\ op'.time = op.time /\ op' # Resting
  BY <1>0, <1>1 DEF Resting
<1>3. UNCHANGED <<clock, steps, session, handler, recorded, verdict, cleared>>
  BY DEF truncate
<1>4. CrashTypeOK'
  BY <1>0, <1>2, <1>3 DEF CrashTypeOK
<1>5. FileHolds'
  BY <1>0, <1>2 DEF FileHolds
<1>6. SaveHolds'
  BY <1>0, <1>2, <1>3 DEF CrashInv, SaveHolds, WillHold
<1>7. HandlerHolds'
  BY <1>0, <1>3 DEF HandlerHolds
<1>8. StartupIsDated'
  BY <1>0, <1>2, <1>3 DEF CrashInv, StartupIsDated, Dated
<1>. QED  BY <1>3, <1>4, <1>5, <1>6, <1>7, <1>8 DEF CrashInv, LoopsAreDetected, OnlyLongSessionsClear

LEMMA writeKeeps == ASSUME CrashInv, write PROVE CrashInv'
<1>0. CrashTypeOK /\ op # Resting /\ op' = Resting /\ file' = <<op.state>> /\ handler = Resting
  BY MainRunsAlone DEF CrashInv, write, Resting
<1>1. op \in [at : {"truncate", "write"}, state : CrashStates, effect : {"keep", "clear", "add"}, time : Nat]
  BY <1>0 DEF CrashTypeOK
<1>2. PICK s \in CrashStates : s = op.state
  BY <1>1
<1>3. file' = <<s>> /\ file' # Unreadable /\ Head(file') = s
  BY <1>0, <1>2 DEF Unreadable
<1>4. UNCHANGED <<clock, steps, session, handler, verdict, cleared>>
  BY DEF write
<1>5. recorded' \in Seq(Nat) /\ HoldsRecords(s, recorded')
  <2>0. WillHold(s, op.effect, op.time) /\ recorded \in Seq(Nat) /\ op.time \in Nat
    BY <1>0, <1>1, <1>2 DEF CrashInv, SaveHolds, CrashTypeOK
  <2>1. CASE op.effect = "keep"
    BY <2>0, <2>1 DEF write, WillHold
  <2>2. CASE op.effect = "clear"
    BY <2>0, <2>2, EmptySeq DEF write, WillHold
  <2>3. CASE op.effect = "add"
    BY <2>0, <2>3, AppendProperties DEF write, WillHold
  <2>. QED  BY <1>1, <2>1, <2>2, <2>3
<1>6. CrashTypeOK'
  BY <1>0, <1>3, <1>4, <1>5 DEF CrashTypeOK
<1>7. FileHolds' /\ SaveHolds' /\ HandlerHolds'
  BY <1>0, <1>3, <1>4, <1>5 DEF FileHolds, SaveHolds, HandlerHolds
<1>8. load_crash_state' = s
  BY <1>3 DEF load_crash_state
<1>9. StartupIsDated'
  BY <1>0, <1>2, <1>4, <1>8 DEF CrashInv, StartupIsDated, Dated
<1>. QED  BY <1>4, <1>6, <1>7, <1>9 DEF CrashInv, LoopsAreDetected, OnlyLongSessionsClear

(* A call that saves nothing.                                              *)
LEMMA Stays ==
  ASSUME CrashInv, UNCHANGED <<file, op, handler, recorded>>, clock' \in Nat, steps' \in Nat, session' \in Sessions,
         session'.started => session.started /\ session'.up,
         session'.started => session'.age >= LongSession \/ clock' - clock <= session'.age - session.age,
         session'.started => session'.age >= session.age \/ session'.age >= LongSession,
         verdict' \in [answer : {"None", "Detected", "SafeModeActive"}, real : BOOLEAN], cleared' \in SUBSET Nat
  PROVE  CrashTypeOK' /\ FileHolds' /\ SaveHolds' /\ HandlerHolds' /\ StartupIsDated'
<1>0. CrashTypeOK /\ clock \in Nat /\ session.age \in Nat /\ session'.age \in Nat /\ LongSession \in Nat
  BY CrashAssumption DEF CrashInv, CrashTypeOK, Sessions
<1>1. CrashTypeOK'
  BY <1>0 DEF CrashTypeOK
<1>2. FileHolds' /\ SaveHolds' /\ HandlerHolds' /\ load_crash_state' = load_crash_state
  BY DEF CrashInv, FileHolds, SaveHolds, WillHold, HandlerHolds, load_crash_state
<1>3. StartupIsDated'
  <2>1. ASSUME NEW s \in CrashStates, Dated(s), session'.started
        PROVE  s.startup = 0 \/ session'.age >= LongSession \/ clock' - s.startup <= session'.age
    <3>1. s.startup \in Nat
      BY DEF CrashStates
    <3>. QED  BY <1>0, <2>1, <3>1 DEF Dated
  <2>2. load_crash_state \in CrashStates /\ (op # Resting => op.state \in CrashStates)
    BY <1>0, LoadedIsState DEF CrashTypeOK
  <2>3. session.started => Dated(IF op = Resting THEN load_crash_state ELSE op.state)
    BY DEF CrashInv, StartupIsDated
  <2>4. PICK s \in CrashStates : s = IF op = Resting THEN load_crash_state ELSE op.state
    BY <2>2
  <2>5. session'.started => Dated(s)'
    BY <2>1, <2>3, <2>4 DEF Dated
  <2>. QED  BY <1>2, <2>4, <2>5 DEF StartupIsDated
<1>. QED  BY <1>1, <1>2, <1>3

LEMMA checkKeeps == ASSUME CrashInv, crash_detector_check PROVE CrashInv'
<1> DEFINE s == load_crash_state
           loop == RecentCrashes(s) >= CRASH_LOOP_THRESHOLD
           real == Cardinality({i \in DOMAIN recorded : IsRecent(recorded[i]) /\
                                  i > Len(recorded) - CRASH_HISTORY_SIZE}) >= CRASH_LOOP_THRESHOLD
<1>0. CrashTypeOK /\ MainIsFree /\ op = Resting /\ handler = Resting
      /\ UNCHANGED <<file, clock, steps, session, handler, recorded, cleared>>
  BY DEF CrashInv, crash_detector_check, MainIsFree
<1>1. s \in CrashStates /\ HoldsRecords(s, recorded)
  BY <1>0, LoadedHolds
<1>2. loop <=> real
  <2>1. Cardinality(RecentSlots(s)) = Cardinality(LastRecent)
    BY <1>0, <1>1, SlotsAreRecords DEF CrashTypeOK
  <2>. QED  BY <2>1 DEF RecentCrashes, RecentSlots, LastRecent, SIZE
<1>3. real \in BOOLEAN
  OBVIOUS
<1>d. s.startup \in Nat /\ (session.started => session.up /\ Dated(s))
  BY <1>0, <1>1 DEF CrashInv, StartupIsDated, CrashStates
<1>s. PICK safer \in CrashStates : safer = [s EXCEPT !.safe = TRUE]
  BY <1>1 DEF CrashStates
<1>4. /\ verdict' = [answer |-> CASE s.safe -> "SafeModeActive"
                                  [] ~s.safe /\ loop -> "Detected"
                                  [] OTHER -> "None",
                     real |-> real]
      /\ IF ~s.safe /\ loop THEN Saves(safer, "keep") ELSE op' = op
  BY <1>s DEF crash_detector_check
<1>5. HoldsRecords(safer, recorded) /\ safer.startup = s.startup
  BY <1>1, <1>s DEF CrashStates, HoldsRecords
<1> HIDE DEF loop, real, s
<1>6. verdict' \in [answer : {"None", "Detected", "SafeModeActive"}, real : BOOLEAN] /\ LoopsAreDetected'
  <2>1. verdict'.answer \in {"None", "Detected", "SafeModeActive"} /\ verdict'.real = real
        /\ (verdict'.answer = "None" => ~loop) /\ (verdict'.answer = "Detected" => loop)
    <3>1. CASE s.safe
      BY <1>4, <3>1
    <3>2. CASE ~s.safe /\ loop
      BY <1>4, <3>2
    <3>3. CASE ~s.safe /\ ~loop
      BY <1>4, <3>3
    <3>. QED  BY <3>1, <3>2, <3>3
  <2>2. verdict' = [answer |-> verdict'.answer, real |-> verdict'.real]
    BY <1>4
  <2>. QED  BY <1>2, <1>3, <2>1, <2>2 DEF LoopsAreDetected
<1>7. CrashTypeOK' /\ FileHolds' /\ SaveHolds' /\ HandlerHolds' /\ StartupIsDated'
  <2>0. session' \in Sessions /\ cleared' \in SUBSET Nat
    BY <1>0 DEF CrashTypeOK
  <2>1. CASE ~s.safe /\ loop
    <3>1. Saves(safer, "keep") /\ WillHold(safer, "keep", clock)
      BY <1>4, <1>5, <2>1 DEF WillHold
    <3>2. session'.started => session'.up /\ Dated(safer)'
      BY <1>0, <1>5, <1>d DEF Dated
    <3>. QED  BY <1>0, <1>5, <1>6, <2>0, <3>1, <3>2, SaveStarts
  <2>2. CASE ~(~s.safe /\ loop)
    <3>1. op' = op
      BY <1>4, <2>2
    <3>2. clock \in Nat /\ steps \in Nat /\ session.age \in Nat /\ session \in Sessions
      BY <1>0 DEF CrashTypeOK, Sessions
    <3>3. session.started => session.up
      BY DEF CrashInv, StartupIsDated
    <3>. QED  BY <1>0, <1>6, <2>0, <3>1, <3>2, <3>3, Stays
  <2>. QED  BY <2>1, <2>2
<1>. QED  BY <1>0, <1>6, <1>7 DEF CrashInv, OnlyLongSessionsClear

LEMMA recordKeeps == ASSUME CrashInv, crash_detector_record_crash PROVE CrashInv'
<1> DEFINE s == load_crash_state
<1>0. CrashTypeOK /\ MainIsFree /\ op = Resting /\ clock \in Nat /\ recorded \in Seq(Nat)
      /\ UNCHANGED <<file, clock, steps, session, handler, recorded, verdict, cleared>>
  BY DEF CrashInv, CrashTypeOK, crash_detector_record_crash, MainIsFree
<1>1. s \in CrashStates /\ HoldsRecords(s, recorded)
  BY <1>0, LoadedHolds
<1>s. PICK more \in CrashStates : more = AddRecord(s, clock)
  BY <1>0, <1>1, Added
<1>d. session.started => session.up /\ Dated(s)
  BY <1>0 DEF CrashInv, StartupIsDated
<1>2. Saves(more, "add") /\ WillHold(more, "add", clock) /\ more.startup = s.startup
  BY <1>0, <1>1, <1>s, Added, AddHolds DEF WillHold, crash_detector_record_crash
<1>3. session'.started => session'.up /\ Dated(more)'
  BY <1>0, <1>2, <1>d DEF Dated
<1>4. session' \in Sessions /\ cleared' \in SUBSET Nat
      /\ verdict' \in [answer : {"None", "Detected", "SafeModeActive"}, real : BOOLEAN]
  BY <1>0 DEF CrashTypeOK
<1>5. CrashTypeOK' /\ FileHolds' /\ SaveHolds' /\ HandlerHolds' /\ StartupIsDated'
  BY <1>0, <1>2, <1>3, <1>4, SaveStarts
<1>. QED  BY <1>0, <1>5 DEF CrashInv, LoopsAreDetected, OnlyLongSessionsClear

LEMMA startupKeeps == ASSUME CrashInv, crash_detector_record_successful_startup PROVE CrashInv'
<1> DEFINE s == load_crash_state
<1>0. CrashTypeOK /\ MainIsFree /\ op = Resting /\ op' # Resting /\ clock \in Nat
      /\ session' = [session EXCEPT !.started = TRUE] /\ session \in Sessions /\ session.up
      /\ UNCHANGED <<file, clock, steps, handler, recorded, verdict, cleared>>
  BY DEF CrashInv, CrashTypeOK, crash_detector_record_successful_startup, MainIsFree
<1>1. s \in CrashStates /\ HoldsRecords(s, recorded)
  BY <1>0, LoadedHolds
<1>s. PICK later \in CrashStates : later = [s EXCEPT !.startup = clock]
  BY <1>0, <1>1 DEF CrashStates
<1>2. Saves(later, "keep") /\ WillHold(later, "keep", clock) /\ later.startup = clock
  BY <1>0, <1>1, <1>s DEF WillHold, HoldsRecords, CrashStates, crash_detector_record_successful_startup
<1>3. session' \in Sessions /\ session'.up = session.up /\ session'.age = session.age /\ session.age \in Nat
  BY <1>0 DEF Sessions
<1>4. session'.up /\ Dated(later)'
  BY <1>0, <1>2, <1>3 DEF Dated
<1>5. cleared' \in SUBSET Nat /\ verdict' \in [answer : {"None", "Detected", "SafeModeActive"}, real : BOOLEAN]
  BY <1>0 DEF CrashTypeOK
<1>6. CrashTypeOK' /\ FileHolds' /\ SaveHolds' /\ HandlerHolds' /\ StartupIsDated'
  BY <1>0, <1>2, <1>3, <1>4, <1>5, SaveStarts
<1>. QED  BY <1>0, <1>6 DEF CrashInv, LoopsAreDetected, OnlyLongSessionsClear

LEMMA clearKeeps == ASSUME CrashInv, StartupFirst, crash_detector_clear_on_graceful_shutdown PROVE CrashInv'
<1> DEFINE s == load_crash_state
<1>0. CrashTypeOK /\ MainIsFree /\ op = Resting /\ clock \in Nat /\ recorded \in Seq(Nat) /\ session.started
      /\ session \in Sessions /\ session.age \in Nat /\ LongSession \in Nat /\ TimeWidth \in Nat \ {0}
      /\ UNCHANGED <<file, clock, steps, session, handler, recorded, verdict>>
  BY CrashAssumption DEF CrashInv, CrashTypeOK, Sessions, crash_detector_clear_on_graceful_shutdown, MainIsFree
<1>1. s \in CrashStates /\ HoldsRecords(s, recorded) /\ s.startup \in Nat
  BY <1>0, LoadedHolds DEF CrashStates
<1>d. session.up /\ Dated(s)
  BY <1>0 DEF CrashInv, StartupIsDated
<1>2. verdict' \in [answer : {"None", "Detected", "SafeModeActive"}, real : BOOLEAN]
  BY <1>0 DEF CrashTypeOK
<1>3. CASE s.startup # 0 /\ WasLong(s.startup)
  <2>1. PICK empty \in CrashStates : empty = [s EXCEPT !.count = 0, !.safe = FALSE]
    BY <1>1 DEF CrashStates
  <2>2. Saves(empty, "clear") /\ cleared' = cleared \cup {session.age}
    BY <1>3, <2>1 DEF crash_detector_clear_on_graceful_shutdown
  <2>3. empty.startup = s.startup /\ WillHold(empty, "clear", clock)
    BY <1>1, <2>1, EmptySeq DEF WillHold, HoldsRecords, CrashStates
  <2>4. session'.up /\ Dated(empty)'
    BY <1>0, <1>d, <2>3 DEF Dated
  <2>5. session.age >= LongSession
    <3>1. clock - s.startup \in Nat /\ (clock - s.startup) % TimeWidth >= LongSession
      BY <1>0, <1>1, <1>3 DEF WasLong
    <3>2. clock - s.startup >= LongSession
      <4>1. PICK d \in Nat : d = clock - s.startup
        BY <3>1
      <4>2. PICK w \in Nat \ {0} : w = TimeWidth
        BY <1>0
      <4>3. d % w \in 0..(w - 1) /\ d % w <= d
        BY <4>1, Division
      <4>. QED  BY <1>0, <3>1, <4>1, <4>2, <4>3
    <3>. QED  BY <1>0, <1>1, <1>3, <1>d, <3>1, <3>2 DEF Dated
  <2>6. OnlyLongSessionsClear' /\ cleared' \in SUBSET Nat
    BY <1>0, <2>2, <2>5 DEF CrashInv, CrashTypeOK, OnlyLongSessionsClear
  <2>7. CrashTypeOK' /\ FileHolds' /\ SaveHolds' /\ HandlerHolds' /\ StartupIsDated'
    BY <1>0, <1>2, <2>2, <2>3, <2>4, <2>6, SaveStarts
  <2>. QED  BY <1>0, <2>6, <2>7 DEF CrashInv, LoopsAreDetected
<1>4. CASE ~(s.startup # 0 /\ WasLong(s.startup))
  <2>1. UNCHANGED crash_vars
    BY <1>0, <1>4 DEF crash_detector_clear_on_graceful_shutdown, crash_vars
  <2>. QED  BY <2>1 DEF crash_vars, CrashInv, CrashTypeOK, FileHolds, SaveHolds, WillHold, HandlerHolds, StartupIsDated,
                        Dated, load_crash_state, LoopsAreDetected, OnlyLongSessionsClear
<1>. QED  BY <1>3, <1>4

LEMMA exitSafeKeeps == ASSUME CrashInv, crash_detector_exit_safe_mode PROVE CrashInv'
<1> DEFINE s == load_crash_state
<1>0. CrashTypeOK /\ MainIsFree /\ op = Resting /\ session \in Sessions
      /\ UNCHANGED <<file, clock, steps, session, handler, recorded, verdict, cleared>>
  BY DEF CrashInv, CrashTypeOK, crash_detector_exit_safe_mode, MainIsFree
<1>1. s \in CrashStates
  BY <1>0, LoadedHolds
<1>2. PICK empty \in CrashStates : empty = [s EXCEPT !.count = 0, !.safe = FALSE]
  BY <1>1 DEF CrashStates
<1>3. Saves(empty, "clear") /\ empty.startup = s.startup /\ WillHold(empty, "clear", clock)
  BY <1>1, <1>2, EmptySeq DEF WillHold, HoldsRecords, CrashStates, crash_detector_exit_safe_mode
<1>4. session.started => session.up /\ Dated(s)
  BY <1>0 DEF CrashInv, StartupIsDated
<1>5. session'.started => session'.up /\ Dated(empty)'
  BY <1>0, <1>3, <1>4 DEF Dated
<1>6. cleared' \in SUBSET Nat /\ verdict' \in [answer : {"None", "Detected", "SafeModeActive"}, real : BOOLEAN]
  BY <1>0 DEF CrashTypeOK
<1>7. CrashTypeOK' /\ FileHolds' /\ SaveHolds' /\ HandlerHolds' /\ StartupIsDated'
  BY <1>0, <1>3, <1>5, <1>6, SaveStarts
<1>. QED  BY <1>0, <1>7 DEF CrashInv, LoopsAreDetected, OnlyLongSessionsClear

(* Steps of the session or the clock.                                      *)
LEMMA SessionKeeps ==
  ASSUME CrashInv, crash_handler_install \/ crash_handler_uninstall \/ Launch \/ ClockTick \/ StepBackward
  PROVE  CrashInv'
<1>0. CrashTypeOK /\ clock \in Nat /\ steps \in Nat /\ session \in Sessions /\ session.age \in Nat /\ LongSession \in Nat
      /\ UNCHANGED <<file, op, handler, recorded, verdict, cleared>>
  BY CrashAssumption DEF CrashInv, CrashTypeOK, Sessions, crash_handler_install, crash_handler_uninstall, Launch,
     ClockTick, StepBackward
<1>1. session.started => session.up
  BY DEF CrashInv, StartupIsDated
<1>2. cleared' \in SUBSET Nat /\ verdict' \in [answer : {"None", "Detected", "SafeModeActive"}, real : BOOLEAN]
  BY <1>0 DEF CrashTypeOK
<1>3. /\ clock' \in Nat /\ steps' \in Nat /\ session' \in Sessions
      /\ session'.started => session.started /\ session'.up
      /\ session'.started => session'.age >= LongSession \/ clock' - clock <= session'.age - session.age
      /\ session'.started => session'.age >= session.age \/ session'.age >= LongSession
  <2>1. CASE crash_handler_install
    <3>1. PICK ready \in BOOLEAN : session' = [session EXCEPT !.installed = TRUE, !.ready = ready]
      BY <2>1 DEF crash_handler_install
    <3>2. session' \in Sessions /\ session'.started = session.started /\ session'.up = session.up
          /\ session'.age = session.age
      BY <1>0, <3>1 DEF Sessions
    <3>3. clock' = clock /\ steps' = steps
      BY <2>1 DEF crash_handler_install
    <3>. QED  BY <1>0, <1>1, <3>2, <3>3
  <2>2. CASE crash_handler_uninstall
    <3>1. session' = [session EXCEPT !.installed = FALSE] /\ clock' = clock /\ steps' = steps
      BY <2>2 DEF crash_handler_uninstall
    <3>2. session' \in Sessions /\ session'.started = session.started /\ session'.up = session.up
          /\ session'.age = session.age
      BY <1>0, <3>1 DEF Sessions
    <3>. QED  BY <1>0, <1>1, <3>1, <3>2
  <2>3. CASE Launch
    BY <1>0, <2>3 DEF Launch, Sessions, NoSession
  <2>4. CASE ClockTick
    <3>1. PICK age \in Nat : age = (IF session.up THEN Min({session.age + 1, LongSession}) ELSE 0)
      BY <1>0, LeastOfTwo
    <3>2. session' = [session EXCEPT !.age = age] /\ clock' = clock + 1 /\ steps' = steps
      BY <2>4, <3>1 DEF ClockTick
    <3>3. session.up => age >= LongSession \/ age = session.age + 1
      BY <1>0, <3>1, LeastOfTwo
    <3>4. session' \in Sessions /\ session'.age = age /\ session'.started = session.started /\ session'.up = session.up
      BY <1>0, <3>2 DEF Sessions
    <3>. QED  BY <1>0, <1>1, <3>2, <3>3, <3>4
  <2>5. CASE StepBackward
    BY <1>0, <1>1, <2>5 DEF StepBackward
  <2>. QED  BY <2>1, <2>2, <2>3, <2>4, <2>5
<1>4. CrashTypeOK' /\ FileHolds' /\ SaveHolds' /\ HandlerHolds' /\ StartupIsDated'
  BY <1>0, <1>2, <1>3, Stays
<1>. QED  BY <1>0, <1>4 DEF CrashInv, LoopsAreDetected, OnlyLongSessionsClear

(* The handler.                                                            *)
LEMMA CrashKeeps ==
  ASSUME CrashInv, ~WorkersCrash, NEW worker \in BOOLEAN, Crash(worker)
  PROVE  CrashInv'
<1>0. CrashTypeOK /\ worker = FALSE /\ UNCHANGED file
  BY DEF CrashInv, Crash
<1>1. CASE session.installed /\ handler = Resting
  <2>1. handler' = [at |-> "entered", worker |-> FALSE] /\ UNCHANGED <<clock, steps, session, op, recorded, verdict, cleared>>
    BY <1>0, <1>1 DEF Crash
  <2>2. handler' \in [at : {"entered"}, worker : {FALSE}] /\ handler'.at = "entered"
    BY <2>1
  <2>3. CrashTypeOK'
    BY <1>0, <2>1, <2>2 DEF CrashTypeOK
  <2>4. FileHolds' /\ SaveHolds' /\ HandlerHolds' /\ StartupIsDated'
    BY <1>0, <2>1, <2>2 DEF CrashInv, FileHolds, SaveHolds, WillHold, HandlerHolds, StartupIsDated, Dated, load_crash_state
  <2>. QED  BY <2>1, <2>3, <2>4 DEF CrashInv, LoopsAreDetected, OnlyLongSessionsClear
<1>2. CASE ~(session.installed /\ handler = Resting)
  BY <1>0, <1>2, DeathKeepsInv DEF Crash
<1>. QED  BY <1>1, <1>2

LEMMA HandlerAt ==
  ASSUME CrashTypeOK
  PROVE  /\ handler.at = "entered" => handler \in [at : {"entered"}, worker : {FALSE}]
         /\ handler.at = "read" => handler \in [at : {"read"}, worker : {FALSE}, state : CrashStates]
         /\ handler.at \in {"entered", "read"} => handler # Resting
<1>1. handler = Resting => handler.at = "idle"
  BY DEF Resting
<1>2. handler \in [at : {"entered"}, worker : {FALSE}] => handler.at = "entered"
  OBVIOUS
<1>3. handler \in [at : {"read"}, worker : {FALSE}, state : CrashStates] => handler.at = "read"
  OBVIOUS
<1>4. handler = Resting \/ handler \in [at : {"entered"}, worker : {FALSE}]
        \/ handler \in [at : {"read"}, worker : {FALSE}, state : CrashStates]
  BY DEF CrashTypeOK
<1>. QED  BY <1>1, <1>2, <1>3, <1>4

LEMMA readKeeps == ASSUME CrashInv, read_in_handler PROVE CrashInv'
<1>0. CrashTypeOK /\ handler.at = "entered" /\ UNCHANGED file
  BY DEF CrashInv, read_in_handler
<1>1. CASE session.ready
  <2>0. handler \in [at : {"entered"}, worker : {FALSE}]
    BY <1>0, HandlerAt
  <2>1. PICK s \in CrashStates : s = load_crash_state
    BY <1>0, LoadedIsState
  <2>2. handler' = [at |-> "read", worker |-> FALSE, state |-> s]
        /\ UNCHANGED <<clock, steps, session, op, recorded, verdict, cleared>>
    BY <1>1, <2>0, <2>1 DEF read_in_handler
  <2>3. handler' \in [at : {"read"}, worker : {FALSE}, state : CrashStates] /\ handler'.state = s
    BY <2>2
  <2>4. CrashTypeOK'
    BY <1>0, <2>2, <2>3 DEF CrashTypeOK
  <2>5. load_crash_state' = s
    BY <1>0, <2>1 DEF load_crash_state
  <2>6. FileHolds' /\ SaveHolds' /\ HandlerHolds' /\ StartupIsDated'
    BY <1>0, <2>1, <2>2, <2>3, <2>5 DEF CrashInv, FileHolds, SaveHolds, WillHold, HandlerHolds, StartupIsDated, Dated
  <2>. QED  BY <2>2, <2>4, <2>6 DEF CrashInv, LoopsAreDetected, OnlyLongSessionsClear
<1>2. CASE ~session.ready
  BY <1>0, <1>2, DeathKeepsInv DEF read_in_handler
<1>. QED  BY <1>1, <1>2

LEMMA signalKeeps == ASSUME CrashInv, crash_detector_record_crash_from_signal PROVE CrashInv'
<1>0. CrashTypeOK /\ handler.at = "read" /\ Dies /\ clock \in Nat /\ recorded \in Seq(Nat)
  BY DEF CrashInv, CrashTypeOK, crash_detector_record_crash_from_signal
<1>1. handler \in [at : {"read"}, worker : {FALSE}, state : CrashStates] /\ handler.state = load_crash_state
  BY <1>0, HandlerAt DEF CrashInv, HandlerHolds
<1>2. PICK s \in CrashStates : s = handler.state
  BY <1>1
<1>3. PICK more \in CrashStates : more = AddRecord(s, clock)
  BY <1>0, <1>2, Added
<1>4. file' = <<more>> /\ file' # Unreadable /\ Head(file') = more
      /\ recorded' = (IF s = FreshState THEN <<clock>> ELSE Append(recorded, clock))
  BY <1>2, <1>3 DEF crash_detector_record_crash_from_signal, Unreadable
<1>5. recorded' \in Seq(Nat) /\ HoldsRecords(more, recorded')
  <2>1. CASE s = FreshState
    <3>1. PICK e \in Seq(Nat) : e = << >>
      BY EmptySeq
    <3>2. HoldsRecords(s, e) /\ Append(e, clock) = <<clock>>
      BY <2>1, <3>1, FreshIsEmpty
    <3>3. HoldsRecords(more, Append(e, clock)) /\ Append(e, clock) \in Seq(Nat)
      BY <1>0, <1>3, <3>2, AddHolds, AppendProperties
    <3>. QED  BY <1>4, <2>1, <3>2, <3>3
  <2>2. CASE s # FreshState
    <3>1. HoldsRecords(s, recorded)
      BY <1>1, <1>2, <2>2 DEF CrashInv, FileHolds, load_crash_state
    <3>. QED  BY <1>0, <1>3, <1>4, <2>2, <3>1, AddHolds, AppendProperties
  <2>. QED  BY <2>1, <2>2
<1>6. CrashTypeOK'
  BY <1>0, <1>4, <1>5 DEF Dies, CrashTypeOK, Sessions, NoSession, NoVerdict
<1>7. FileHolds' /\ SaveHolds' /\ HandlerHolds'
  BY <1>0, <1>4, <1>5 DEF Dies, FileHolds, SaveHolds, HandlerHolds
<1>8. StartupIsDated' /\ LoopsAreDetected' /\ OnlyLongSessionsClear'
  BY <1>0 DEF Dies, StartupIsDated, LoopsAreDetected, OnlyLongSessionsClear, NoSession, NoVerdict
<1>. QED  BY <1>6, <1>7, <1>8 DEF CrashInv

LEMMA CrashStepInv ==
  ASSUME ~WorkersCrash, StartupFirst
  PROVE  CrashInv /\ [CrashNext]_crash_vars => CrashInv'
<1> SUFFICES ASSUME CrashInv, [CrashNext]_crash_vars PROVE CrashInv'
  OBVIOUS
<1>1. CASE truncate \/ write \/ crash_detector_check \/ crash_detector_record_crash
           \/ crash_detector_record_successful_startup \/ crash_detector_clear_on_graceful_shutdown
           \/ crash_detector_exit_safe_mode
  BY <1>1, truncateKeeps, writeKeeps, checkKeeps, recordKeeps, startupKeeps, clearKeeps, exitSafeKeeps
<1>2. CASE crash_handler_install \/ crash_handler_uninstall \/ Launch \/ ClockTick \/ StepBackward
  BY <1>2, SessionKeeps
<1>3. CASE Exit
  BY <1>3, DeathKeepsInv DEF Exit
<1>4. CASE \E worker \in BOOLEAN : Crash(worker)
  BY <1>4, CrashKeeps
<1>5. CASE read_in_handler \/ crash_detector_record_crash_from_signal
  BY <1>5, readKeeps, signalKeeps
<1>6. CASE UNCHANGED crash_vars
  BY <1>6 DEF crash_vars, CrashInv, CrashTypeOK, FileHolds, SaveHolds, WillHold, HandlerHolds, StartupIsDated,
     Dated, load_crash_state, LoopsAreDetected, OnlyLongSessionsClear
<1>. QED  BY <1>1, <1>2, <1>3, <1>4, <1>5, <1>6 DEF CrashNext

LEMMA CrashInvMeans == CrashInv => CrashHistoryIsTrue
<1> SUFFICES ASSUME CrashInv PROVE RecordsSurvive
  BY DEF CrashHistoryIsTrue, CrashInv
<1>. QED  BY DEF CrashInv, FileHolds, HoldsRecords, RecordsSurvive, SIZE

(* The invariant of the file, the saves and the session: while only the    *)
(* main thread crashes and sessions record their startup.                  *)
THEOREM CrashInvariantAlways ==
  ASSUME ~WorkersCrash, StartupFirst
  PROVE  CrashSpec => []CrashInv
<1>. QED  BY CrashInitInv, CrashStepInv, PTL DEF CrashSpec

(* CrashHistoryIsTrue: crash loops are found when there is one and only    *)
(* then, records are lost only with a torn file, and only a long session   *)
(* clears the history (crash_detector.c, crash_handler.c), for a history   *)
(* and times of any size, wherever the process is stopped and however the  *)
(* clock steps.                                                            *)
THEOREM CrashHistoryIsTrueAlways ==
  ASSUME ~WorkersCrash, StartupFirst
  PROVE  CrashSpec => []CrashHistoryIsTrue
<1>. QED  BY CrashInvariantAlways, CrashInvMeans, PTL

-----------------------------------------------------------------------------
(***************************************************************************)
(* Proofs about InotifyWatcher, for any names, settings and bounds.        *)
(*                                                                         *)
(* The argument: descriptors are inodes, and an inode that was watched has *)
(* kept its path, or is gone for good; so the table, the events that wait  *)
(* and the tree agree on what a descriptor stands for, however stale they  *)
(* are.  While directories wait for the watcher, one that is not watched   *)
(* yet is announced by an event or lies below a name on the walk's list.   *)
(***************************************************************************)

(* The settings the reports are proved for.                                *)
MovesAreSeen == ~(setting.moves /\ setting.recursive)

-----------------------------------------------------------------------------
(* The invariant.                                                          *)

(* A path begins at the watched or the other directory.                    *)
TreePaths ==
  {p \in Seq(Filenames \cup {"watched", "elsewhere"}) :
     Len(p) > 0 /\ \A k \in 2..Len(p) : p[k] \in Filenames}

(* The file system is a tree; its inodes are those ever made, less some.   *)
TreeOK ==
  /\ setting \in Settings /\ inodes \in Nat /\ ops \in Nat
  /\ \A i \in DOMAIN dirs : i \in 1..inodes /\ dirs[i] \in TreePaths
  /\ \A i, j \in DOMAIN dirs : dirs[i] = dirs[j] => i = j
  /\ \A i \in DOMAIN dirs : \A n \in 1..Len(dirs[i]) : \E j \in DOMAIN dirs : dirs[j] = SubSeq(dirs[i], 1, n)

(* Paths that do not change while there is a directory at them.            *)
Steady(p) == p \in TreePaths /\ IsPrefix(Root, p) /\ (setting.moves => p = Root)

(* The kernel watches directories of the tree.                             *)
MarksOK == \A i \in DOMAIN mark : mark[i] = i /\ i \in DOMAIN dirs /\ Steady(dirs[i])

(* The inode d had, or has, path p.                                        *)
IsOf(d, p) == d \in 1..inodes /\ Steady(p) /\ (d \in DOMAIN dirs => dirs[d] = p)

Entries == 0..watches.length - 1

TableOK ==
  /\ watches = [capacity |-> setting.max_watches, length |-> watches.length, data |-> watches.data]
  /\ setting.max_watches \in Nat /\ watches.length \in 0..setting.max_watches
  /\ watches.data = [k \in 0..setting.max_watches - 1 |-> watches.data[k]]
  /\ \A k \in Entries : IsOf(watches.data[k].wd, watches.data[k].path)

(* Each directory the kernel watches is in the table.                      *)
ListedOK == \A i \in DOMAIN mark : \E k \in Entries : watches.data[k].wd = i

EventNames == Filenames \cup {"", "watched", "elsewhere"}

TreeEvents == [wd : Nat, kind : {"create", "delete", "modify", "from", "to", "ignored"},
           name : EventNames, dir : BOOLEAN, at : TreePaths]

(* A descriptor's path is what the table says of it.                       *)
AgreedOn(d, p) == IsOf(d, p) /\ \A k \in Entries : watches.data[k].wd = d => watches.data[k].path = p

(* An event and the table agree on where its directory was.                *)
EventOK(e) == AgreedOn(e.wd, e.at) /\ (e.kind = "ignored" => e.wd \notin DOMAIN dirs)

QueueOK == queue \in Seq(TreeEvents) /\ \A m \in 1..Len(queue) : EventOK(queue[m])

(* Changes at the path that they are reported at.                          *)
TrueChanges == {Nothing} \cup {<<p, p>> : p \in Seq(EventNames)}

Visits == [path : {p \in TreePaths : IsPrefix(Root, p)}, todo : SUBSET (Filenames \ Hidden), then : TrueChanges]

WalkOK == walk \in Seq(Visits) /\ (walk # << >> => setting.recursive)

StateOK == started \in BOOLEAN /\ is_active \in BOOLEAN /\ report \in TrueChanges

AgreeInv == TreeOK /\ MarksOK /\ TableOK /\ ListedOK /\ QueueOK /\ WalkOK /\ StateOK

ReportInv == MovesAreSeen => AgreeInv

-----------------------------------------------------------------------------
(* The tree is watched as a whole, and waits for the watcher.              *)
TreeWaits == setting.recursive /\ setting.patient /\ ~setting.moves

(* The watcher covers its tree, or is about to.                            *)
Covers == IF started THEN is_active ELSE walk # << >>

Extends(e) == e.dir /\ e.kind \in {"create", "to"}

Silent(s) == \A m \in 1..Len(s) : ~Extends(s[m])

Announces(e, p) == Extends(e) /\ IsPrefix(Append(e.at, e.name), p)

(* A new directory is announced once, by its parent, and is empty.         *)
NewsOK ==
  \A m \in 1..Len(queue) : Extends(queue[m]) =>
    /\ queue[m].wd \in DOMAIN mark /\ queue[m].name \in Filenames
    /\ queue[m].kind = "create" =>
         \A j \in DOMAIN dirs : Announces(queue[m], dirs[j]) => dirs[j] = Append(queue[m].at, queue[m].name)

Covered(p) == IsPrefix(Root, p) /\ ToSet(p) \cap Hidden = {}

IsAnnounced(p) == \E m \in 1..Len(queue) : Announces(queue[m], p)
IsToVisit(p)   == \E k \in 1..Len(walk) : \E n \in walk[k].todo : IsPrefix(Append(walk[k].path, n), p)

CoverOK ==
  Covers => \A i \in DOMAIN dirs :
            Covered(dirs[i]) => i \in DOMAIN mark \/ IsAnnounced(dirs[i]) \/ IsToVisit(dirs[i])

CoverInv == TreeWaits => NewsOK /\ CoverOK

IInv == ReportInv /\ CoverInv

-----------------------------------------------------------------------------
(* Paths.                                                                  *)
PathNames == Filenames \cup {"watched", "elsewhere"}

LEMMA PathMeans ==
  ASSUME NEW p
  PROVE  p \in TreePaths <=>
           p \in Seq(PathNames) /\ Len(p) > 0 /\ \A k \in 2..Len(p) : p[k] \in Filenames
  BY DEF TreePaths, PathNames

LEMMA PathIs ==
  ASSUME NEW p \in TreePaths
  PROVE  /\ p \in Seq(PathNames) /\ Len(p) \in Nat /\ Len(p) >= 1 /\ p # << >>
         /\ \A k \in 2..Len(p) : p[k] \in Filenames
  BY EmptySeq DEF TreePaths, PathNames

LEMMA RootIsPath == Root \in TreePaths /\ Outside \in TreePaths /\ Len(Root) = 1 /\ Root[1] = "watched"
<1>1. Root \in Seq(PathNames) /\ Outside \in Seq(PathNames)
  BY DEF Root, Outside, PathNames
<1>2. Len(Root) = 1 /\ Len(Outside) = 1 /\ Root[1] = "watched"
  BY DEF Root, Outside
<1>3. 2..1 = {}
  OBVIOUS
<1> QED
  BY <1>1, <1>2, <1>3, PathMeans

LEMMA PrefixMeans ==
  ASSUME NEW p \in TreePaths, NEW q \in TreePaths
  PROVE  IsPrefix(p, q) <=> Len(p) =< Len(q) /\ \A k \in 1..Len(p) : p[k] = q[k]
<1>1. p \in Seq(PathNames) /\ q \in Seq(PathNames)
  BY PathIs
<1>2. Len(p) \in Nat /\ Len(q) \in Nat
  BY <1>1
<1>3. SubSeq(p, 1, Len(p)) = [k \in 1..Len(p) |-> p[k]]
  BY <1>1, <1>2
<1>4. Len(p) =< Len(q) => SubSeq(q, 1, Len(p)) = [k \in 1..Len(p) |-> q[k]]
  BY <1>1, <1>2
<1>5. ASSUME [k \in 1..Len(p) |-> p[k]] = [k \in 1..Len(p) |-> q[k]], NEW k \in 1..Len(p)
      PROVE  p[k] = q[k]
  <2>1. [x \in 1..Len(p) |-> p[x]][k] = [x \in 1..Len(p) |-> q[x]][k]
    BY <1>5
  <2> QED
    BY <2>1
<1> QED
  BY <1>3, <1>4, <1>5 DEF IsPrefix

LEMMA PrefixOfSelf == ASSUME NEW p \in TreePaths PROVE IsPrefix(p, p)
  BY PrefixMeans, PathIs

LEMMA PrefixOfEqualLength ==
  ASSUME NEW p \in TreePaths, NEW q \in TreePaths, IsPrefix(p, q), Len(p) >= Len(q)
  PROVE  p = q
<1>1. p \in Seq(PathNames) /\ q \in Seq(PathNames) /\ Len(p) = Len(q)
  BY PathIs, PrefixMeans
<1>2. \A k \in 1..Len(p) : p[k] = q[k]
  BY PrefixMeans
<1> QED
  BY <1>1, <1>2, SeqEqual

LEMMA PrefixOfLonger ==
  ASSUME NEW p \in TreePaths, NEW q \in TreePaths, NEW r \in TreePaths, IsPrefix(p, q), IsPrefix(q, r)
  PROVE  IsPrefix(p, r)
<1>1. Len(p) \in Nat /\ Len(q) \in Nat /\ Len(r) \in Nat
  BY PathIs
<1>2. Len(p) =< Len(q) /\ Len(q) =< Len(r) /\ (\A k \in 1..Len(p) : p[k] = q[k]) /\ (\A k \in 1..Len(q) : q[k] = r[k])
  BY PrefixMeans
<1>3. Len(p) =< Len(r) /\ \A k \in 1..Len(p) : p[k] = r[k]
  BY <1>1, <1>2
<1> QED
  BY <1>3, PrefixMeans

LEMMA BelowRoot ==
  ASSUME NEW q \in TreePaths
  PROVE  IsPrefix(Root, q) <=> q[1] = "watched"
<1>1. q \in TreePaths /\ Len(q) >= 1
  BY PathIs
<1>2. IsPrefix(Root, q) <=> Len(Root) =< Len(q) /\ \A k \in 1..Len(Root) : Root[k] = q[k]
  BY <1>1, RootIsPath, PrefixMeans
<1>3. \A k \in 1..1 : k = 1
  OBVIOUS
<1> QED
  BY <1>1, <1>2, <1>3, RootIsPath

LEMMA LongerPath ==
  ASSUME NEW p \in TreePaths, NEW c \in TreePaths, Len(c) = Len(p) + 1, \A k \in 1..Len(p) : c[k] = p[k]
  PROVE  IsPrefix(p, c) /\ (IsPrefix(Root, p) <=> IsPrefix(Root, c))
<1>1. Len(p) \in Nat /\ Len(p) >= 1
  BY PathIs
<1>2. IsPrefix(p, c)
  BY <1>1, PrefixMeans
<1>3. (IsPrefix(Root, p) <=> p[1] = "watched") /\ (IsPrefix(Root, c) <=> c[1] = "watched")
  BY BelowRoot
<1>4. 1 \in 1..Len(p) /\ c[1] = p[1]
  BY <1>1
<1> QED
  BY <1>2, <1>3, <1>4

(* The path of a name in a directory.                                      *)
LEMMA NameBelow ==
  ASSUME NEW p \in TreePaths, NEW n \in Filenames
  PROVE  /\ Append(p, n) \in TreePaths /\ Len(Append(p, n)) = Len(p) + 1 /\ Append(p, n)[Len(p) + 1] = n
         /\ \A k \in 1..Len(p) : Append(p, n)[k] = p[k]
         /\ IsPrefix(p, Append(p, n)) /\ Append(p, n) # Root
         /\ IsPrefix(Root, p) <=> IsPrefix(Root, Append(p, n))
<1>1. p \in Seq(PathNames) /\ Len(p) \in Nat /\ Len(p) >= 1 /\ n \in PathNames
  BY PathIs DEF PathNames
<1>2. /\ Append(p, n) \in Seq(PathNames) /\ Len(Append(p, n)) = Len(p) + 1 /\ Append(p, n)[Len(p) + 1] = n
      /\ \A k \in 1..Len(p) : Append(p, n)[k] = p[k]
  BY <1>1, AppendProperties
<1>3. \A k \in 2..Len(Append(p, n)) : Append(p, n)[k] \in Filenames
  <2> SUFFICES ASSUME NEW k \in 2..(Len(p) + 1) PROVE Append(p, n)[k] \in Filenames
    BY <1>2
  <2>1. CASE k = Len(p) + 1
    BY <2>1, <1>2
  <2>2. CASE k # Len(p) + 1
    <3>1. k \in 1..Len(p) /\ k \in 2..Len(p)
      BY <2>2, <1>1
    <3> QED
      BY <3>1, <1>2, PathIs
  <2> QED
    BY <2>1, <2>2
<1>4. Append(p, n) \in TreePaths
  <2>1. Len(Append(p, n)) > 0
    BY <1>1, <1>2
  <2> QED
    BY <1>2, <1>3, <2>1, PathMeans
<1>5. IsPrefix(p, Append(p, n)) /\ (IsPrefix(Root, p) <=> IsPrefix(Root, Append(p, n)))
  BY <1>1, <1>2, <1>4, LongerPath
<1>6. Append(p, n) # Root
  BY <1>1, <1>2, RootIsPath
<1> QED
  BY <1>2, <1>4, <1>5, <1>6

(* The name under a directory that leads to a path below it.               *)
LEMMA NameTowards ==
  ASSUME NEW p \in TreePaths, NEW q \in TreePaths, IsPrefix(p, q), p # q
  PROVE  LET n == q[Len(p) + 1]
         IN  /\ n \in Filenames /\ n \in ToSet(q) /\ Len(p) + 1 \in 1..Len(q)
             /\ IsPrefix(Append(p, n), q) /\ Append(p, n) = SubSeq(q, 1, Len(p) + 1)
<1> DEFINE n == q[Len(p) + 1]
<1>1. p \in Seq(PathNames) /\ Len(p) \in Nat /\ Len(p) >= 1 /\ q \in Seq(PathNames) /\ Len(q) \in Nat
  BY PathIs
<1>2. Len(p) < Len(q) /\ \A k \in 1..Len(p) : p[k] = q[k]
  BY <1>1, PrefixMeans, PrefixOfEqualLength
<1>3. n \in Filenames /\ Len(p) + 1 \in 1..Len(q)
  BY <1>1, <1>2, PathIs
<1>4. n \in ToSet(q)
  BY <1>1, <1>3 DEF ToSet
<1>5. IsPrefix(Append(p, n), q)
  <2>1. Append(p, n) \in TreePaths /\ Len(Append(p, n)) = Len(p) + 1
    BY <1>3, NameBelow
  <2>2. \A k \in 1..(Len(p) + 1) : Append(p, n)[k] = q[k]
    BY <1>1, <1>2, <1>3, NameBelow
  <2>3. Len(Append(p, n)) =< Len(q) /\ \A k \in 1..Len(Append(p, n)) : Append(p, n)[k] = q[k]
    BY <1>1, <1>2, <2>1, <2>2
  <2>4. \A c \in TreePaths : Len(c) =< Len(q) /\ (\A k \in 1..Len(c) : c[k] = q[k]) => IsPrefix(c, q)
    BY PrefixMeans
  <2> QED
    BY <2>1, <2>3, <2>4
<1>6. Append(p, n) = SubSeq(q, 1, Len(p) + 1)
  <2>1. Append(p, n) \in TreePaths /\ Len(Append(p, n)) = Len(p) + 1
    BY <1>3, NameBelow
  <2>2. Append(p, n) \in Seq(PathNames)
    BY <2>1, PathIs
  <2>3. SubSeq(Append(p, n), 1, Len(p) + 1) = Append(p, n)
    BY <2>1, <2>2, SubSeqFull
  <2>4. SubSeq(Append(p, n), 1, Len(p) + 1) = SubSeq(q, 1, Len(p) + 1)
    BY <1>5, <2>1 DEF IsPrefix
  <2> QED
    BY <2>3, <2>4
<1> QED
  BY <1>3, <1>4, <1>5, <1>6

-----------------------------------------------------------------------------
(* Directories.                                                            *)

LEMMA DirIs ==
  ASSUME TreeOK, NEW i \in DOMAIN dirs
  PROVE  i \in 1..inodes /\ dirs[i] \in TreePaths
  BY DEF TreeOK

(* There is at most one directory at a path.                               *)
LEMMA TheInode ==
  ASSUME TreeOK, NEW p, InodeAt(p) # {}
  PROVE  LET i == CHOOSE x \in InodeAt(p) : TRUE
         IN  i \in DOMAIN dirs /\ dirs[i] = p /\ \A j \in DOMAIN dirs : dirs[j] = p => j = i
  BY DEF TreeOK, InodeAt

(* What a listing shows leads to every directory that is not hidden.       *)
LEMMA ListingLeads ==
  ASSUME TreeOK, NEW p \in TreePaths, NEW i \in DOMAIN dirs,
         IsPrefix(p, dirs[i]), p # dirs[i], Covered(dirs[i])
  PROVE  \E n \in Listing(p) : IsPrefix(Append(p, n), dirs[i])
<1> DEFINE n == dirs[i][Len(p) + 1]
<1>1. dirs[i] \in TreePaths
  BY DirIs
<1>2. /\ n \in Filenames /\ n \in ToSet(dirs[i]) /\ Len(p) + 1 \in 1..Len(dirs[i])
      /\ IsPrefix(Append(p, n), dirs[i]) /\ Append(p, n) = SubSeq(dirs[i], 1, Len(p) + 1)
  BY <1>1, NameTowards
<1>3. n \notin Hidden
  BY <1>2 DEF Covered
<1>4. \E j \in DOMAIN dirs : dirs[j] = Append(p, n)
  BY <1>2 DEF TreeOK
<1> QED
  BY <1>2, <1>3, <1>4 DEF Listing, InodeAt

(* The directories above one are there.                                    *)
LEMMA PrefixOfPath ==
  ASSUME NEW q \in TreePaths, NEW n \in 1..Len(q)
  PROVE  /\ SubSeq(q, 1, n) \in TreePaths /\ Len(SubSeq(q, 1, n)) = n
         /\ \A k \in 1..n : SubSeq(q, 1, n)[k] = q[k]
         /\ IsPrefix(SubSeq(q, 1, n), q)
<1>1. q \in Seq(PathNames) /\ Len(q) \in Nat
  BY PathIs
<1>2. SubSeq(q, 1, n) \in Seq(PathNames) /\ Len(SubSeq(q, 1, n)) = n /\ \A k \in 1..n : SubSeq(q, 1, n)[k] = q[k]
  BY <1>1, SubSeqProperties
<1>3. \A k \in 2..n : k \in 2..Len(q) /\ k \in 1..n
  BY <1>1
<1>4. SubSeq(q, 1, n) \in TreePaths
  <2>1. \A k \in 2..n : SubSeq(q, 1, n)[k] \in Filenames
    BY <1>2, <1>3, PathIs
  <2>2. n > 0
    BY <1>1
  <2> QED
    BY <1>2, <2>1, <2>2, PathMeans
<1>5. n =< Len(q)
  BY <1>1
<1> QED
  BY <1>2, <1>4, <1>5, PrefixMeans

LEMMA PrefixIsPart ==
  ASSUME NEW p \in TreePaths, NEW q \in TreePaths, IsPrefix(p, q)
  PROVE  Len(p) \in 1..Len(q) /\ p = SubSeq(q, 1, Len(p))
<1>1. p \in Seq(PathNames) /\ Len(p) \in Nat /\ Len(q) \in Nat /\ Len(p) >= 1
  BY PathIs
<1>2. SubSeq(p, 1, Len(p)) = p
  BY <1>1, SubSeqFull
<1> QED
  BY <1>1, <1>2 DEF IsPrefix

LEMMA PartOfLonger ==
  ASSUME NEW p \in TreePaths, NEW q \in TreePaths, NEW n \in 1..Len(p), n =< Len(q), \A k \in 1..n : p[k] = q[k]
  PROVE  SubSeq(p, 1, n) = SubSeq(q, 1, n)
<1>1. p \in Seq(PathNames) /\ q \in Seq(PathNames) /\ n \in 1..Len(q)
  BY PathIs
<1>2. /\ SubSeq(p, 1, n) \in Seq(PathNames) /\ SubSeq(q, 1, n) \in Seq(PathNames)
      /\ Len(SubSeq(p, 1, n)) = n /\ Len(SubSeq(q, 1, n)) = n
  BY <1>1, PrefixOfPath, PathIs
<1>3. \A k \in 1..n : SubSeq(p, 1, n)[k] = SubSeq(q, 1, n)[k]
  BY <1>1, PrefixOfPath
<1> QED
  BY <1>2, <1>3, SeqEqual

LEMMA PrefixIsThere ==
  ASSUME TreeOK, NEW i \in DOMAIN dirs, NEW p \in TreePaths, IsPrefix(p, dirs[i])
  PROVE  \E j \in DOMAIN dirs : dirs[j] = p
<1>1. dirs[i] \in TreePaths
  BY DirIs
<1>2. Len(p) \in 1..Len(dirs[i]) /\ p = SubSeq(dirs[i], 1, Len(p))
  BY <1>1, PrefixIsPart
<1> QED
  BY <1>2 DEF TreeOK

-----------------------------------------------------------------------------
(* A change to the tree leaves what steady descriptors stand for.          *)

TreeKept ==
  /\ UNCHANGED setting /\ inodes' \in Nat /\ inodes =< inodes'
  /\ \A i \in 1..inodes : i \in DOMAIN dirs' => i \in DOMAIN dirs /\ (Steady(dirs[i]) => dirs'[i] = dirs[i])

LEMMA IsOfKept ==
  ASSUME TreeKept, TreeOK, NEW d, NEW p, IsOf(d, p)
  PROVE  IsOf(d, p)' /\ (d \notin DOMAIN dirs => d \notin DOMAIN dirs')
<1>1. d \in 1..inodes /\ Steady(p) /\ (d \in DOMAIN dirs => dirs[d] = p)
  BY DEF IsOf
<1>2. d \in 1..inodes'
  BY <1>1 DEF TreeKept, TreeOK
<1>3. Steady(p)'
  BY <1>1 DEF Steady, TreeKept
<1>4. d \in DOMAIN dirs' => d \in DOMAIN dirs /\ dirs'[d] = p
  BY <1>1 DEF TreeKept
<1> QED
  BY <1>2, <1>3, <1>4 DEF IsOf

LEMMA AgreedKept ==
  ASSUME TreeKept, TreeOK, UNCHANGED watches, NEW d, NEW p, AgreedOn(d, p)
  PROVE  AgreedOn(d, p)'
  BY IsOfKept DEF AgreedOn, Entries

LEMMA EventKept ==
  ASSUME TreeKept, TreeOK, UNCHANGED watches, NEW e, EventOK(e)
  PROVE  EventOK(e)'
<1>1. AgreedOn(e.wd, e.at) /\ (e.kind = "ignored" => e.wd \notin DOMAIN dirs)
  BY DEF EventOK
<1>2. IsOf(e.wd, e.at)
  BY <1>1 DEF AgreedOn
<1>3. AgreedOn(e.wd, e.at)'
  BY <1>1, AgreedKept
<1>4. e.wd \notin DOMAIN dirs => e.wd \notin DOMAIN dirs'
  BY <1>2, IsOfKept
<1> QED
  BY <1>1, <1>3, <1>4 DEF EventOK

LEMMA MarkedIsAgreed ==
  ASSUME TreeOK, MarksOK, TableOK, NEW i \in DOMAIN mark
  PROVE  AgreedOn(i, dirs[i]) /\ mark[i] = i /\ i \in DOMAIN dirs
<1>1. mark[i] = i /\ i \in DOMAIN dirs /\ Steady(dirs[i])
  BY DEF MarksOK
<1>2. IsOf(i, dirs[i])
  BY <1>1, DirIs DEF IsOf
<1>3. \A k \in Entries : watches.data[k].wd = i => watches.data[k].path = dirs[i]
  BY <1>1 DEF TableOK, IsOf
<1> QED
  BY <1>1, <1>2, <1>3 DEF AgreedOn

(* The events a change adds, if they tell the truth.                       *)
LEMMA QueueGrows ==
  ASSUME TreeOK, TableOK, QueueOK, TreeKept, UNCHANGED watches,
         NEW new \in Seq(TreeEvents), queue' = queue \o new,
         \A m \in 1..Len(new) :
           AgreedOn(new[m].wd, new[m].at) /\ (new[m].kind = "ignored" => new[m].wd \notin DOMAIN dirs')
  PROVE  TableOK' /\ QueueOK'
<1>1. TableOK'
  <2>1. \A k \in Entries : IsOf(watches.data[k].wd, watches.data[k].path)'
    BY IsOfKept DEF TableOK
  <2> QED
    BY <2>1 DEF TableOK, Entries, TreeKept
<1>2. queue \in Seq(TreeEvents) /\ Len(queue) \in Nat /\ Len(new) \in Nat
  BY DEF QueueOK
<1>3. queue' \in Seq(TreeEvents)
  BY <1>2, ConcatProperties
<1>4. ASSUME NEW m \in 1..Len(queue') PROVE EventOK(queue[m])'
  <2>1. CASE m \in 1..Len(queue)
    <3>1. queue'[m] = queue[m]
      BY <1>2, <2>1, ConcatProperties
    <3>2. PICK e : e = queue[m]
      OBVIOUS
    <3>3. EventOK(e)
      BY <2>1, <3>2 DEF QueueOK
    <3>4. EventOK(e)'
      BY <3>3, EventKept
    <3> QED
      BY <3>1, <3>2, <3>4
  <2>2. CASE m \notin 1..Len(queue)
    <3>1. m - Len(queue) \in 1..Len(new) /\ queue'[m] = new[m - Len(queue)]
      BY <1>2, <2>2, ConcatProperties
    <3>2. PICK n \in 1..Len(new) : queue'[m] = new[n]
      BY <3>1
    <3>3. PICK e : e = new[n]
      OBVIOUS
    <3>4. AgreedOn(e.wd, e.at) /\ (e.kind = "ignored" => e.wd \notin DOMAIN dirs')
      BY <3>3
    <3>5. AgreedOn(e.wd, e.at)'
      BY <3>4, AgreedKept
    <3>6. EventOK(e)'
      BY <3>4, <3>5 DEF EventOK
    <3> QED
      BY <3>2, <3>3, <3>6
  <2> QED
    BY <2>1, <2>2
<1> QED
  BY <1>1, <1>3, <1>4 DEF QueueOK

-----------------------------------------------------------------------------
(* The kernel and the file system.                                         *)

(* Events that say where the directory is that they are about.             *)
TellTruth(s) ==
  /\ s \in Seq(TreeEvents)
  /\ \A m \in 1..Len(s) : AgreedOn(s[m].wd, s[m].at) /\ (s[m].kind = "ignored" => s[m].wd \notin DOMAIN dirs')

LEMMA NothingTellsTruth == TellTruth(<< >>)
  BY DEF TellTruth

LEMMA OneTellsTruth ==
  ASSUME NEW e \in TreeEvents, AgreedOn(e.wd, e.at), e.kind = "ignored" => e.wd \notin DOMAIN dirs'
  PROVE  TellTruth(<<e>>)
<1>1. <<e>> \in Seq(TreeEvents) /\ Len(<<e>>) = 1 /\ <<e>>[1] = e
  OBVIOUS
<1>2. \A m \in 1..1 : m = 1
  OBVIOUS
<1> QED
  BY <1>1, <1>2 DEF TellTruth

LEMMA TwoTellTruth ==
  ASSUME NEW s, NEW t, TellTruth(s), TellTruth(t)
  PROVE  TellTruth(s \o t)
<1>1. s \in Seq(TreeEvents) /\ t \in Seq(TreeEvents) /\ Len(s) \in Nat /\ Len(t) \in Nat
  BY DEF TellTruth
<1>2. s \o t \in Seq(TreeEvents) /\ Len(s \o t) = Len(s) + Len(t)
  BY <1>1, ConcatProperties
<1>3. ASSUME NEW m \in 1..Len(s \o t)
      PROVE  \/ m \in 1..Len(s) /\ (s \o t)[m] = s[m]
             \/ m - Len(s) \in 1..Len(t) /\ (s \o t)[m] = t[m - Len(s)]
  BY <1>1, <1>2, ConcatProperties
<1>4. ASSUME NEW m \in 1..Len(s \o t)
      PROVE  LET e == (s \o t)[m] IN AgreedOn(e.wd, e.at) /\ (e.kind = "ignored" => e.wd \notin DOMAIN dirs')
  <2>1. CASE m \in 1..Len(s) /\ (s \o t)[m] = s[m]
    BY <2>1 DEF TellTruth
  <2>2. CASE m - Len(s) \in 1..Len(t) /\ (s \o t)[m] = t[m - Len(s)]
    BY <2>2 DEF TellTruth
  <2> QED
    BY <1>3, <2>1, <2>2
<1> QED
  BY <1>2, <1>4 DEF TellTruth

LEMMA NoticeTells ==
  ASSUME TreeOK, MarksOK, TableOK, NEW i, NEW kind \in {"create", "delete", "modify", "from", "to"},
         NEW name \in PathNames, NEW isDir \in BOOLEAN
  PROVE  TellTruth(Notice(i, kind, name, isDir))
<1> DEFINE e == [wd |-> mark[i], kind |-> kind, name |-> name, dir |-> isDir, at |-> dirs[i]]
<1>1. CASE i \in DOMAIN mark /\ kind \in notify_mask
  <2>1. Notice(i, kind, name, isDir) = <<e>>
    BY <1>1 DEF Notice
  <2>2. AgreedOn(i, dirs[i]) /\ mark[i] = i /\ i \in DOMAIN dirs
    BY <1>1, MarkedIsAgreed
  <2>3. i \in Nat /\ dirs[i] \in TreePaths
    BY <2>2, DirIs DEF TreeOK
  <2>4. name \in EventNames
    BY DEF PathNames, EventNames
  <2>5. e \in TreeEvents
    BY <2>2, <2>3, <2>4 DEF TreeEvents
  <2>6. e.wd = i /\ e.at = dirs[i] /\ e.kind = kind
    BY <2>2
  <2> HIDE DEF e
  <2> QED
    BY <2>1, <2>2, <2>5, <2>6, OneTellsTruth
<1>2. CASE ~(i \in DOMAIN mark /\ kind \in notify_mask)
  <2>1. Notice(i, kind, name, isDir) = << >>
    BY <1>2 DEF Notice
  <2> QED
    BY <2>1, NothingTellsTruth
<1> QED
  BY <1>1, <1>2

LEMMA IgnoredTells ==
  ASSUME TreeOK, MarksOK, TableOK, NEW i, i \notin DOMAIN dirs'
  PROVE  TellTruth(Ignored(i))
<1> DEFINE e == [wd |-> mark[i], kind |-> "ignored", name |-> "", dir |-> FALSE, at |-> dirs[i]]
<1>1. CASE i \in DOMAIN mark
  <2>1. Ignored(i) = <<e>>
    BY <1>1 DEF Ignored
  <2>2. AgreedOn(i, dirs[i]) /\ mark[i] = i /\ i \in DOMAIN dirs
    BY <1>1, MarkedIsAgreed
  <2>3. i \in Nat /\ dirs[i] \in TreePaths
    BY <2>2, DirIs DEF TreeOK
  <2>4. e \in TreeEvents
    BY <2>2, <2>3 DEF TreeEvents, EventNames
  <2>5. e.wd = i /\ e.at = dirs[i]
    BY <2>2
  <2> HIDE DEF e
  <2> QED
    BY <2>1, <2>2, <2>4, <2>5, OneTellsTruth
<1>2. CASE i \notin DOMAIN mark
  <2>1. Ignored(i) = << >>
    BY <1>2 DEF Ignored
  <2> QED
    BY <2>1, NothingTellsTruth
<1> QED
  BY <1>1, <1>2

(* A change to the tree keeps what is agreed on.                           *)
LEMMA TreeChanges ==
  ASSUME AgreeInv, TreeKept, TreeOK', UNCHANGED own, NEW new, TellTruth(new), queue' = queue \o new,
         \A i \in DOMAIN mark' : i \in DOMAIN mark /\ i \in DOMAIN dirs' /\ mark'[i] = mark[i]
  PROVE  AgreeInv'
<1> USE DEF AgreeInv
<1>1. UNCHANGED <<started, is_active, watches, walk, report>> /\ UNCHANGED setting
  BY DEF own, TreeKept
<1>2. MarksOK'
  <2> SUFFICES ASSUME NEW i \in DOMAIN mark' PROVE mark'[i] = i /\ i \in DOMAIN dirs' /\ Steady(dirs[i])'
    BY DEF MarksOK
  <2>1. i \in DOMAIN mark /\ i \in DOMAIN dirs' /\ mark'[i] = mark[i]
    OBVIOUS
  <2>2. mark[i] = i /\ i \in DOMAIN dirs /\ Steady(dirs[i]) /\ i \in 1..inodes
    BY <2>1, DirIs DEF MarksOK
  <2>3. dirs'[i] = dirs[i]
    BY <2>1, <2>2 DEF TreeKept
  <2> QED
    BY <1>1, <2>1, <2>2, <2>3 DEF Steady
<1>3. ListedOK'
  BY <1>1 DEF ListedOK, Entries
<1>4. TableOK' /\ QueueOK'
  BY <1>1, QueueGrows DEF TellTruth
<1>5. WalkOK' /\ StateOK'
  BY <1>1 DEF WalkOK, StateOK
<1> QED
  BY <1>2, <1>3, <1>4, <1>5

LEMMA WriteAgrees ==
  ASSUME AgreeInv, NEW i \in DOMAIN dirs, NEW name \in Filenames, write_file(i, name)
  PROVE  TreeKept /\ AgreeInv'
<1> USE DEF AgreeInv
<1>1. UNCHANGED <<setting, dirs, inodes, mark, own>> /\ ops' = ops + 1
  BY DEF write_file
<1>2. TreeOK' /\ TreeKept
  BY <1>1 DEF TreeOK, TreeKept
<1>3. TellTruth(Notice(i, "modify", name, FALSE))
  BY NoticeTells DEF PathNames
<1>4. queue' = queue \o Notice(i, "modify", name, FALSE)
  BY DEF write_file
<1> QED
  BY <1>1, <1>2, <1>3, <1>4, TreeChanges DEF MarksOK

(* A new directory has no watch and a number of its own.                   *)
LEMMA MakeAgrees ==
  ASSUME AgreeInv, NEW i \in DOMAIN dirs, NEW name \in Filenames, make_dir(i, name)
  PROVE  /\ TreeKept /\ AgreeInv'
         /\ DOMAIN dirs' = DOMAIN dirs \cup {inodes + 1} /\ dirs'[inodes + 1] = Append(dirs[i], name)
         /\ \A j \in DOMAIN dirs : dirs'[j] = dirs[j] /\ j # inodes + 1
<1> USE DEF AgreeInv
<1> DEFINE path == Append(dirs[i], name)
<1>1. UNCHANGED <<setting, mark, own>> /\ ops' = ops + 1 /\ inodes' = inodes + 1
  BY DEF make_dir
<1>2. inodes \in Nat /\ dirs[i] \in TreePaths /\ \A j \in DOMAIN dirs : j \in 1..inodes /\ dirs[j] \in TreePaths
  BY DEF TreeOK
<1>3. DOMAIN dirs' = DOMAIN dirs \cup {inodes + 1} /\ dirs'[inodes + 1] = path
  BY DEF make_dir, With
<1>4. \A j \in DOMAIN dirs : dirs'[j] = dirs[j] /\ j # inodes + 1
  BY <1>2 DEF make_dir, With
<1>5. TreeKept
  BY <1>1, <1>2, <1>3, <1>4 DEF TreeKept
<1>6. path \in TreePaths /\ Len(path) = Len(dirs[i]) + 1 /\ \A k \in 1..Len(dirs[i]) : path[k] = dirs[i][k]
  BY <1>2, NameBelow
<1>7. \A j \in DOMAIN dirs : dirs[j] # path
  BY DEF make_dir, InodeAt
<1>8. TreeOK'
  <2>1. setting' \in Settings /\ inodes' \in Nat /\ ops' \in Nat
    BY <1>1 DEF TreeOK
  <2>2. \A j \in DOMAIN dirs' : j \in 1..inodes' /\ dirs'[j] \in TreePaths
    <3> HIDE DEF path
    <3>1. inodes + 1 \in 1..inodes' /\ \A j \in DOMAIN dirs : j \in 1..inodes'
      BY <1>1, <1>2
    <3> QED
      BY <3>1, <1>2, <1>3, <1>4, <1>6
  <2>3. \A j, k \in DOMAIN dirs' : dirs'[j] = dirs'[k] => j = k
    BY <1>3, <1>4, <1>7 DEF TreeOK
  <2>4. ASSUME NEW j \in DOMAIN dirs', NEW n \in 1..Len(dirs'[j])
        PROVE  \E k \in DOMAIN dirs' : dirs'[k] = SubSeq(dirs'[j], 1, n)
    <3>1. CASE j \in DOMAIN dirs
      <4>1. PICK k \in DOMAIN dirs : dirs[k] = SubSeq(dirs[j], 1, n)
        BY <3>1, <1>4 DEF TreeOK
      <4> QED
        BY <4>1, <3>1, <1>3, <1>4
    <3>2. CASE j = inodes + 1 /\ n = Len(path)
      <4>1. SubSeq(path, 1, n) = path
        BY <3>2, <1>6, PathIs, SubSeqFull
      <4> QED
        BY <4>1, <3>2, <1>3
    <3>3. CASE j = inodes + 1 /\ n # Len(path)
      <4>1. n \in 1..Len(dirs[i]) /\ n \in 1..Len(path) /\ n =< Len(dirs[i])
        BY <3>3, <1>2, <1>3, <1>6, PathIs
      <4>2. \A x \in 1..n : x \in 1..Len(dirs[i])
        BY <4>1, <1>2, PathIs
      <4>3. SubSeq(path, 1, n) = SubSeq(dirs[i], 1, n)
        <5> HIDE DEF path
        <5> QED
          BY <1>2, <1>6, <4>1, <4>2, PartOfLonger
      <4>4. PICK k \in DOMAIN dirs : dirs[k] = SubSeq(dirs[i], 1, n)
        BY <4>1 DEF TreeOK
      <4> QED
        BY <4>3, <4>4, <3>3, <1>3, <1>4
    <3> QED
      BY <3>1, <3>2, <3>3, <1>3
  <2> QED
    BY <2>1, <2>2, <2>3, <2>4 DEF TreeOK
<1>9. TellTruth(Notice(i, "create", name, TRUE))
  BY NoticeTells DEF PathNames
<1>10. queue' = queue \o Notice(i, "create", name, TRUE)
  BY DEF make_dir
<1>11. \A j \in DOMAIN mark' : j \in DOMAIN mark /\ j \in DOMAIN dirs' /\ mark'[j] = mark[j]
  BY <1>1, <1>3 DEF MarksOK
<1>12. AgreeInv'
  BY <1>1, <1>5, <1>8, <1>9, <1>10, <1>11, TreeChanges
<1> QED
  BY <1>3, <1>4, <1>5, <1>12

(* A directory that goes is empty; its watch ends with it.                 *)
LEMMA RemoveAgrees ==
  ASSUME AgreeInv, NEW i \in DOMAIN dirs, remove_dir(i)
  PROVE  /\ TreeKept /\ AgreeInv'
         /\ DOMAIN dirs' = DOMAIN dirs \ {i} /\ \A j \in DOMAIN dirs' : dirs'[j] = dirs[j]
<1> USE DEF AgreeInv
<1>1. UNCHANGED <<setting, inodes, own>> /\ ops' = ops + 1
  BY DEF remove_dir
<1>2. inodes \in Nat /\ dirs[i] \in TreePaths /\ \A j \in DOMAIN dirs : j \in 1..inodes /\ dirs[j] \in TreePaths
  BY DEF TreeOK
<1>3. DOMAIN dirs' = DOMAIN dirs \ {i} /\ \A j \in DOMAIN dirs' : dirs'[j] = dirs[j]
  BY DEF remove_dir, Without
<1>4. TreeKept
  BY <1>1, <1>2, <1>3 DEF TreeKept
<1>5. TreeOK'
  <2>1. setting' \in Settings /\ inodes' \in Nat /\ ops' \in Nat
    BY <1>1 DEF TreeOK
  <2>2. \A j \in DOMAIN dirs' : j \in 1..inodes' /\ dirs'[j] \in TreePaths
    BY <1>1, <1>2, <1>3
  <2>3. \A j, k \in DOMAIN dirs' : dirs'[j] = dirs'[k] => j = k
    BY <1>3 DEF TreeOK
  <2>4. ASSUME NEW j \in DOMAIN dirs', NEW n \in 1..Len(dirs'[j])
        PROVE  \E k \in DOMAIN dirs' : dirs'[k] = SubSeq(dirs'[j], 1, n)
    <3>1. j \in DOMAIN dirs /\ j # i /\ dirs'[j] = dirs[j]
      BY <1>3
    <3>2. PICK k \in DOMAIN dirs : dirs[k] = SubSeq(dirs[j], 1, n)
      BY <3>1 DEF TreeOK
    <3>3. k # i
      <4>1. IsPrefix(SubSeq(dirs[j], 1, n), dirs[j])
        BY <3>1, <1>2, PrefixOfPath
      <4>2. ~IsPrefix(dirs[i], dirs[j])
        BY <3>1 DEF remove_dir, IsEmpty
      <4> QED
        BY <3>2, <4>1, <4>2
    <3> QED
      BY <3>1, <3>2, <3>3, <1>3
  <2> QED
    BY <2>1, <2>2, <2>3, <2>4 DEF TreeOK
<1>6. \A j \in DOMAIN mark' : j \in DOMAIN mark /\ j \in DOMAIN dirs' /\ mark'[j] = mark[j]
  BY <1>3 DEF MarksOK, remove_dir, Without
<1> DEFINE parent == CHOOSE p \in Parent(i) : TRUE
           told == IF Parent(i) = {} THEN << >> ELSE Notice(parent, "delete", Last(dirs[i]), TRUE)
<1>7. TellTruth(told)
  <2>1. Last(dirs[i]) \in PathNames
    BY <1>2, PathIs DEF Last
  <2>2. TellTruth(Notice(parent, "delete", Last(dirs[i]), TRUE))
    <3> HIDE DEF parent
    <3> QED
      BY <2>1, NoticeTells
  <2> QED
    BY <2>2, NothingTellsTruth
<1>8. TellTruth(Ignored(i))
  BY <1>3, IgnoredTells
<1>9. queue' = (queue \o told) \o Ignored(i)
  BY DEF remove_dir
<1>10. queue' = queue \o (told \o Ignored(i))
  <2> HIDE DEF told
  <2>1. queue \in Seq(TreeEvents) /\ told \in Seq(TreeEvents) /\ Ignored(i) \in Seq(TreeEvents)
    BY <1>7, <1>8 DEF TellTruth, QueueOK
  <2> QED
    BY <1>9, <2>1, ConcatAssociative
<1>11. AgreeInv'
  <2> HIDE DEF told
  <2>1. TellTruth(told \o Ignored(i))
    BY <1>7, <1>8, TwoTellTruth
  <2> QED
    BY <1>1, <1>4, <1>5, <1>6, <1>10, <2>1, TreeChanges
<1> QED
  BY <1>3, <1>4, <1>11

(* The path of what was at q when the directory at old is moved to new.    *)
Moved(old, new, q) == new \o SubSeq(q, Len(old) + 1, Len(q))

LEMMA MovedIs ==
  ASSUME NEW old \in TreePaths, NEW new \in TreePaths, NEW q \in TreePaths, IsPrefix(old, q)
  PROVE  LET r == Moved(old, new, q)
         IN  /\ r \in TreePaths /\ Len(r) = Len(new) + Len(q) - Len(old) /\ IsPrefix(new, r)
             /\ \A k \in 1..Len(new) : r[k] = new[k]
             /\ \A k \in (Len(old) + 1)..Len(q) : r[(k - Len(old)) + Len(new)] = q[k]
<1> DEFINE s == SubSeq(q, Len(old) + 1, Len(q))
           r == new \o s
<1>1. /\ old \in Seq(PathNames) /\ new \in Seq(PathNames) /\ q \in Seq(PathNames)
      /\ Len(old) \in Nat /\ Len(new) \in Nat /\ Len(q) \in Nat /\ Len(old) >= 1 /\ Len(new) >= 1
      /\ Len(old) =< Len(q)
  BY PathIs, PrefixMeans
<1>2. /\ s \in Seq(PathNames) /\ Len(s) = Len(q) - Len(old)
      /\ \A k \in 1..(Len(q) - Len(old)) : s[k] = q[k + Len(old)]
  <2>1. Len(old) + 1 \in 1..(Len(q) + 1) /\ Len(q) \in (Len(old) + 1 - 1)..Len(q)
    BY <1>1
  <2>2. s \in Seq(PathNames) /\ Len(s) = Len(q) - (Len(old) + 1) + 1
        /\ \A k \in 1..(Len(q) - (Len(old) + 1) + 1) : s[k] = q[(Len(old) + 1) + k - 1]
    BY <1>1, <2>1, SubSeqProperties
  <2>3. Len(q) - (Len(old) + 1) + 1 = Len(q) - Len(old)
    BY <1>1
  <2>4. ASSUME NEW k \in 1..(Len(q) - Len(old)) PROVE (Len(old) + 1) + k - 1 = k + Len(old)
    BY <1>1
  <2> QED
    BY <2>2, <2>3, <2>4
<1>3. /\ r \in Seq(PathNames) /\ Len(r) = Len(new) + Len(q) - Len(old)
      /\ \A k \in 1..Len(new) : r[k] = new[k]
  <2> HIDE DEF s
  <2>1. r \in Seq(PathNames) /\ Len(r) = Len(new) + Len(s)
    BY <1>1, <1>2, ConcatProperties
  <2>2. \A k \in 1..Len(new) : r[k] = new[k]
    BY <1>1, <1>2, ConcatProperties
  <2> QED
    BY <1>1, <1>2, <2>1, <2>2
<1>4. ASSUME NEW k \in (Len(new) + 1)..Len(r) PROVE r[k] = q[(k - Len(new)) + Len(old)]
  <2> HIDE DEF s
  <2>1. k - Len(new) \in 1..Len(s) /\ k \in 1..(Len(new) + Len(s)) /\ k > Len(new)
    BY <1>1, <1>2, <1>3
  <2>2. r[k] = s[k - Len(new)]
    BY <1>1, <1>2, <2>1, ConcatProperties
  <2> QED
    BY <1>2, <2>1, <2>2
<1>5. ASSUME NEW k \in (Len(old) + 1)..Len(q) PROVE r[(k - Len(old)) + Len(new)] = q[k]
  <2> HIDE DEF r
  <2>1. (k - Len(old)) + Len(new) \in (Len(new) + 1)..Len(r)
        /\ (((k - Len(old)) + Len(new)) - Len(new)) + Len(old) = k
    BY <1>1, <1>3
  <2> QED
    BY <1>4, <2>1
<1>6. ASSUME NEW k \in 2..Len(r) PROVE r[k] \in Filenames
  <2> HIDE DEF r
  <2>1. CASE k \in 2..Len(new)
    <3>1. k \in 1..Len(new)
      BY <2>1
    <3> QED
      BY <2>1, <3>1, <1>3, PathIs
  <2>2. CASE k \notin 2..Len(new)
    <3>1. k \in (Len(new) + 1)..Len(r) /\ (k - Len(new)) + Len(old) \in 2..Len(q)
      BY <2>2, <1>1, <1>3
    <3> QED
      BY <3>1, <1>4, PathIs
  <2> QED
    BY <2>1, <2>2
<1>7. r \in TreePaths
  <2> HIDE DEF r
  <2>1. Len(r) > 0
    BY <1>1, <1>3
  <2> QED
    BY <1>3, <1>6, <2>1, PathMeans
<1>8. IsPrefix(new, r)
  <2> HIDE DEF r
  <2>1. Len(new) =< Len(r)
    BY <1>1, <1>3
  <2> QED
    BY <1>3, <1>7, <2>1, PrefixMeans
<1> QED
  BY <1>3, <1>5, <1>7, <1>8 DEF Moved

LEMMA MovedPath ==
  ASSUME NEW old \in TreePaths, NEW new \in TreePaths, NEW q \in TreePaths, IsPrefix(old, q)
  PROVE  Moved(old, new, q) \in TreePaths /\ IsPrefix(new, Moved(old, new, q))
BY MovedIs

LEMMA MovedApart ==
  ASSUME NEW old \in TreePaths, NEW new \in TreePaths, NEW p \in TreePaths, NEW q \in TreePaths,
         IsPrefix(old, p), IsPrefix(old, q), Moved(old, new, p) = Moved(old, new, q)
  PROVE  p = q
<1> DEFINE r == Moved(old, new, p)
<1>0. r = Moved(old, new, p) /\ r = Moved(old, new, q)
  OBVIOUS
<1> HIDE DEF r
<1>1. /\ p \in Seq(PathNames) /\ q \in Seq(PathNames)
      /\ Len(old) \in Nat /\ Len(new) \in Nat /\ Len(q) \in Nat /\ Len(p) \in Nat
  BY PathIs
<1>2. /\ Len(r) = Len(new) + Len(p) - Len(old) /\ Len(r) = Len(new) + Len(q) - Len(old)
      /\ \A k \in (Len(old) + 1)..Len(p) : r[(k - Len(old)) + Len(new)] = p[k]
      /\ \A k \in (Len(old) + 1)..Len(q) : r[(k - Len(old)) + Len(new)] = q[k]
  <2>1. /\ Len(r) = Len(new) + Len(p) - Len(old)
        /\ \A k \in (Len(old) + 1)..Len(p) : r[(k - Len(old)) + Len(new)] = p[k]
    BY MovedIs, Zenon DEF r
  <2>2. /\ Len(r) = Len(new) + Len(q) - Len(old)
        /\ \A k \in (Len(old) + 1)..Len(q) : r[(k - Len(old)) + Len(new)] = q[k]
    <3>1. /\ Len(Moved(old, new, q)) = Len(new) + Len(q) - Len(old)
          /\ \A k \in (Len(old) + 1)..Len(q) : Moved(old, new, q)[(k - Len(old)) + Len(new)] = q[k]
      BY MovedIs, Zenon
    <3> QED
      BY <1>0, <3>1
  <2> QED
    BY <2>1, <2>2
<1>3. Len(p) = Len(q)
  BY <1>1, <1>2
<1>4. ASSUME NEW k \in 1..Len(p) PROVE p[k] = q[k]
  <2>1. CASE k \in 1..Len(old)
    BY <2>1, PrefixMeans
  <2>2. CASE k \notin 1..Len(old)
    <3>1. k \in (Len(old) + 1)..Len(p) /\ k \in (Len(old) + 1)..Len(q)
      BY <2>2, <1>1, <1>3
    <3>2. r[(k - Len(old)) + Len(new)] = p[k] /\ r[(k - Len(old)) + Len(new)] = q[k]
      BY <3>1, <1>2
    <3> QED
      BY <3>2
  <2> QED
    BY <2>1, <2>2
<1> QED
  BY <1>1, <1>3, <1>4, SeqEqual

(* What is above a path that moved moved, or is above where it moved to.   *)
LEMMA MovedPart ==
  ASSUME NEW old \in TreePaths, NEW new \in TreePaths, NEW q \in TreePaths, IsPrefix(old, q),
         NEW n \in Len(new)..Len(Moved(old, new, q))
  PROVE  LET m == (n - Len(new)) + Len(old)
         IN  /\ m \in 1..Len(q) /\ IsPrefix(old, SubSeq(q, 1, m))
             /\ SubSeq(Moved(old, new, q), 1, n) = Moved(old, new, SubSeq(q, 1, m))
<1> DEFINE m == (n - Len(new)) + Len(old)
           p == SubSeq(q, 1, m)
           r == Moved(old, new, q)
           s == Moved(old, new, p)
           t == SubSeq(r, 1, n)
<1> HIDE DEF m, p, r, s, t
<1>1. /\ Len(old) \in Nat /\ Len(new) \in Nat /\ Len(q) \in Nat /\ Len(old) >= 1 /\ Len(new) >= 1
      /\ Len(old) =< Len(q)
  BY PathIs, PrefixMeans
<1>2. /\ r \in TreePaths /\ Len(r) = Len(new) + Len(q) - Len(old)
      /\ \A k \in 1..Len(new) : r[k] = new[k]
      /\ \A k \in (Len(old) + 1)..Len(q) : r[(k - Len(old)) + Len(new)] = q[k]
  BY MovedIs DEF r
<1>3. n \in 1..Len(r) /\ m \in 1..Len(q) /\ Len(old) =< m /\ m = (n - Len(new)) + Len(old)
  BY <1>1, <1>2 DEF m, r
<1>4. p \in TreePaths /\ Len(p) = m /\ \A k \in 1..m : p[k] = q[k]
  BY <1>3, PrefixOfPath DEF p
<1>5. IsPrefix(old, p)
  <2>1. \A k \in 1..Len(old) : k \in 1..m /\ old[k] = q[k]
    BY <1>1, <1>3, PrefixMeans
  <2> QED
    BY <1>3, <1>4, <2>1, PrefixMeans
<1>6. /\ s \in TreePaths /\ Len(s) = Len(new) + Len(p) - Len(old)
      /\ \A k \in 1..Len(new) : s[k] = new[k]
      /\ \A k \in (Len(old) + 1)..Len(p) : s[(k - Len(old)) + Len(new)] = p[k]
  BY <1>4, <1>5, MovedIs DEF s
<1>7. t \in TreePaths /\ Len(t) = n /\ \A k \in 1..n : t[k] = r[k]
  BY <1>2, <1>3, PrefixOfPath DEF t
<1>8. Len(s) = n
  BY <1>1, <1>3, <1>4, <1>6
<1>9. ASSUME NEW k \in 1..n PROVE t[k] = s[k]
  <2>1. CASE k \in 1..Len(new)
    BY <2>1, <1>2, <1>6, <1>7
  <2>2. CASE k \notin 1..Len(new)
    <3> DEFINE x == (k - Len(new)) + Len(old)
    <3>1. x \in (Len(old) + 1)..m /\ x \in (Len(old) + 1)..Len(q) /\ x \in 1..m /\ (x - Len(old)) + Len(new) = k
      BY <2>2, <1>1, <1>3
    <3> HIDE DEF x
    <3>2. r[k] = q[x] /\ s[k] = p[x] /\ p[x] = q[x]
      BY <3>1, <1>2, <1>4, <1>6
    <3> QED
      BY <3>2, <1>7
  <2> QED
    BY <2>1, <2>2
<1>10. t = s
  <2>1. t \in Seq(PathNames) /\ s \in Seq(PathNames)
    BY <1>6, <1>7, PathIs
  <2> QED
    BY <2>1, <1>7, <1>8, <1>9, SeqEqual
<1> QED
  BY <1>3, <1>5, <1>10 DEF m, p, r, s, t

(* What moves was not watched, or is not at a steady path.                 *)
LEMMA MoveAgrees ==
  ASSUME AgreeInv, MovesAreSeen, NEW i \in DOMAIN dirs, NEW p \in DOMAIN dirs, NEW name \in Filenames,
         move_dir(i, p, name)
  PROVE  /\ TreeKept /\ AgreeInv' /\ DOMAIN dirs' = DOMAIN dirs
         /\ \A j \in DOMAIN dirs : \/ dirs'[j] = dirs[j]
                                   \/ IsPrefix(Append(dirs[p], name), dirs'[j]) /\ dirs'[j] \in TreePaths
<1> USE DEF AgreeInv
<1> DEFINE old == dirs[i]
           new == Append(dirs[p], name)
           moved == {j \in DOMAIN dirs : IsPrefix(old, dirs[j])}
           from == CHOOSE q \in Parent(i) : TRUE
<1>1. UNCHANGED <<setting, inodes, mark, own>> /\ ops' = ops + 1
  BY DEF move_dir
<1>2. /\ inodes \in Nat /\ old \in TreePaths /\ dirs[p] \in TreePaths
      /\ \A j \in DOMAIN dirs : j \in 1..inodes /\ dirs[j] \in TreePaths
  BY DEF TreeOK
<1>3. /\ new \in TreePaths /\ Len(new) = Len(dirs[p]) + 1 /\ IsPrefix(dirs[p], new)
      /\ \A k \in 1..Len(dirs[p]) : new[k] = dirs[p][k]
  BY <1>2, NameBelow
<1>4. /\ Len(old) > 1 /\ (IsPrefix(Root, old) => setting.moves)
      /\ p \notin moved /\ \A j \in DOMAIN dirs : dirs[j] # new
  BY DEF move_dir, InodeAt
<1>5. /\ DOMAIN dirs' = DOMAIN dirs
      /\ \A j \in moved : dirs'[j] = Moved(old, new, dirs[j])
      /\ \A j \in DOMAIN dirs \ moved : dirs'[j] = dirs[j]
  BY DEF move_dir, Moved
<1>6. queue' = queue \o Notice(from, "from", Last(old), TRUE) \o Notice(p, "to", name, TRUE)
  BY DEF move_dir
<1> HIDE DEF old, new, moved, from
<1>7. \A j \in DOMAIN dirs : j \in moved <=> IsPrefix(old, dirs[j])
  BY DEF moved
<1>8. \A j \in moved : j \in DOMAIN dirs
  BY DEF moved
<1>9. ASSUME NEW j \in moved PROVE dirs'[j] \in TreePaths /\ IsPrefix(new, dirs'[j])
  <2>1. dirs[j] \in TreePaths /\ IsPrefix(old, dirs[j]) /\ dirs'[j] = Moved(old, new, dirs[j])
    BY <1>2, <1>5, <1>7, <1>8
  <2> QED
    <3>1. old \in TreePaths /\ new \in TreePaths
      BY <1>2, <1>3
    <3>2. Moved(old, new, dirs[j]) \in TreePaths /\ IsPrefix(new, Moved(old, new, dirs[j]))
      BY <2>1, <3>1, MovedPath, Zenon
    <3> QED
      BY <2>1, <3>2
(* Above what does not move nothing moves.                                 *)
<1>10. ASSUME NEW j \in DOMAIN dirs \ moved, NEW n \in 1..Len(dirs[j])
       PROVE  \E k \in DOMAIN dirs \ moved : dirs[k] = SubSeq(dirs[j], 1, n)
  <2>1. PICK k \in DOMAIN dirs : dirs[k] = SubSeq(dirs[j], 1, n)
    BY DEF TreeOK
  <2>2. IsPrefix(dirs[k], dirs[j])
    BY <2>1, <1>2, PrefixOfPath
  <2>3. k \notin moved
    BY <2>2, <1>2, <1>7, PrefixOfLonger
  <2> QED
    BY <2>1, <2>3
<1>11. \A j, k \in DOMAIN dirs' : dirs'[j] = dirs'[k] => j = k
  <2> SUFFICES ASSUME NEW j \in DOMAIN dirs, NEW k \in DOMAIN dirs, dirs'[j] = dirs'[k] PROVE j = k
    BY <1>5
  <2>0. ASSUME NEW x \in moved, NEW y \in DOMAIN dirs \ moved PROVE dirs'[x] # dirs'[y]
    <3>1. dirs'[y] = dirs[y] /\ dirs[y] \in TreePaths
      BY <1>2, <1>5
    <3>2. ~IsPrefix(new, dirs[y])
      BY <1>3, <1>4, PrefixIsThere
    <3> QED
      BY <1>9, <3>1, <3>2
  <2>1. CASE j \in moved /\ k \in moved
    <3>1. Moved(old, new, dirs[j]) = Moved(old, new, dirs[k])
      BY <2>1, <1>5
    <3>2. IsPrefix(old, dirs[j]) /\ IsPrefix(old, dirs[k])
      BY <2>1, <1>7
    <3>3. dirs[j] = dirs[k]
      BY <3>1, <3>2, <1>2, <1>3, MovedApart
    <3> QED
      BY <3>3 DEF TreeOK
  <2>2. CASE j \notin moved /\ k \notin moved
    BY <2>2, <1>5 DEF TreeOK
  <2> QED
    BY <2>0, <2>1, <2>2
<1>12. ASSUME NEW j \in DOMAIN dirs', NEW n \in 1..Len(dirs'[j])
       PROVE  \E k \in DOMAIN dirs' : dirs'[k] = SubSeq(dirs'[j], 1, n)
  <2>1. CASE j \notin moved
    <3>1. j \in DOMAIN dirs \ moved /\ dirs'[j] = dirs[j]
      BY <2>1, <1>5
    <3>2. PICK k \in DOMAIN dirs \ moved : dirs[k] = SubSeq(dirs[j], 1, n)
      BY <3>1, <1>10
    <3> QED
      BY <3>1, <3>2, <1>5
  <2>2. CASE j \in moved /\ n >= Len(new)
    <3> DEFINE m == (n - Len(new)) + Len(old)
    <3>1. dirs[j] \in TreePaths /\ IsPrefix(old, dirs[j]) /\ dirs'[j] = Moved(old, new, dirs[j])
      BY <2>2, <1>2, <1>5, <1>7, <1>8
    <3>2. n \in Len(new)..Len(Moved(old, new, dirs[j]))
      BY <2>2, <3>1, <1>3, PathIs
    <3>3. /\ m \in 1..Len(dirs[j]) /\ IsPrefix(old, SubSeq(dirs[j], 1, m))
          /\ SubSeq(Moved(old, new, dirs[j]), 1, n) = Moved(old, new, SubSeq(dirs[j], 1, m))
      <4> HIDE DEF m
      <4>1. m = (n - Len(new)) + Len(old)
        BY DEF m
      <4>2. PICK q \in TreePaths : q = dirs[j]
        BY <3>1
      <4>3. IsPrefix(old, q) /\ n \in Len(new)..Len(Moved(old, new, q))
        BY <3>1, <3>2, <4>2
      <4>4. LET x == (n - Len(new)) + Len(old)
            IN  /\ x \in 1..Len(q) /\ IsPrefix(old, SubSeq(q, 1, x))
                /\ SubSeq(Moved(old, new, q), 1, n) = Moved(old, new, SubSeq(q, 1, x))
        BY <4>3, <1>2, <1>3, MovedPart, Zenon
      <4> QED
        BY <4>1, <4>2, <4>4
    <3>33. SubSeq(dirs'[j], 1, n) = Moved(old, new, SubSeq(dirs[j], 1, m))
      BY <3>1, <3>3
    <3>4. PICK k \in DOMAIN dirs : dirs[k] = SubSeq(dirs[j], 1, m)
      BY <3>3, <2>2, <1>8 DEF TreeOK
    <3>5. k \in moved
      BY <3>3, <3>4, <1>7
    <3> QED
      BY <3>33, <3>4, <3>5, <1>5
  <2>3. CASE j \in moved /\ ~(n >= Len(new))
    <3>1. /\ dirs'[j] \in TreePaths /\ IsPrefix(new, dirs'[j]) /\ Len(dirs[p]) \in Nat /\ Len(new) =< Len(dirs'[j])
          /\ \A k \in 1..Len(new) : new[k] = dirs'[j][k]
      BY <2>3, <1>2, <1>3, <1>9, PathIs, PrefixMeans
    <3>2. n \in 1..Len(dirs[p]) /\ n \in 1..Len(new)
      BY <2>3, <3>1, <1>3, PathIs
    <3>3. \A k \in 1..n : k \in 1..Len(new) /\ k \in 1..Len(dirs[p])
      BY <3>1, <3>2, <1>3
    <3>4. \A k \in 1..n : dirs'[j][k] = dirs[p][k]
      BY <3>1, <3>3, <1>3
    <3>5. SubSeq(dirs'[j], 1, n) = SubSeq(dirs[p], 1, n)
      BY <3>1, <3>2, <3>4, <1>2, PartOfLonger
    <3>6. PICK k \in DOMAIN dirs \ moved : dirs[k] = SubSeq(dirs[p], 1, n)
      BY <3>2, <1>4, <1>10
    <3> QED
      BY <3>5, <3>6, <1>5
  <2> QED
    BY <2>1, <2>2, <2>3
<1>13. TreeOK'
  <2>1. setting' \in Settings /\ inodes' \in Nat /\ ops' \in Nat
    BY <1>1 DEF TreeOK
  <2>2. \A j \in DOMAIN dirs' : j \in 1..inodes' /\ dirs'[j] \in TreePaths
    BY <1>1, <1>2, <1>5, <1>9
  <2> QED
    BY <2>1, <2>2, <1>11, <1>12 DEF TreeOK
<1>14. TreeKept
  <2> SUFFICES ASSUME NEW j \in moved, Steady(dirs[j]) PROVE FALSE
    BY <1>1, <1>2, <1>5 DEF TreeKept
  <2>1. dirs[j] \in TreePaths /\ IsPrefix(old, dirs[j]) /\ IsPrefix(Root, dirs[j])
    BY <1>7, <1>8 DEF Steady
  <2>2. Len(old) \in Nat /\ Len(old) =< Len(dirs[j]) /\ \A k \in 1..Len(old) : old[k] = dirs[j][k]
    BY <2>1, <1>2, PathIs, PrefixMeans
  <2>3. 1 \in 1..Len(old) /\ old[1] = dirs[j][1]
    BY <2>2, <1>4
  <2>4. IsPrefix(Root, old)
    BY <2>1, <2>3, <1>2, BelowRoot
  <2>5. dirs[j] = Root
    BY <2>4, <1>4 DEF Steady
  <2> QED
    BY <2>2, <2>5, <1>4, RootIsPath
<1>15. TellTruth(Notice(from, "from", Last(old), TRUE)) /\ TellTruth(Notice(p, "to", name, TRUE))
  <2>1. Last(old) \in PathNames /\ name \in PathNames
    BY <1>2, PathIs DEF Last, PathNames
  <2> QED
    BY <2>1, NoticeTells
<1>16. AgreeInv'
  <2> DEFINE s == Notice(from, "from", Last(old), TRUE)
             t == Notice(p, "to", name, TRUE)
  <2> HIDE DEF s, t
  <2>1. queue' = (queue \o s) \o t /\ TellTruth(s) /\ TellTruth(t)
    BY <1>6, <1>15 DEF s, t
  <2>2. queue \in Seq(TreeEvents) /\ s \in Seq(TreeEvents) /\ t \in Seq(TreeEvents)
    BY <2>1 DEF TellTruth, QueueOK
  <2>3. queue' = queue \o (s \o t)
    BY <2>1, <2>2, ConcatAssociative
  <2>4. TellTruth(s \o t)
    BY <2>1, TwoTellTruth
  <2>5. \A j \in DOMAIN mark' : j \in DOMAIN mark /\ j \in DOMAIN dirs' /\ mark'[j] = mark[j]
    BY <1>1, <1>5 DEF MarksOK
  <2> QED
    BY <1>1, <1>13, <1>14, <2>3, <2>4, <2>5, TreeChanges
<1> QED
  BY <1>5, <1>9, <1>14, <1>16 DEF new

-----------------------------------------------------------------------------
(* The table.                                                              *)

(* What is found for a descriptor is one of its entries.                   *)
LEMMA FindTells ==
  ASSUME TableOK, NEW d
  PROVE  IF \E k \in Entries : watches.data[k].wd = d
         THEN \E k \in Entries : watches.data[k].wd = d /\ find_path_for_wd(d) = watches.data[k].path
         ELSE find_path_for_wd(d) = Nothing
<1> DEFINE entries == {k \in 0..watches.length - 1 : watches.data[k].wd = d}
<1>1. CASE entries = {}
  BY <1>1 DEF find_path_for_wd, Entries
<1>2. CASE entries # {}
  <2>1. entries \subseteq Nat
    BY DEF TableOK
  <2>2. Min(entries) \in entries
    <3> HIDE DEF entries
    <3> QED
      BY <2>1, <1>2, MinOfNaturals
  <2> QED
    BY <2>2, <1>2 DEF find_path_for_wd, Entries
<1> QED
  BY <1>1, <1>2

LEMMA FoundIsAgreed ==
  ASSUME TableOK, NEW d, find_path_for_wd(d) # Nothing
  PROVE  \E k \in Entries : watches.data[k].wd = d /\ IsOf(d, find_path_for_wd(d))
                            /\ watches.data[k].path = find_path_for_wd(d)
<1>1. PICK k \in Entries : watches.data[k].wd = d /\ find_path_for_wd(d) = watches.data[k].path
  BY FindTells
<1> QED
  BY <1>1 DEF TableOK

(* A listed descriptor of a directory is found at its path.                *)
LEMMA ListedIsFound ==
  ASSUME TreeOK, TableOK, ListedOK, MarksOK, NEW i \in DOMAIN mark
  PROVE  find_path_for_wd(mark[i]) = dirs[i]
<1>1. mark[i] = i /\ i \in DOMAIN dirs
  BY DEF MarksOK
<1>2. PICK k \in Entries : watches.data[k].wd = i /\ find_path_for_wd(i) = watches.data[k].path
  BY FindTells DEF ListedOK
<1> QED
  BY <1>1, <1>2 DEF TableOK, IsOf

(* What waits stays true, if the tree stays and the table too but for      *)
(* entries that agree.                                                     *)
LEMMA QueueStays ==
  ASSUME QueueOK, queue' = queue \/ (queue # << >> /\ queue' = Tail(queue)) \/ queue' = << >>,
         \A e : EventOK(e) => EventOK(e)'
  PROVE  QueueOK'
<1>1. queue \in Seq(TreeEvents) /\ \A m \in 1..Len(queue) : EventOK(queue[m])
  BY DEF QueueOK
<1>2. queue' \in Seq(TreeEvents)
  <2>1. queue # << >> => Tail(queue) \in Seq(TreeEvents)
    BY <1>1, HeadTailProperties
  <2>2. << >> \in Seq(TreeEvents)
    OBVIOUS
  <2> QED
    BY <1>1, <2>1, <2>2
<1>3. ASSUME NEW m \in 1..Len(queue') PROVE EventOK(queue[m])'
  <2>1. \E n \in 1..Len(queue) : queue'[m] = queue[n]
    <3>1. CASE queue' = queue
      BY <3>1
    <3>2. CASE queue' = Tail(queue) /\ queue # << >>
      <4>1. Len(Tail(queue)) = Len(queue) - 1 /\ \A x \in 1..Len(Tail(queue)) : Tail(queue)[x] = queue[x + 1]
        BY <1>1, <3>2, HeadTailProperties
      <4>2. m + 1 \in 1..Len(queue)
        <5>1. Len(queue) \in Nat
          BY <1>1
        <5>2. Len(queue') = Len(queue) - 1
          BY <3>2, <4>1
        <5> QED
          BY <5>1, <5>2
      <4> QED
        BY <3>2, <4>1, <4>2
    <3>3. CASE queue' = << >>
      BY <3>3
    <3> QED
      BY <3>1, <3>2, <3>3
  <2>2. PICK n \in 1..Len(queue) : queue'[m] = queue[n]
    BY <2>1
  <2>3. PICK e : e = queue[n]
    OBVIOUS
  <2>4. EventOK(e)'
    BY <2>3, <1>1
  <2> QED
    BY <2>2, <2>3, <2>4
<1> QED
  BY <1>2, <1>3 DEF QueueOK

(* A directory that is there is watched and put into the table.            *)
LEMMA AddAgrees ==
  ASSUME TreeOK, MarksOK, TableOK, ListedOK, UNCHANGED fs, NEW path,
         Steady(path), CanAdd(path), add_watch_for_directory(path)
  PROVE  /\ TreeOK' /\ MarksOK' /\ TableOK' /\ ListedOK' /\ \A e : EventOK(e) => EventOK(e)'
         /\ \E i \in DOMAIN dirs : /\ dirs[i] = path /\ DOMAIN mark' = DOMAIN mark \cup {i}
                                   /\ \A j \in DOMAIN dirs : dirs[j] = path => j = i
<1> DEFINE i == CHOOSE x \in InodeAt(path) : TRUE
           n == watches.length
           cap == setting.max_watches
           entry == [wd |-> Wd(i), path |-> path]
<1>1. i \in DOMAIN dirs /\ dirs[i] = path /\ \A j \in DOMAIN dirs : dirs[j] = path => j = i
  BY TheInode DEF CanAdd
<1>2. mark' = With(mark, i, Wd(i)) /\ watches' = fixed_array_add_raw(watches, entry)
  BY DEF add_watch_for_directory
<1> HIDE DEF i
<1>3. Wd(i) = i /\ i \in 1..inodes
  BY <1>1, DirIs DEF Wd, MarksOK
<1>4. UNCHANGED <<setting, dirs, inodes, ops>>
  BY DEF fs
<1>5. /\ DOMAIN mark' = DOMAIN mark \cup {i} /\ mark'[i] = i
      /\ \A j \in DOMAIN mark : mark'[j] = mark[j]
  BY <1>2, <1>3 DEF With, MarksOK
<1>6. TreeOK'
  BY <1>4 DEF TreeOK
<1>7. MarksOK'
  BY <1>1, <1>4, <1>5 DEF MarksOK, Steady
<1>8. /\ n \in 0..cap /\ cap \in Nat /\ n < cap
      /\ watches = [capacity |-> cap, length |-> n, data |-> watches.data]
      /\ watches.data = [k \in 0..cap - 1 |-> watches.data[k]]
  <2>1. watches.capacity = cap /\ n \in 0..cap
    BY DEF TableOK
  <2>2. cap \in Nat
    BY DEF TableOK
  <2> QED
    BY <2>1, <2>2 DEF TableOK, CanAdd, IsFull
<1>9. /\ watches' = [capacity |-> cap, length |-> n + 1, data |-> watches'.data]
      /\ watches'.data = [k \in 0..cap - 1 |-> watches'.data[k]]
      /\ watches'.data[n] = entry /\ \A k \in 0..cap - 1 : k # n => watches'.data[k] = watches.data[k]
      /\ watches'.length = n + 1
  <2> HIDE DEF entry
  <2>1. watches' = [watches EXCEPT !.data[watches.length] = entry, !.length = @ + 1]
    BY <1>2, <1>8 DEF fixed_array_add_raw
  <2> DEFINE a == watches.data
  <2> HIDE DEF a, n, cap
  <2>2. watches = [capacity |-> cap, length |-> n, data |-> a] /\ a = [k \in 0..cap - 1 |-> a[k]]
    BY <1>8 DEF a
  <2>3. watches' = [capacity |-> cap, length |-> n + 1, data |-> [a EXCEPT ![n] = entry]]
    BY <2>1, <2>2
  <2>4. n \in 0..cap - 1
    BY <1>8
  <2>5. [a EXCEPT ![n] = entry] = [k \in 0..cap - 1 |-> IF k = n THEN entry ELSE a[k]]
    BY <2>2, <2>4
  <2> QED
    BY <2>3, <2>4, <2>5 DEF a
<1>10. Entries' = Entries \cup {n} /\ \A k \in Entries : watches'.data[k] = watches.data[k]
  <2> HIDE DEF cap, n, entry
  <2>1. watches.length = n
    BY DEF n
  <2>2. 0..(n + 1) - 1 = (0..n - 1) \cup {n}
    BY <1>8
  <2>3. \A k \in 0..n - 1 : k \in 0..cap - 1 /\ k # n
    BY <1>8
  <2> QED
    BY <1>9, <2>1, <2>2, <2>3 DEF Entries
<1>11. \A d, p : IsOf(d, p)' <=> IsOf(d, p)
  BY <1>4 DEF IsOf, Steady
<1>12. IsOf(i, path)
  BY <1>1, <1>3 DEF IsOf
<1>13. entry.wd = i /\ entry.path = path
  BY <1>3
<1>14. TableOK'
  <2>1. \A k \in Entries' : IsOf(watches.data[k].wd, watches.data[k].path)'
    <3> SUFFICES ASSUME NEW k \in Entries' PROVE IsOf(watches.data[k].wd, watches.data[k].path)'
      OBVIOUS
    <3>1. PICK d, p : d = watches'.data[k].wd /\ p = watches'.data[k].path
      OBVIOUS
    <3>2. IsOf(d, p)
      BY <3>1, <1>9, <1>10, <1>12, <1>13 DEF TableOK
    <3> QED
      BY <3>1, <3>2, <1>11
  <2>2. watches'.length \in 0..setting'.max_watches
    BY <1>4, <1>8, <1>9
  <2>3. setting'.max_watches \in Nat
    BY <1>4, <1>8
  <2> QED
    BY <2>1, <2>2, <2>3, <1>4, <1>9 DEF TableOK
<1>15. ListedOK'
  BY <1>5, <1>9, <1>10, <1>13 DEF ListedOK
<1>16. ASSUME NEW e, EventOK(e) PROVE EventOK(e)'
  <2>1. IsOf(e.wd, e.at) /\ (\A k \in Entries : watches.data[k].wd = e.wd => watches.data[k].path = e.at)
        /\ (e.kind = "ignored" => e.wd \notin DOMAIN dirs)
    BY <1>16 DEF EventOK, AgreedOn
  <2>2. e.wd = i => e.at = path
    BY <2>1, <1>1 DEF IsOf
  <2>3. \A k \in Entries' : watches'.data[k].wd = e.wd => watches'.data[k].path = e.at
    BY <2>1, <2>2, <1>9, <1>10, <1>13
  <2>4. IsOf(e.wd, e.at)'
    BY <2>1, <1>11
  <2> QED
    BY <2>1, <2>3, <2>4, <1>4 DEF EventOK, AgreedOn
<1> QED
  BY <1>1, <1>5, <1>6, <1>7, <1>14, <1>15, <1>16

-----------------------------------------------------------------------------
(* The watcher.                                                            *)

LEMMA CloseAgrees ==
  ASSUME TreeOK, TableOK, QueueOK, UNCHANGED fs, Close
  PROVE  TreeOK' /\ MarksOK' /\ TableOK' /\ ListedOK' /\ QueueOK'
<1>1. UNCHANGED <<setting, dirs, inodes, ops>> /\ mark' = << >> /\ queue' = << >>
      /\ watches' = [watches EXCEPT !.length = 0]
  BY DEF Close, remove_all_watches, fixed_array_clear_raw, fs
<1>2. DOMAIN mark' = {}
  BY <1>1
<1>3. TreeOK'
  BY <1>1 DEF TreeOK
<1>4. MarksOK' /\ ListedOK'
  BY <1>2 DEF MarksOK, ListedOK
<1>5. TableOK'
  <2>1. /\ watches' = [capacity |-> setting.max_watches, length |-> 0, data |-> watches.data]
        /\ watches'.length = 0 /\ watches'.data = watches.data
    BY <1>1 DEF TableOK
  <2>2. Entries' = {}
    BY <2>1 DEF Entries
  <2>3. setting'.max_watches \in Nat /\ 0 \in 0..setting.max_watches
    BY <1>1 DEF TableOK
  <2>4. watches'.data = [k \in 0..setting'.max_watches - 1 |-> watches'.data[k]]
    BY <1>1, <2>1 DEF TableOK
  <2>5. watches' = [capacity |-> setting'.max_watches, length |-> watches'.length, data |-> watches'.data]
    BY <1>1, <2>1
  <2>6. watches'.length \in 0..setting'.max_watches
    BY <1>1, <2>1, <2>3
  <2> QED
    BY <2>2, <2>3, <2>4, <2>5, <2>6 DEF TableOK
<1>6. QueueOK'
  BY <1>1 DEF QueueOK
<1> QED
  BY <1>3, <1>4, <1>5, <1>6

LEMMA UntouchedAgrees ==
  ASSUME TreeOK, MarksOK, TableOK, ListedOK, QueueOK, UNCHANGED <<fs, mark, watches>>,
         queue' = queue \/ (queue # << >> /\ queue' = Tail(queue))
  PROVE  TreeOK' /\ MarksOK' /\ TableOK' /\ ListedOK' /\ QueueOK'
<1>1. UNCHANGED <<setting, dirs, inodes, ops, mark, watches>>
  BY DEF fs
<1>2. TreeOK' /\ MarksOK'
  BY <1>1 DEF TreeOK, MarksOK, Steady
<1>3. \A d, p : IsOf(d, p)' <=> IsOf(d, p)
  BY <1>1 DEF IsOf, Steady
<1>4. TableOK' /\ ListedOK'
  BY <1>1 DEF TableOK, ListedOK, Entries, IsOf, Steady
<1>5. \A e : EventOK(e) => EventOK(e)'
  BY <1>1, <1>3 DEF EventOK, AgreedOn, Entries
<1>6. QueueOK'
  BY <1>5, QueueStays
<1> QED
  BY <1>2, <1>4, <1>6

LEMMA SteadyBelow ==
  ASSUME NEW p \in TreePaths, IsPrefix(Root, p), ~setting.moves
  PROVE  Steady(p)
  BY DEF Steady

LEMMA VisitIs ==
  ASSUME NEW p \in TreePaths, IsPrefix(Root, p), NEW then \in TrueChanges
  PROVE  /\ Visit(p, then) \in Seq(Visits) /\ Len(Visit(p, then)) = 1
         /\ Visit(p, then)[1] = [path |-> p, todo |-> Listing(p), then |-> then]
<1>1. Listing(p) \subseteq Filenames \ Hidden
  BY DEF Listing
<1>2. [path |-> p, todo |-> Listing(p), then |-> then] \in Visits
  BY <1>1 DEF Visits
<1> QED
  BY <1>2 DEF Visit

LEMMA StartAgrees ==
  ASSUME AgreeInv, platform_start_watching
  PROVE  AgreeInv'
<1> USE DEF AgreeInv
<1>1. /\ UNCHANGED <<fs, queue, report>> /\ walk = << >> /\ CanAdd(Root) /\ add_watch_for_directory(Root)
      /\ IF setting.recursive THEN walk' = Visit(Root, Nothing) /\ UNCHANGED <<started, is_active>>
         ELSE started' = TRUE /\ is_active' = TRUE /\ UNCHANGED walk
  BY DEF platform_start_watching
<1>2. Steady(Root) /\ Root \in TreePaths /\ IsPrefix(Root, Root)
  BY RootIsPath, PrefixOfSelf DEF Steady
<1>3. TreeOK' /\ MarksOK' /\ TableOK' /\ ListedOK' /\ \A e : EventOK(e) => EventOK(e)'
  BY <1>1, <1>2, AddAgrees
<1>4. QueueOK'
  BY <1>1, <1>3, QueueStays
<1>5. WalkOK' /\ StateOK'
  <2>1. UNCHANGED setting
    BY <1>1 DEF fs
  <2>2. Visit(Root, Nothing) \in Seq(Visits)
    BY <1>2, VisitIs DEF TrueChanges
  <2> QED
    BY <1>1, <2>1, <2>2 DEF WalkOK, StateOK
<1> QED
  BY <1>3, <1>4, <1>5

LEMMA StopAgrees ==
  ASSUME AgreeInv, platform_stop_watching
  PROVE  AgreeInv'
<1> USE DEF AgreeInv
<1>1. Close /\ UNCHANGED <<fs, walk, report>> /\ started' = FALSE /\ is_active' = FALSE
  BY DEF platform_stop_watching
<1>2. WalkOK' /\ StateOK'
  BY <1>1 DEF WalkOK, StateOK, fs
<1> QED
  BY <1>1, <1>2, CloseAgrees

LEMMA FailAgrees ==
  ASSUME AgreeInv, WalkFails, UNCHANGED <<fs, started, report>>
  PROVE  AgreeInv'
<1> USE DEF AgreeInv
<1>1. walk' = << >> /\ is_active' \in BOOLEAN
  BY DEF WalkFails, StateOK
<1>2. WalkOK' /\ StateOK'
  BY <1>1 DEF WalkOK, StateOK
<1>3. CASE started
  BY <1>2, <1>3, UntouchedAgrees DEF WalkFails
<1>4. CASE ~started
  BY <1>2, <1>4, CloseAgrees DEF WalkFails
<1> QED
  BY <1>3, <1>4

(* The directory at the end of the walk, and the walk without it.          *)
LEMMA WalkEnds ==
  ASSUME WalkOK, walk # << >>
  PROVE  /\ setting.recursive /\ Len(walk) \in Nat /\ Len(walk) >= 1
         /\ Last(walk) \in Visits /\ Last(walk) = walk[Len(walk)]
         /\ Last(walk).path \in TreePaths /\ IsPrefix(Root, Last(walk).path)
         /\ Last(walk).todo \subseteq Filenames \ Hidden /\ Last(walk).then \in TrueChanges
         /\ Front(walk) \in Seq(Visits) /\ Len(Front(walk)) = Len(walk) - 1
         /\ \A k \in 1..(Len(walk) - 1) : Front(walk)[k] = walk[k]
<1>1. walk \in Seq(Visits) /\ setting.recursive /\ Len(walk) \in Nat /\ Len(walk) >= 1
  BY EmptySeq DEF WalkOK
<1>2. Last(walk) \in Visits /\ Last(walk) = walk[Len(walk)]
  BY <1>1 DEF Last
<1>3. Front(walk) = SubSeq(walk, 1, Len(walk) - 1)
  BY DEF Front
<1>4. /\ Front(walk) \in Seq(Visits) /\ Len(Front(walk)) = Len(walk) - 1
      /\ \A k \in 1..(Len(walk) - 1) : Front(walk)[k] = walk[k]
  <2>1. CASE Len(walk) = 1
    <3>1. Front(walk) = << >>
      BY <2>1, <1>1, <1>3, SubSeqEmpty
    <3> QED
      BY <3>1, <2>1
  <2>2. CASE Len(walk) # 1
    <3>1. 1 \in 1..Len(walk) + 1 /\ Len(walk) - 1 \in 1 - 1..Len(walk) /\ Len(walk) - 1 - 1 + 1 = Len(walk) - 1
      BY <1>1
    <3> QED
      BY <1>1, <1>3, <3>1, SubSeqProperties
  <2> QED
    BY <2>1, <2>2
<1>5. Last(walk).path \in TreePaths /\ IsPrefix(Root, Last(walk).path)
      /\ Last(walk).todo \subseteq Filenames \ Hidden /\ Last(walk).then \in TrueChanges
  BY <1>2 DEF Visits
<1> QED
  BY <1>1, <1>2, <1>4, <1>5

(* One step of the walk: a directory is done, or a name of it is visited.  *)
LEMMA DoneAgrees ==
  ASSUME AgreeInv, walk # << >>, Last(walk).todo = {}, walk' = Front(walk),
         UNCHANGED <<fs, mark, queue, watches>>,
         started' \in BOOLEAN, is_active' \in BOOLEAN, report' \in {Last(walk).then, report}
  PROVE  AgreeInv'
<1> USE DEF AgreeInv
<1>1. TreeOK' /\ MarksOK' /\ TableOK' /\ ListedOK' /\ QueueOK'
  BY UntouchedAgrees
<1>2. WalkOK' /\ StateOK'
  BY WalkEnds DEF WalkOK, StateOK, fs
<1> QED
  BY <1>1, <1>2

(* The walk after a visit.                                                 *)
LEMMA VisitedIs ==
  ASSUME WalkOK, walk # << >>, NEW name \in Last(walk).todo,
         walk' = Append(Front(walk), [Last(walk) EXCEPT !.todo = @ \ {name}])
                 \o Visit(Append(Last(walk).path, name), Nothing)
  PROVE  /\ walk' \in Seq(Visits) /\ Len(walk') = Len(walk) + 1
         /\ \A k \in 1..(Len(walk) - 1) : walk'[k] = walk[k]
         /\ walk'[Len(walk)] = [Last(walk) EXCEPT !.todo = @ \ {name}]
         /\ walk'[Len(walk) + 1] = [path |-> Append(Last(walk).path, name),
                                    todo |-> Listing(Append(Last(walk).path, name)), then |-> Nothing]
<1> DEFINE top == Last(walk)
           front == Front(walk)
           less == [top EXCEPT !.todo = @ \ {name}]
           visit == Visit(Append(top.path, name), Nothing)
           begun == Append(front, less)
<1>1. /\ Len(walk) \in Nat /\ Len(walk) >= 1 /\ top \in Visits /\ top.path \in TreePaths
      /\ IsPrefix(Root, top.path) /\ top.todo \subseteq Filenames \ Hidden
      /\ front \in Seq(Visits) /\ Len(front) = Len(walk) - 1 /\ \A k \in 1..(Len(walk) - 1) : front[k] = walk[k]
  BY WalkEnds
<1>2. less \in Visits
  BY <1>1 DEF Visits
<1>3. Append(top.path, name) \in TreePaths /\ IsPrefix(Root, Append(top.path, name)) /\ Nothing \in TrueChanges
  BY <1>1, NameBelow DEF TrueChanges
<1>4. /\ visit \in Seq(Visits) /\ Len(visit) = 1
      /\ visit[1] = [path |-> Append(top.path, name), todo |-> Listing(Append(top.path, name)), then |-> Nothing]
  BY <1>3, VisitIs
<1> HIDE DEF front, less, visit, top
<1>5. /\ begun \in Seq(Visits) /\ Len(begun) = Len(walk) /\ begun[Len(walk)] = less
      /\ \A k \in 1..(Len(walk) - 1) : begun[k] = front[k]
  <2>1. Len(front) + 1 = Len(walk)
    BY <1>1
  <2> QED
    BY <1>1, <1>2, <2>1, AppendProperties
<1>6. walk' = begun \o visit
  BY DEF front, less, visit, top
<1> DEFINE all == begun \o visit
<1> HIDE DEF begun
<1>7. all \in Seq(Visits) /\ Len(all) = Len(walk) + 1
  <2>1. Len(all) = Len(begun) + Len(visit) /\ all \in Seq(Visits)
    BY <1>4, <1>5, ConcatProperties
  <2> QED
    BY <2>1, <1>4, <1>5
<1>8. \A k \in 1..Len(walk) : all[k] = begun[k]
  <2>1. \A k \in 1..Len(begun) : all[k] = begun[k]
    BY <1>4, <1>5
  <2> QED
    BY <2>1, <1>5
<1>9. all[Len(walk) + 1] = visit[1]
  <2>1. begun \in Seq(Visits) /\ visit \in Seq(Visits) /\ 1 \in 1..Len(visit)
    BY <1>4, <1>5
  <2>2. all[Len(begun) + 1] = visit[1]
    BY <2>1
  <2> QED
    BY <2>2, <1>5
<1>10. walk' = all
  BY <1>6
<1> HIDE DEF all
<1>11. /\ \A k \in 1..(Len(walk) - 1) : k \in 1..Len(walk)
       /\ Len(walk) \in 1..Len(walk)
  BY <1>1
<1>12. /\ \A k \in 1..(Len(walk) - 1) : all[k] = walk[k]
       /\ all[Len(walk)] = less
  BY <1>1, <1>5, <1>8, <1>11
<1> QED
  BY <1>4, <1>7, <1>9, <1>10, <1>12 DEF less, top

LEMMA VisitAgrees ==
  ASSUME AgreeInv, MovesAreSeen, walk # << >>, NEW name \in Last(walk).todo,
         CanAdd(Append(Last(walk).path, name)), add_watch_for_directory(Append(Last(walk).path, name)),
         walk' = Append(Front(walk), [Last(walk) EXCEPT !.todo = @ \ {name}])
                 \o Visit(Append(Last(walk).path, name), Nothing),
         UNCHANGED <<fs, is_active, queue, started, report>>
  PROVE  AgreeInv'
<1> USE DEF AgreeInv
<1> DEFINE sub == Append(Last(walk).path, name)
<1>1. sub \in TreePaths /\ IsPrefix(Root, sub) /\ setting.recursive
  BY WalkEnds, NameBelow
<1>2. Steady(sub)
  BY <1>1, SteadyBelow DEF MovesAreSeen
<1> HIDE DEF sub
<1>3. TreeOK' /\ MarksOK' /\ TableOK' /\ ListedOK' /\ \A e : EventOK(e) => EventOK(e)'
  BY <1>2, AddAgrees DEF sub
<1>4. QueueOK'
  BY <1>3, QueueStays
<1>5. walk' \in Seq(Visits)
  BY VisitedIs
<1>6. WalkOK' /\ StateOK'
  BY <1>1, <1>5 DEF WalkOK, StateOK, fs
<1> QED
  BY <1>3, <1>4, <1>6

LEMMA WalkAgrees ==
  ASSUME AgreeInv, MovesAreSeen, add_watches_recursive
  PROVE  AgreeInv'
<1>1. walk # << >> /\ UNCHANGED fs
  BY DEF add_watches_recursive
<1>2. CASE /\ Last(walk).todo = {} /\ walk' = Front(walk)
           /\ IF Len(walk) = 1 /\ ~started
              THEN started' = TRUE /\ is_active' = TRUE ELSE UNCHANGED <<started, is_active>>
           /\ report' = IF Len(walk) = 1 THEN Last(walk).then ELSE report
           /\ UNCHANGED <<mark, queue, watches>>
  <2>1. started' \in BOOLEAN /\ is_active' \in BOOLEAN /\ report' \in {Last(walk).then, report}
    BY <1>2 DEF AgreeInv, StateOK
  <2> QED
    BY <1>1, <1>2, <2>1, DoneAgrees
<1>3. CASE \E name \in Last(walk).todo :
             /\ IF CanAdd(Append(Last(walk).path, name))
                THEN /\ add_watch_for_directory(Append(Last(walk).path, name))
                     /\ walk' = Append(Front(walk), [Last(walk) EXCEPT !.todo = @ \ {name}])
                                \o Visit(Append(Last(walk).path, name), Nothing)
                     /\ UNCHANGED <<is_active, queue>>
                ELSE WalkFails
             /\ UNCHANGED <<started, report>>
  <2>1. PICK name \in Last(walk).todo :
             /\ IF CanAdd(Append(Last(walk).path, name))
                THEN /\ add_watch_for_directory(Append(Last(walk).path, name))
                     /\ walk' = Append(Front(walk), [Last(walk) EXCEPT !.todo = @ \ {name}])
                                \o Visit(Append(Last(walk).path, name), Nothing)
                     /\ UNCHANGED <<is_active, queue>>
                ELSE WalkFails
             /\ UNCHANGED <<started, report>>
    BY <1>3
  <2>2. CASE CanAdd(Append(Last(walk).path, name))
    BY <1>1, <2>1, <2>2, VisitAgrees
  <2>3. CASE ~CanAdd(Append(Last(walk).path, name))
    BY <1>1, <2>1, <2>3, FailAgrees
  <2> QED
    BY <2>2, <2>3
<1> QED
  BY <1>2, <1>3 DEF add_watches_recursive

-----------------------------------------------------------------------------
(* The events.                                                             *)

LEMMA NextEvent ==
  ASSUME QueueOK, queue # << >>
  PROVE  /\ Head(queue) \in TreeEvents /\ EventOK(Head(queue)) /\ Head(queue) = queue[1]
         /\ Len(queue) \in Nat /\ Len(queue) >= 1 /\ Len(Tail(queue)) = Len(queue) - 1
         /\ \A m \in 1..(Len(queue) - 1) : Tail(queue)[m] = queue[m + 1]
<1>1. queue \in Seq(TreeEvents) /\ \A m \in 1..Len(queue) : EventOK(queue[m])
  BY DEF QueueOK
<1>2. Len(queue) \in Nat /\ Len(queue) >= 1 /\ 1 \in 1..Len(queue) /\ Head(queue) = queue[1]
  BY <1>1, EmptySeq
<1>3. Len(Tail(queue)) = Len(queue) - 1 /\ \A m \in 1..Len(Tail(queue)) : Tail(queue)[m] = queue[m + 1]
  BY <1>1, HeadTailProperties
<1>4. Head(queue) \in TreeEvents /\ EventOK(queue[1])
  BY <1>1, <1>2
<1> QED
  BY <1>2, <1>3, <1>4

(* The entry of a descriptor that is gone goes, the others stay.           *)
LEMMA PruneAgrees ==
  ASSUME AgreeInv, PruneIgnored
  PROVE  AgreeInv'
<1> USE DEF AgreeInv
<1> DEFINE d == Head(queue).wd
           entries == {k \in 0..watches.length - 1 : watches.data[k].wd = d}
           n == watches.length
           cap == setting.max_watches
           m == Min(entries)
<1>1. /\ queue # << >> /\ Head(queue).kind = "ignored" /\ queue' = Tail(queue)
      /\ UNCHANGED <<fs, mark, started, is_active, walk, report>>
  BY DEF PruneIgnored, Reading
<1>2. watches' = IF entries = {} THEN watches ELSE fixed_array_remove_swap_raw(watches, Min(entries))
  BY DEF PruneIgnored
<1>3. UNCHANGED <<setting, dirs, inodes, ops>>
  BY <1>1 DEF fs
<1>4. WalkOK' /\ StateOK'
  BY <1>1, <1>3 DEF WalkOK, StateOK
<1>5. d \notin DOMAIN dirs
  BY <1>1, NextEvent DEF EventOK
<1>6. CASE entries = {}
  <2>1. UNCHANGED <<fs, mark, watches>>
    BY <1>1, <1>2, <1>6
  <2> QED
    BY <1>1, <1>4, <2>1, UntouchedAgrees
<1>7. CASE entries # {}
  <2>1. entries \subseteq Nat /\ cap \in Nat /\ n \in 0..cap
    BY DEF TableOK
  <2>2. m \in entries
    <3> HIDE DEF entries
    <3> QED
      BY <2>1, <1>7, MinOfNaturals
  <2>3. m \in 0..n - 1 /\ watches.data[m].wd = d
    BY <2>2
  <2>4. watches' = fixed_array_remove_swap_raw(watches, m)
    BY <1>2, <1>7
  <2> HIDE DEF entries, m
  <2> DEFINE a == watches.data
             b == [k \in 0..cap - 1 |-> IF k = m /\ m < n - 1 THEN a[n - 1] ELSE a[k]]
  <2>5. watches' = [capacity |-> cap, length |-> n - 1, data |-> b] /\ watches'.length = n - 1 /\ watches'.data = b
    <3>1. watches = [capacity |-> cap, length |-> n, data |-> a] /\ a = [k \in 0..cap - 1 |-> a[k]]
      BY DEF TableOK
    <3>2. watches' = [watches EXCEPT !.length = @ - 1,
                        !.data[m] = IF m < watches.length - 1 THEN watches.data[watches.length - 1] ELSE @]
      BY <2>1, <2>3, <2>4 DEF fixed_array_remove_swap_raw
    <3> DEFINE x == IF m < n - 1 THEN a[n - 1] ELSE a[m]
    <3>3. watches' = [watches EXCEPT !.length = n - 1, !.data[m] = x]
      BY <3>2
    <3> HIDE DEF a, n, cap, d, x
    <3>4. watches' = [capacity |-> cap, length |-> n - 1, data |-> [a EXCEPT ![m] = x]]
      BY <3>1, <3>3
    <3>5. m \in 0..cap - 1
      BY <2>1, <2>3
    <3>6. [a EXCEPT ![m] = x] = [k \in 0..cap - 1 |-> IF k = m THEN x ELSE a[k]]
      BY <3>1, <3>5
    <3>7. [k \in 0..cap - 1 |-> IF k = m THEN x ELSE a[k]] = b
      BY DEF x
    <3> QED
      BY <3>4, <3>6, <3>7
  <2> HIDE DEF a, b, n, cap, d
  <2>6. watches.data = a /\ watches.length = n /\ setting.max_watches = cap
    BY DEF a, n, cap
  <2>7. \A k \in 0..n - 2 : b[k] = a[k] \/ b[k] = a[n - 1]
    BY <2>1 DEF b
  <2>8. Entries = 0..n - 1 /\ Entries' = 0..n - 2
    BY <2>1, <2>5, <2>6 DEF Entries
  <2>9. \A k \in Entries' : \E x \in Entries : watches'.data[k] = watches.data[x]
    <3> SUFFICES ASSUME NEW k \in 0..n - 2 PROVE \E x \in Entries : watches'.data[k] = watches.data[x]
      BY <2>8
    <3>1. k \in Entries /\ n - 1 \in Entries
      BY <2>1, <2>3, <2>8
    <3> QED
      BY <3>1, <2>5, <2>6, <2>7
  <2>10. \A d1, p : IsOf(d1, p)' <=> IsOf(d1, p)
    BY <1>3 DEF IsOf, Steady
  <2>11. TreeOK' /\ MarksOK'
    BY <1>1, <1>3 DEF TreeOK, MarksOK, Steady
  <2>12. TableOK'
    <3>1. ASSUME NEW k \in Entries' PROVE IsOf(watches.data[k].wd, watches.data[k].path)'
      <4>1. PICK x \in Entries : watches'.data[k] = watches.data[x]
        BY <2>9
      <4>2. PICK d1, p : d1 = watches.data[x].wd /\ p = watches.data[x].path
        OBVIOUS
      <4>3. IsOf(d1, p)
        BY <4>2 DEF TableOK
      <4> QED
        BY <4>1, <4>2, <4>3, <2>10
    <3>2. setting'.max_watches = cap
      BY <1>3, <2>6
    <3>3. watches'.length \in 0..cap
      BY <2>1, <2>3, <2>5
    <3>4. watches'.data = [k \in 0..cap - 1 |-> watches'.data[k]]
      BY <2>5 DEF b
    <3> QED
      BY <3>1, <3>2, <3>3, <3>4, <2>1, <2>5 DEF TableOK
  <2>13. ListedOK'
    <3> SUFFICES ASSUME NEW i \in DOMAIN mark PROVE \E k \in Entries' : watches'.data[k].wd = i
      BY <1>1 DEF ListedOK
    <3>1. PICK k \in Entries : watches.data[k].wd = i
      BY DEF ListedOK
    <3>2. k # m
      BY <3>1, <2>3, <1>5 DEF MarksOK
    <3>3. CASE k = n - 1
      <4>1. m \in 0..n - 2 /\ m < n - 1
        BY <2>1, <2>3, <2>8, <3>2, <3>3
      <4>2. b[m] = a[n - 1]
        BY <2>1, <4>1 DEF b
      <4> QED
        BY <4>1, <4>2, <3>1, <3>3, <2>5, <2>6, <2>8
    <3>4. CASE k # n - 1
      <4>1. k \in 0..n - 2 /\ k \in 0..cap - 1
        BY <2>1, <2>8, <3>4
      <4>2. b[k] = a[k]
        BY <3>2, <4>1 DEF b
      <4> QED
        BY <4>1, <4>2, <3>1, <2>5, <2>6, <2>8
    <3> QED
      BY <3>3, <3>4
  <2>14. ASSUME NEW e, EventOK(e) PROVE EventOK(e)'
    <3>1. IsOf(e.wd, e.at) /\ (\A k \in Entries : watches.data[k].wd = e.wd => watches.data[k].path = e.at)
          /\ (e.kind = "ignored" => e.wd \notin DOMAIN dirs)
      BY <2>14 DEF EventOK, AgreedOn
    <3>2. \A k \in Entries' : watches'.data[k].wd = e.wd => watches'.data[k].path = e.at
      BY <2>9, <3>1
    <3> QED
      BY <1>3, <2>10, <3>1, <3>2 DEF EventOK, AgreedOn
  <2>15. QueueOK'
    BY <1>1, <2>14, QueueStays
  <2> QED
    BY <1>4, <2>11, <2>12, <2>13, <2>15
<1> QED
  BY <1>6, <1>7

(* What the watcher takes for the place of a change is where it happened.  *)
LEMMA EventsPath ==
  ASSUME TreeOK, TableOK, QueueOK, queue # << >>, find_path_for_wd(Head(queue).wd) # Nothing
  PROVE  LET e == Head(queue)
         IN  /\ find_path_for_wd(e.wd) = e.at /\ Steady(e.at) /\ e.at \in TreePaths /\ IsPrefix(Root, e.at)
             /\ <<Append(e.at, e.name), Append(e.at, e.name)>> \in TrueChanges
<1> DEFINE e == Head(queue)
<1>1. e \in TreeEvents /\ EventOK(e)
  BY NextEvent
<1> HIDE DEF e
<1>2. AgreedOn(e.wd, e.at)
  BY <1>1 DEF EventOK
<1>3. PICK k \in Entries : watches.data[k].wd = e.wd /\ watches.data[k].path = find_path_for_wd(e.wd)
  BY FoundIsAgreed DEF e
<1>4. find_path_for_wd(e.wd) = e.at /\ Steady(e.at)
  BY <1>2, <1>3 DEF AgreedOn, IsOf
<1>5. e.at \in TreePaths /\ IsPrefix(Root, e.at)
  BY <1>4 DEF Steady
<1>6. e.name \in EventNames
  BY <1>1 DEF TreeEvents
<1>7. Append(e.at, e.name) \in Seq(EventNames)
  <2>1. e.at \in Seq(PathNames)
    BY <1>5, PathIs
  <2>2. PathNames \subseteq EventNames
    BY DEF PathNames, EventNames
  <2>3. e.at \in Seq(EventNames)
    BY <2>1, <2>2
  <2> QED
    BY <1>6, <2>3, AppendProperties
<1>8. <<Append(e.at, e.name), Append(e.at, e.name)>> \in TrueChanges
  BY <1>7 DEF TrueChanges
<1> QED
  BY <1>4, <1>5, <1>8 DEF e

(* A directory that an event announces and that is there is in the tree.   *)
LEMMA AnnouncedPath ==
  ASSUME TreeOK, NEW p \in TreePaths, IsPrefix(Root, p), NEW name \in EventNames, CanAdd(Append(p, name))
  PROVE  name \in Filenames /\ Append(p, name) \in TreePaths /\ IsPrefix(Root, Append(p, name))
<1>1. PICK i \in DOMAIN dirs : dirs[i] = Append(p, name)
  BY DEF CanAdd, InodeAt
<1>2. dirs[i] \in TreePaths
  BY DirIs
<1>3. p \in Seq(EventNames) /\ Len(p) \in Nat /\ Len(p) >= 1
  <2>1. p \in Seq(PathNames) /\ PathNames \subseteq EventNames
    BY PathIs DEF PathNames, EventNames
  <2> QED
    BY <2>1, PathIs, SeqMonotonic
<1>4. Len(Append(p, name)) = Len(p) + 1 /\ Append(p, name)[Len(p) + 1] = name
  BY <1>3, AppendProperties
<1>5. name \in Filenames
  <2>1. Len(dirs[i]) = Len(p) + 1 /\ dirs[i][Len(p) + 1] = name /\ Len(p) + 1 \in 2..Len(dirs[i])
    BY <1>1, <1>3, <1>4
  <2> QED
    BY <2>1, <1>2, PathIs
<1> QED
  BY <1>5, NameBelow

(* What handling an event that is not IN_IGNORED does.                     *)
LEMMA HandleCases ==
  ASSUME QueueOK, ReportChange
  PROVE  LET e == Head(queue)
             found == find_path_for_wd(e.wd)
             full == Append(found, e.name)
             change == <<full, Append(e.at, e.name)>>
             extend == setting.recursive /\ Extends(e)
         IN  /\ started /\ is_active /\ walk = << >> /\ queue # << >> /\ e.kind # "ignored"
             /\ queue' = Tail(queue) /\ UNCHANGED <<fs, started>>
             /\ \/ found = Nothing /\ UNCHANGED <<mark, watches, walk, report, is_active>>
                \/ /\ found # Nothing /\ extend /\ ~CanAdd(full)
                   /\ is_active' = FALSE /\ UNCHANGED <<mark, watches, walk, report>>
                \/ /\ found # Nothing /\ ~extend
                   /\ UNCHANGED <<mark, watches, walk, is_active>> /\ report' = change
                \/ /\ found # Nothing /\ extend /\ CanAdd(full) /\ add_watch_for_directory(full)
                   /\ UNCHANGED is_active
                   /\ IF e.kind = "to" THEN walk' = Visit(full, change) /\ UNCHANGED report
                      ELSE report' = change /\ UNCHANGED walk
BY DEF ReportChange, Reading, Extends

LEMMA HandleAgrees ==
  ASSUME AgreeInv, MovesAreSeen, ReportChange
  PROVE  AgreeInv'
<1> USE DEF AgreeInv
<1> DEFINE e == Head(queue)
           found == find_path_for_wd(e.wd)
           full == Append(found, e.name)
           change == <<full, Append(e.at, e.name)>>
           extend == setting.recursive /\ Extends(e)
<1>1. /\ started /\ is_active /\ walk = << >> /\ queue # << >>
      /\ queue' = Tail(queue) /\ UNCHANGED <<fs, started>>
      /\ \/ found = Nothing /\ UNCHANGED <<mark, watches, walk, report, is_active>>
         \/ /\ found # Nothing /\ extend /\ ~CanAdd(full)
            /\ is_active' = FALSE /\ UNCHANGED <<mark, watches, walk, report>>
         \/ /\ found # Nothing /\ ~extend
            /\ UNCHANGED <<mark, watches, walk, is_active>> /\ report' = change
         \/ /\ found # Nothing /\ extend /\ CanAdd(full) /\ add_watch_for_directory(full)
            /\ UNCHANGED is_active
            /\ IF e.kind = "to" THEN walk' = Visit(full, change) /\ UNCHANGED report
               ELSE report' = change /\ UNCHANGED walk
  BY HandleCases
<1>2. found # Nothing => /\ found = e.at /\ e.at \in TreePaths /\ IsPrefix(Root, e.at)
                         /\ change \in TrueChanges /\ e.name \in EventNames
  <2> SUFFICES ASSUME found # Nothing
               PROVE  /\ found = e.at /\ e.at \in TreePaths /\ IsPrefix(Root, e.at)
                      /\ change \in TrueChanges /\ e.name \in EventNames
    OBVIOUS
  <2>1. /\ found = e.at /\ e.at \in TreePaths /\ IsPrefix(Root, e.at)
        /\ <<Append(e.at, e.name), Append(e.at, e.name)>> \in TrueChanges
    BY <1>1, EventsPath
  <2>2. e.name \in EventNames
    BY <1>1, NextEvent DEF TreeEvents
  <2> QED
    BY <2>1, <2>2
<1> HIDE DEF e, found, full, change, extend
<1>3. CASE UNCHANGED <<mark, watches, walk>>
  <2>1. TreeOK' /\ MarksOK' /\ TableOK' /\ ListedOK' /\ QueueOK'
    BY <1>1, <1>3, UntouchedAgrees
  <2>2. report' \in TrueChanges /\ is_active' \in BOOLEAN
    BY <1>1, <1>2, <1>3 DEF StateOK
  <2>3. WalkOK' /\ StateOK'
    BY <1>1, <1>3, <2>2 DEF WalkOK, StateOK, fs
  <2> QED
    BY <2>1, <2>3
<1>4. CASE /\ found # Nothing /\ extend /\ CanAdd(full) /\ add_watch_for_directory(full)
           /\ UNCHANGED is_active
           /\ IF e.kind = "to" THEN walk' = Visit(full, change) /\ UNCHANGED report
              ELSE report' = change /\ UNCHANGED walk
  <2>1. full \in TreePaths /\ IsPrefix(Root, full)
    BY <1>2, <1>4, AnnouncedPath DEF full
  <2>2. setting.recursive
    BY <1>4 DEF extend
  <2>3. Steady(full)
    BY <2>1, <2>2, SteadyBelow DEF MovesAreSeen
  <2>4. TreeOK' /\ MarksOK' /\ TableOK' /\ ListedOK' /\ \A x : EventOK(x) => EventOK(x)'
    BY <1>1, <1>4, <2>3, AddAgrees
  <2>5. QueueOK'
    BY <1>1, <2>4, QueueStays
  <2>6. walk' \in Seq(Visits) /\ report' \in TrueChanges
    BY <1>1, <1>2, <1>4, <2>1, VisitIs DEF WalkOK, StateOK
  <2>7. WalkOK' /\ StateOK'
    BY <1>1, <1>4, <2>2, <2>6 DEF WalkOK, StateOK, fs
  <2> QED
    BY <2>4, <2>5, <2>7
<1> QED
  BY <1>1, <1>3, <1>4

-----------------------------------------------------------------------------
(* Reports.                                                                *)

LEMMA InotifyInitAgrees == ASSUME InotifyInit PROVE AgreeInv
<1>1. /\ setting \in Settings /\ inodes = 2 /\ ops = 0 /\ mark = << >> /\ queue = << >> /\ walk = << >>
      /\ started = FALSE /\ is_active = FALSE /\ report = Nothing
      /\ watches = fixed_array_init_raw(setting.max_watches)
      /\ DOMAIN dirs = {1, 2} /\ dirs[1] = Root /\ dirs[2] = Outside
  BY DEF InotifyInit
<1>2. Root \in TreePaths /\ Outside \in TreePaths /\ Root # Outside /\ Len(Root) = 1 /\ Len(Outside) = 1
  BY RootIsPath DEF Root, Outside
<1>3. TreeOK
  <2>1. ASSUME NEW i \in DOMAIN dirs, NEW n \in 1..Len(dirs[i])
        PROVE  \E j \in DOMAIN dirs : dirs[j] = SubSeq(dirs[i], 1, n)
    <3>1. dirs[i] \in Seq(PathNames) /\ n = Len(dirs[i])
      BY <1>1, <1>2, PathIs
    <3>2. SubSeq(dirs[i], 1, n) = dirs[i]
      BY <3>1, SubSeqFull
    <3> QED
      BY <3>2
  <2>2. \A i \in DOMAIN dirs : i \in 1..inodes /\ dirs[i] \in TreePaths
    BY <1>1, <1>2
  <2>3. \A i, j \in DOMAIN dirs : dirs[i] = dirs[j] => i = j
    BY <1>1, <1>2
  <2> QED
    BY <1>1, <2>1, <2>2, <2>3 DEF TreeOK
<1>4. DOMAIN mark = {}
  BY <1>1
<1>5. MarksOK /\ ListedOK
  BY <1>4 DEF MarksOK, ListedOK
<1>6. TableOK
  <2> DEFINE cap == setting.max_watches
             blank == [i \in 0..cap - 1 |-> Unset]
  <2>1. cap \in Nat
    BY <1>1, InotifyAssumption
  <2> HIDE DEF cap
  <2>2. watches = [capacity |-> cap, length |-> 0, data |-> blank]
    BY <1>1 DEF fixed_array_init_raw, cap
  <2>3. Entries = {}
    BY <2>2 DEF Entries
  <2>4. watches.length = 0 /\ watches.data = blank /\ 0 \in 0..cap
    BY <2>1, <2>2
  <2>5. blank = [k \in 0..cap - 1 |-> blank[k]]
    OBVIOUS
  <2> HIDE DEF blank
  <2> QED
    BY <2>1, <2>2, <2>3, <2>4, <2>5 DEF TableOK, cap
<1>7. QueueOK /\ WalkOK /\ StateOK
  <2>1. << >> \in Seq(TreeEvents) /\ << >> \in Seq(Visits) /\ Len(<< >>) = 0 /\ 1..0 = {}
    BY EmptySeq
  <2>2. QueueOK
    BY <1>1, <2>1 DEF QueueOK
  <2> QED
    BY <1>1, <2>1, <2>2 DEF WalkOK, StateOK, TrueChanges
<1> QED
  BY <1>3, <1>5, <1>6, <1>7 DEF AgreeInv

LEMMA InotifyStepAgrees ==
  ASSUME AgreeInv, MovesAreSeen, [InotifyNext]_inotify_vars
  PROVE  AgreeInv'
<1>1. CASE InotifyNext
  <2>1. ASSUME NEW i \in DOMAIN dirs, NEW n \in Filenames, make_dir(i, n) PROVE AgreeInv'
    BY <2>1, MakeAgrees
  <2>2. ASSUME NEW i \in DOMAIN dirs, remove_dir(i) PROVE AgreeInv'
    BY <2>2, RemoveAgrees
  <2>3. ASSUME NEW i \in DOMAIN dirs, NEW p \in DOMAIN dirs, NEW n \in Filenames, move_dir(i, p, n) PROVE AgreeInv'
    BY <2>3, MoveAgrees
  <2>4. ASSUME NEW i \in DOMAIN dirs, NEW n \in Filenames, write_file(i, n) PROVE AgreeInv'
    BY <2>4, WriteAgrees
  <2>5. CASE platform_start_watching
    BY <2>5, StartAgrees
  <2>6. CASE add_watches_recursive
    BY <2>6, WalkAgrees
  <2>7. CASE platform_stop_watching
    BY <2>7, StopAgrees
  <2>8. CASE platform_poll_changes
    BY <2>8, PruneAgrees, HandleAgrees DEF platform_poll_changes
  <2> QED
    BY <1>1, <2>1, <2>2, <2>3, <2>4, <2>5, <2>6, <2>7, <2>8 DEF InotifyNext
<1>2. CASE UNCHANGED inotify_vars
  <2>1. UNCHANGED <<fs, mark, watches, queue, walk, started, is_active, report>>
    BY <1>2 DEF inotify_vars, fs
  <2>2. TreeOK' /\ MarksOK' /\ TableOK' /\ ListedOK' /\ QueueOK'
    BY <2>1, UntouchedAgrees DEF AgreeInv
  <2>3. WalkOK' /\ StateOK'
    BY <2>1 DEF AgreeInv, WalkOK, StateOK, fs
  <2> QED
    BY <2>2, <2>3 DEF AgreeInv
<1> QED
  BY <1>1, <1>2

(* The settings of a watcher do not change.                                *)
LEMMA SettingStays == [InotifyNext]_inotify_vars => UNCHANGED setting
  BY DEF InotifyNext, inotify_vars, fs, make_dir, remove_dir, move_dir, write_file, platform_start_watching,
         add_watches_recursive, platform_stop_watching, platform_poll_changes, PruneIgnored, ReportChange

(* ReportInvAlways: unless directories of a tree that is watched as a      *)
(* whole are renamed, kernel, table, events and tree agree on the path     *)
(* that a descriptor stands for (file_watcher_linux.c:66-107, 284-346).    *)
THEOREM ReportInvAlways == InotifySpec => []ReportInv
<1>1. InotifyInit => ReportInv
  BY InotifyInitAgrees DEF ReportInv
<1>2. ReportInv /\ [InotifyNext]_inotify_vars => ReportInv'
  BY InotifyStepAgrees, SettingStays DEF ReportInv, MovesAreSeen
<1> QED
  BY <1>1, <1>2, PTL DEF InotifySpec

-----------------------------------------------------------------------------
(* The tree waits for the watcher.                                         *)

LEMMA CoveredAbove ==
  ASSUME NEW p \in TreePaths, NEW q \in TreePaths, IsPrefix(p, q), Covered(q)
  PROVE  Covered(p)
<1>1. Len(p) \in Nat /\ Len(p) >= 1 /\ Len(q) \in Nat /\ Len(p) =< Len(q) /\ \A k \in 1..Len(p) : p[k] = q[k]
  BY PathIs, PrefixMeans
<1>2. p[1] = q[1]
  BY <1>1
<1>3. IsPrefix(Root, p)
  BY <1>2, BelowRoot DEF Covered
<1>4. ToSet(p) \subseteq ToSet(q)
  <2>1. DOMAIN p = 1..Len(p) /\ DOMAIN q = 1..Len(q)
    BY PathIs, LenProperties
  <2> QED
    BY <1>1, <2>1 DEF ToSet
<1> QED
  BY <1>3, <1>4 DEF Covered

(* The tree changes only when everything is handled.                       *)
LEMMA ChangesWait ==
  ASSUME TreeWaits, CoverOK, MayChange
  PROVE  /\ queue = << >> /\ walk = << >>
         /\ Covers => \A i \in DOMAIN dirs : Covered(dirs[i]) => i \in DOMAIN mark
<1>1. queue = << >> /\ walk = << >>
  BY DEF TreeWaits, MayChange, Settled
<1>2. 1..Len(queue) = {} /\ 1..Len(walk) = {}
  BY <1>1
<1> QED
  BY <1>1, <1>2 DEF CoverOK, IsAnnounced, IsToVisit

LEMMA CoversStays == ASSUME UNCHANGED own, UNCHANGED setting PROVE Covers' = Covers
  BY DEF own, Covers

LEMMA NothingBefore == ASSUME NEW s \in Seq(TreeEvents) PROVE << >> \o s = s
  BY ConcatEmptySeq

(* Events that announce no directory.                                      *)
LEMMA SilentOne ==
  ASSUME NEW s, NEW e, s = << >> \/ s = <<e>>, ~Extends(e)
  PROVE  Silent(s)
<1>1. CASE s = << >>
  BY <1>1 DEF Silent
<1>2. CASE s = <<e>>
  <2>1. Len(s) = 1 /\ s[1] = e /\ \A m \in 1..1 : m = 1
    BY <1>2
  <2> QED
    BY <2>1 DEF Silent
<1> QED
  BY <1>1, <1>2

LEMMA NoticeIsSilent ==
  ASSUME NEW i, NEW kind, NEW name, NEW isDir, ~isDir \/ kind \notin {"create", "to"}
  PROVE  Silent(Notice(i, kind, name, isDir))
<1> DEFINE e == [wd |-> mark[i], kind |-> kind, name |-> name, dir |-> isDir, at |-> dirs[i]]
<1>1. Notice(i, kind, name, isDir) \in {<< >>, <<e>>}
  BY DEF Notice
<1>2. e.dir = isDir /\ e.kind = kind
  OBVIOUS
<1>3. ~Extends(e)
  BY <1>2 DEF Extends
<1> HIDE DEF e
<1> QED
  BY <1>1, <1>3, SilentOne

LEMMA IgnoredIsSilent == ASSUME NEW i PROVE Silent(Ignored(i))
<1> DEFINE e == [wd |-> mark[i], kind |-> "ignored", name |-> "", dir |-> FALSE, at |-> dirs[i]]
<1>1. Ignored(i) \in {<< >>, <<e>>}
  BY DEF Ignored
<1>2. ~Extends(e)
  BY DEF Extends
<1> HIDE DEF e
<1> QED
  BY <1>1, <1>2, SilentOne

LEMMA SilentTwo ==
  ASSUME NEW s \in Seq(TreeEvents), NEW t \in Seq(TreeEvents), Silent(s), Silent(t)
  PROVE  Silent(s \o t)
<1>1. Len(s) \in Nat /\ Len(t) \in Nat /\ Len(s \o t) = Len(s) + Len(t)
  BY ConcatProperties
<1> SUFFICES ASSUME NEW m \in 1..(Len(s) + Len(t)) PROVE ~Extends((s \o t)[m])
  BY <1>1 DEF Silent
<1>2. CASE m \in 1..Len(s)
  BY <1>2, ConcatProperties DEF Silent
<1>3. CASE m \notin 1..Len(s)
  <2>1. (s \o t)[m] = t[m - Len(s)] /\ m - Len(s) \in 1..Len(t)
    BY <1>1, <1>3, ConcatProperties
  <2> QED
    BY <2>1 DEF Silent
<1> QED
  BY <1>2, <1>3

LEMMA WriteCovers ==
  ASSUME AgreeInv, NewsOK, CoverOK, NEW i \in DOMAIN dirs, NEW name \in Filenames, write_file(i, name)
  PROVE  NewsOK' /\ CoverOK'
<1> DEFINE s == Notice(i, "modify", name, FALSE)
<1>1. UNCHANGED <<setting, dirs, inodes, mark, own>> /\ queue' = queue \o s
  BY DEF write_file
<1>2. s \in Seq(TreeEvents) /\ queue \in Seq(TreeEvents)
  BY NoticeTells DEF AgreeInv, QueueOK, TellTruth, PathNames
<1>3. \A m \in 1..Len(s) : ~Extends(s[m])
  BY NoticeIsSilent DEF Silent
<1> HIDE DEF s
<1>4. /\ Len(queue) \in Nat /\ \A m \in 1..Len(queue) : m \in 1..Len(queue') /\ queue'[m] = queue[m]
      /\ \A m \in 1..Len(queue') : m \in 1..Len(queue) \/ ~Extends(queue'[m])
  <2>1. Len(queue) \in Nat /\ Len(s) \in Nat /\ Len(queue \o s) = Len(queue) + Len(s)
    BY <1>2, ConcatProperties
  <2>2. \A m \in 1..Len(queue) : (queue \o s)[m] = queue[m]
    BY <1>2, ConcatProperties
  <2>3. ASSUME NEW m \in 1..Len(queue \o s), m \notin 1..Len(queue) PROVE ~Extends((queue \o s)[m])
    <3>1. m - Len(queue) \in 1..Len(s) /\ m > Len(queue)
      BY <2>1, <2>3
    <3>2. (queue \o s)[m] = s[m - Len(queue)]
      BY <1>2, <2>1, <2>3, <3>1, ConcatProperties
    <3> QED
      BY <1>3, <3>1, <3>2
  <2>4. \A m \in 1..Len(queue) : m \in 1..(Len(queue) + Len(s))
    BY <2>1
  <2> QED
    BY <1>1, <2>1, <2>2, <2>3, <2>4
<1>5. NewsOK'
  BY <1>1, <1>4 DEF NewsOK, Extends, Announces
<1>6. CoverOK'
  <2> SUFFICES ASSUME Covers', NEW j \in DOMAIN dirs, Covered(dirs[j]), j \notin DOMAIN mark
               PROVE  IsAnnounced(dirs[j])' \/ IsToVisit(dirs[j])'
    BY <1>1 DEF CoverOK, Covered
  <2>1. IsAnnounced(dirs[j]) \/ IsToVisit(dirs[j])
    BY <1>1, CoversStays DEF CoverOK
  <2> QED
    BY <1>1, <1>4, <2>1 DEF IsAnnounced, IsToVisit, own, Announces, Extends
<1> QED
  BY <1>5, <1>6

LEMMA TreeIsNoticed ==
  ASSUME AgreeInv, TreeWaits, NEW i
  PROVE  {"create", "to"} \subseteq notify_mask /\ (i \in DOMAIN mark => mark[i] = i)
  BY DEF AgreeInv, MarksOK, TreeWaits, notify_mask

LEMMA MakeCovers ==
  ASSUME AgreeInv, TreeWaits, NewsOK, CoverOK,
         NEW i \in DOMAIN dirs, NEW name \in Filenames, make_dir(i, name)
  PROVE  NewsOK' /\ CoverOK'
<1> DEFINE s == Notice(i, "create", name, TRUE)
           new == Append(dirs[i], name)
<1>1. UNCHANGED <<setting, mark, own>> /\ MayChange /\ queue' = queue \o s /\ \A j \in DOMAIN dirs : dirs[j] # new
  BY DEF make_dir, InodeAt
<1>2. /\ DOMAIN dirs' = DOMAIN dirs \cup {inodes + 1} /\ dirs'[inodes + 1] = new
      /\ \A j \in DOMAIN dirs : dirs'[j] = dirs[j] /\ j # inodes + 1
  BY MakeAgrees
<1>3. queue = << >> /\ walk = << >> /\ (Covers => \A j \in DOMAIN dirs : Covered(dirs[j]) => j \in DOMAIN mark)
  BY <1>1, ChangesWait
<1>4. s \in Seq(TreeEvents)
  BY NoticeTells DEF AgreeInv, TellTruth, PathNames
<1>5. queue' = s
  <2> HIDE DEF s
  <2> QED
    BY <1>1, <1>3, <1>4, NothingBefore
<1>6. dirs[i] \in TreePaths /\ new \in TreePaths /\ IsPrefix(dirs[i], new) /\ IsPrefix(new, new)
  BY DirIs, NameBelow, PrefixOfSelf DEF AgreeInv
<1>7. /\ i \in DOMAIN mark => /\ Len(s) = 1 /\ Extends(s[1]) /\ s[1].wd = i /\ s[1].kind = "create"
                              /\ s[1].name = name /\ s[1].at = dirs[i]
      /\ i \notin DOMAIN mark => s = << >>
  BY TreeIsNoticed DEF Notice, Extends
<1> HIDE DEF s
<1>8. \A j \in DOMAIN dirs : ~IsPrefix(new, dirs[j])
  BY <1>1, <1>6, PrefixIsThere DEF AgreeInv
<1>9. ASSUME NEW m \in 1..Len(s) PROVE m = 1 /\ i \in DOMAIN mark
  <2>1. CASE i \in DOMAIN mark
    <3>1. Len(s) = 1
      BY <2>1, <1>7
    <3> QED
      BY <2>1, <3>1
  <2>2. CASE i \notin DOMAIN mark
    <3>1. Len(s) = 0
      BY <2>2, <1>7
    <3> QED
      BY <3>1
  <2> QED
    BY <2>1, <2>2
<1>10. NewsOK'
  BY <1>1, <1>2, <1>5, <1>7, <1>8, <1>9 DEF NewsOK, Announces, Extends
<1>11. CoverOK'
  <2> SUFFICES ASSUME Covers, NEW j \in DOMAIN dirs', Covered(dirs'[j])
               PROVE  j \in DOMAIN mark \/ IsAnnounced(dirs[j])'
    BY <1>1, CoversStays DEF CoverOK, Covered
  <2>1. CASE j \in DOMAIN dirs
    BY <2>1, <1>2, <1>3
  <2>2. CASE j = inodes + 1
    <3>1. Covered(dirs[i])
      BY <2>2, <1>2, <1>6, CoveredAbove
    <3>2. i \in DOMAIN mark
      BY <3>1, <1>3
    <3>3. Len(s) = 1 /\ Extends(s[1]) /\ Append(s[1].at, s[1].name) = new
      BY <3>2, <1>7
    <3>4. 1 \in 1..Len(s) /\ Announces(s[1], new)
      BY <3>3, <1>6 DEF Announces
    <3> QED
      BY <3>4, <2>2, <1>2, <1>5 DEF IsAnnounced, Announces, Extends
  <2> QED
    BY <2>1, <2>2, <1>2
<1> QED
  BY <1>10, <1>11

LEMMA RemoveCovers ==
  ASSUME AgreeInv, TreeWaits, CoverOK, NEW i \in DOMAIN dirs, remove_dir(i)
  PROVE  NewsOK' /\ CoverOK'
<1> DEFINE parent == CHOOSE p \in Parent(i) : TRUE
           told == IF Parent(i) = {} THEN << >> ELSE Notice(parent, "delete", Last(dirs[i]), TRUE)
<1>1. UNCHANGED <<setting, own>> /\ MayChange /\ queue' = (queue \o told) \o Ignored(i)
  BY DEF remove_dir
<1>2. DOMAIN dirs' = DOMAIN dirs \ {i} /\ \A j \in DOMAIN dirs' : dirs'[j] = dirs[j]
  BY RemoveAgrees
<1>3. DOMAIN mark' = DOMAIN mark \ {i}
  BY DEF remove_dir, Without
<1>4. queue = << >> /\ walk = << >> /\ (Covers => \A j \in DOMAIN dirs : Covered(dirs[j]) => j \in DOMAIN mark)
  BY <1>1, ChangesWait
<1>5. told \in Seq(TreeEvents) /\ Silent(told)
  <2>1. dirs[i] \in TreePaths
    BY DirIs DEF AgreeInv
  <2>2. Last(dirs[i]) \in PathNames
    BY <2>1, PathIs DEF Last
  <2>3. << >> \in Seq(TreeEvents) /\ Silent(<< >>)
    BY DEF Silent
  <2> HIDE DEF parent
  <2>4. Silent(Notice(parent, "delete", Last(dirs[i]), TRUE))
    BY NoticeIsSilent
  <2>5. Notice(parent, "delete", Last(dirs[i]), TRUE) \in Seq(TreeEvents)
    BY <2>2, NoticeTells DEF AgreeInv, TellTruth
  <2> QED
    BY <2>3, <2>4, <2>5
<1>6. Ignored(i) \in Seq(TreeEvents) /\ Silent(Ignored(i))
  BY <1>2, IgnoredTells, IgnoredIsSilent DEF AgreeInv, TellTruth
<1> HIDE DEF told
<1>7. Silent(queue')
  <2>1. queue' = told \o Ignored(i)
    BY <1>1, <1>4, <1>5, NothingBefore
  <2> QED
    BY <2>1, <1>5, <1>6, SilentTwo
<1>8. NewsOK'
  BY <1>7 DEF NewsOK, Silent, Extends
<1>9. CoverOK'
  BY <1>1, <1>2, <1>3, <1>4, CoversStays DEF CoverOK, Covered
<1> QED
  BY <1>8, <1>9

(* A directory that is moved into the tree is announced.                   *)
LEMMA MoveCovers ==
  ASSUME AgreeInv, TreeWaits, CoverOK, NEW i \in DOMAIN dirs, NEW p \in DOMAIN dirs, NEW name \in Filenames,
         move_dir(i, p, name)
  PROVE  NewsOK' /\ CoverOK'
<1> DEFINE old == dirs[i]
           new == Append(dirs[p], name)
           from == CHOOSE q \in Parent(i) : TRUE
           s == Notice(from, "from", Last(old), TRUE)
           t == Notice(p, "to", name, TRUE)
<1>1. UNCHANGED <<setting, mark, own>> /\ MayChange /\ queue' = (queue \o s) \o t
  BY DEF move_dir
<1>2. /\ DOMAIN dirs' = DOMAIN dirs
      /\ \A j \in DOMAIN dirs : dirs'[j] = dirs[j] \/ (IsPrefix(new, dirs'[j]) /\ dirs'[j] \in TreePaths)
  BY MoveAgrees DEF TreeWaits, MovesAreSeen
<1>3. queue = << >> /\ walk = << >> /\ (Covers => \A j \in DOMAIN dirs : Covered(dirs[j]) => j \in DOMAIN mark)
  BY <1>1, ChangesWait
<1>4. old \in TreePaths /\ dirs[p] \in TreePaths /\ new \in TreePaths /\ IsPrefix(dirs[p], new)
  BY DirIs, NameBelow DEF AgreeInv
<1>5. s \in Seq(TreeEvents) /\ t \in Seq(TreeEvents) /\ Silent(s)
  <2> HIDE DEF old, from
  <2>1. Last(old) \in PathNames /\ name \in PathNames
    BY <1>4, PathIs DEF Last, PathNames
  <2>2. TellTruth(s) /\ TellTruth(t)
    BY <2>1, NoticeTells DEF AgreeInv
  <2> QED
    BY <2>2, NoticeIsSilent DEF TellTruth
<1>6. /\ p \in DOMAIN mark => /\ Len(t) = 1 /\ Extends(t[1]) /\ t[1].wd = p /\ t[1].kind = "to"
                              /\ t[1].name = name /\ t[1].at = dirs[p]
      /\ p \notin DOMAIN mark => t = << >>
  BY TreeIsNoticed DEF Notice, Extends
<1> HIDE DEF s, t
<1>7. queue' = s \o t
  BY <1>1, <1>3, <1>5, NothingBefore
<1>8. /\ Len(s) \in Nat /\ Len(t) \in Nat /\ Len(queue') = Len(s) + Len(t)
      /\ \A m \in 1..Len(s) : queue'[m] = s[m]
      /\ \A m \in (Len(s) + 1)..(Len(s) + Len(t)) : queue'[m] = t[m - Len(s)]
  BY <1>5, <1>7, ConcatProperties
<1>9. ASSUME NEW m \in 1..Len(queue'), Extends(queue'[m])
      PROVE  p \in DOMAIN mark /\ queue'[m] = t[1]
  <2>1. m \notin 1..Len(s)
    BY <1>5, <1>8, <1>9 DEF Silent
  <2>2. m - Len(s) \in 1..Len(t) /\ m \in (Len(s) + 1)..(Len(s) + Len(t))
    BY <1>8, <2>1
  <2>3. p \in DOMAIN mark
    <3>1. t # << >>
      <4>1. t = << >> => Len(t) = 0
        OBVIOUS
      <4> QED
        BY <2>2, <4>1
    <3> QED
      BY <3>1, <1>6
  <2>4. m - Len(s) = 1
    <3>1. Len(t) = 1
      BY <2>3, <1>6
    <3> QED
      BY <2>2, <3>1
  <2> QED
    BY <2>2, <2>3, <2>4, <1>8
<1>10. NewsOK'
  <2> SUFFICES ASSUME NEW m \in 1..Len(queue'), Extends(queue'[m])
               PROVE  queue'[m].wd \in DOMAIN mark /\ queue'[m].name \in Filenames /\ queue'[m].kind # "create"
    BY <1>1 DEF NewsOK, Extends
  <2> QED
    BY <1>6, <1>9
<1>11. CoverOK'
  <2> SUFFICES ASSUME Covers, NEW j \in DOMAIN dirs, Covered(dirs'[j])
               PROVE  j \in DOMAIN mark \/ IsAnnounced(dirs[j])'
    BY <1>1, <1>2, CoversStays DEF CoverOK, Covered
  <2>1. CASE dirs'[j] = dirs[j]
    BY <2>1, <1>3
  <2>2. CASE IsPrefix(new, dirs'[j]) /\ dirs'[j] \in TreePaths
    <3>1. Covered(new)
      BY <2>2, <1>4, CoveredAbove
    <3>2. Covered(dirs[p])
      BY <3>1, <1>4, CoveredAbove
    <3>3. Len(t) = 1 /\ Extends(t[1]) /\ Append(t[1].at, t[1].name) = new
      BY <3>2, <1>3, <1>6
    <3>4. Len(s) + 1 \in 1..Len(queue') /\ queue'[Len(s) + 1] = t[1]
      BY <3>3, <1>8
    <3>5. Announces(t[1], dirs'[j])
      BY <3>3, <2>2 DEF Announces
    <3> QED
      BY <3>4, <3>5 DEF IsAnnounced, Announces, Extends
  <2> QED
    BY <2>1, <2>2, <1>2
<1> QED
  BY <1>10, <1>11

(* What a watch that is added marks.                                       *)
MarkAdded(i, path) ==
  /\ i \in DOMAIN dirs /\ dirs[i] = path /\ DOMAIN mark' = DOMAIN mark \cup {i}
  /\ \A j \in DOMAIN dirs : dirs[j] = path => j = i

LEMMA AddMarks ==
  ASSUME TreeOK, NEW path, CanAdd(path), add_watch_for_directory(path)
  PROVE  \E i : MarkAdded(i, path)
<1> DEFINE i == CHOOSE x \in InodeAt(path) : TRUE
<1>1. i \in DOMAIN dirs /\ dirs[i] = path /\ \A j \in DOMAIN dirs : dirs[j] = path => j = i
  BY TheInode DEF CanAdd
<1>2. mark' = With(mark, i, Wd(i))
  BY DEF add_watch_for_directory
<1> HIDE DEF i
<1>3. DOMAIN mark' = DOMAIN mark \cup {i}
  BY <1>2 DEF With
<1> QED
  BY <1>1, <1>3 DEF MarkAdded

(* A watcher that starts has its root to list.                             *)
LEMMA StartCovers ==
  ASSUME AgreeInv, TreeWaits, NewsOK, platform_start_watching
  PROVE  NewsOK' /\ CoverOK'
<1>1. /\ CanAdd(Root) /\ add_watch_for_directory(Root) /\ walk' = Visit(Root, Nothing)
      /\ UNCHANGED <<fs, queue, started, is_active>>
  BY DEF platform_start_watching, TreeWaits
<1>2. Steady(Root) /\ Root \in TreePaths /\ IsPrefix(Root, Root)
  BY RootIsPath, PrefixOfSelf DEF Steady
<1>3. PICK i \in DOMAIN dirs : /\ dirs[i] = Root /\ DOMAIN mark' = DOMAIN mark \cup {i}
                               /\ \A j \in DOMAIN dirs : dirs[j] = Root => j = i
  <2>1. \E i : MarkAdded(i, Root)
    BY <1>1, AddMarks DEF AgreeInv
  <2> QED
    BY <2>1 DEF MarkAdded
<1>4. Len(walk') = 1 /\ walk'[1].path = Root /\ walk'[1].todo = Listing(Root)
  <2>1. Nothing \in TrueChanges
    BY DEF TrueChanges
  <2>2. /\ Len(Visit(Root, Nothing)) = 1
        /\ Visit(Root, Nothing)[1] = [path |-> Root, todo |-> Listing(Root), then |-> Nothing]
    BY <2>1, <1>2, VisitIs
  <2> QED
    BY <2>2, <1>1
<1>5. NewsOK'
  BY <1>1, <1>3 DEF NewsOK, fs, Extends, Announces
<1>6. CoverOK'
  <2> SUFFICES ASSUME NEW j \in DOMAIN dirs, Covered(dirs[j]) PROVE j \in DOMAIN mark' \/ IsToVisit(dirs[j])'
    BY <1>1 DEF CoverOK, fs, Covered
  <2>1. CASE dirs[j] = Root
    BY <2>1, <1>3
  <2>2. CASE dirs[j] # Root
    <3>1. \E n \in Listing(Root) : IsPrefix(Append(Root, n), dirs[j])
      BY <2>2, <1>2, ListingLeads DEF AgreeInv, Covered
    <3>2. 1 \in 1..Len(walk')
      BY <1>4
    <3> QED
      BY <3>1, <3>2, <1>1, <1>4 DEF IsToVisit, fs
  <2> QED
    BY <2>1, <2>2
<1> QED
  BY <1>5, <1>6

LEMMA NewsGone == ASSUME queue' = << >> PROVE NewsOK'
<1>1. 1..Len(queue') = {}
  BY DEF TreeWaits
<1> QED
  BY <1>1 DEF NewsOK

LEMMA StopCovers ==
  ASSUME AgreeInv, platform_stop_watching
  PROVE  NewsOK' /\ CoverOK'
<1>1. queue' = << >> /\ started' = FALSE /\ walk' = << >>
  BY DEF platform_stop_watching, Close
<1> QED
  BY <1>1, NewsGone DEF CoverOK, Covers

LEMMA FailCovers ==
  ASSUME AgreeInv, NewsOK, WalkFails, UNCHANGED <<fs, started, report>>
  PROVE  NewsOK' /\ CoverOK'
<1>1. walk' = << >> /\ (started => is_active' = FALSE /\ UNCHANGED <<mark, queue>>) /\ (~started => queue' = << >>)
  BY DEF WalkFails, Close
<1>2. CoverOK'
  BY <1>1 DEF CoverOK, Covers
<1>3. NewsOK'
  <2>1. CASE started
    BY <2>1, <1>1 DEF NewsOK, fs, Extends, Announces
  <2> QED
    BY <2>1, <1>1, NewsGone
<1> QED
  BY <1>2, <1>3

(* A directory whose names are all visited leads nowhere any more.         *)
LEMMA DoneCovers ==
  ASSUME AgreeInv, NewsOK, CoverOK, walk # << >>, Last(walk).todo = {}, walk' = Front(walk),
         IF Len(walk) = 1 /\ ~started THEN started' = TRUE /\ is_active' = TRUE ELSE UNCHANGED <<started, is_active>>,
         UNCHANGED <<fs, mark, queue>>
  PROVE  NewsOK' /\ CoverOK'
<1>1. /\ Len(walk) \in Nat /\ Len(walk) >= 1 /\ Last(walk) = walk[Len(walk)] /\ Len(walk') = Len(walk) - 1
      /\ \A k \in 1..(Len(walk) - 1) : walk'[k] = walk[k]
  BY WalkEnds DEF AgreeInv
<1>2. NewsOK'
  BY DEF NewsOK, fs, Extends, Announces
<1>3. Covers' => Covers
  <2>1. CASE started
    BY <2>1 DEF Covers
  <2>2. CASE ~started
    BY <2>2 DEF Covers
  <2> QED
    BY <2>1, <2>2
<1>4. ASSUME NEW p, IsToVisit(p) PROVE IsToVisit(p)'
  <2>1. PICK k \in 1..Len(walk) : \E n \in walk[k].todo : IsPrefix(Append(walk[k].path, n), p)
    BY <1>4 DEF IsToVisit
  <2>2. k # Len(walk)
    BY <2>1, <1>1
  <2>3. k \in 1..Len(walk') /\ walk'[k] = walk[k]
    BY <2>2, <1>1
  <2> QED
    BY <2>1, <2>3 DEF IsToVisit
<1>5. CoverOK'
  <2> SUFFICES ASSUME Covers, NEW j \in DOMAIN dirs, Covered(dirs[j])
               PROVE  j \in DOMAIN mark \/ IsAnnounced(dirs[j])' \/ IsToVisit(dirs[j])'
    BY <1>3 DEF CoverOK, fs, Covered
  <2>1. j \in DOMAIN mark \/ IsAnnounced(dirs[j]) \/ IsToVisit(dirs[j])
    BY DEF CoverOK
  <2>2. IsAnnounced(dirs[j]) => IsAnnounced(dirs[j])'
    BY DEF IsAnnounced, Announces, Extends, fs
  <2>3. IsToVisit(dirs[j]) => \E p : p = dirs[j] /\ IsToVisit(p)'
    BY <1>4
  <2> QED
    BY <2>1, <2>2, <2>3 DEF fs, IsToVisit
<1> QED
  BY <1>2, <1>5

(* The next name: it is marked, and its own names are to visit.            *)
LEMMA VisitCovers ==
  ASSUME AgreeInv, TreeWaits, NewsOK, CoverOK, walk # << >>, NEW name \in Last(walk).todo,
         CanAdd(Append(Last(walk).path, name)), add_watch_for_directory(Append(Last(walk).path, name)),
         walk' = Append(Front(walk), [Last(walk) EXCEPT !.todo = @ \ {name}])
                 \o Visit(Append(Last(walk).path, name), Nothing),
         UNCHANGED <<fs, is_active, queue, started>>
  PROVE  NewsOK' /\ CoverOK'
<1> DEFINE n == Len(walk)
           sub == Append(Last(walk).path, name)
<1>1. /\ n \in Nat /\ n >= 1 /\ Last(walk) = walk[n] /\ Last(walk).path \in TreePaths /\ IsPrefix(Root, Last(walk).path)
      /\ name \in Filenames /\ Last(walk) \in Visits
  BY WalkEnds DEF AgreeInv
<1>2. sub \in TreePaths /\ IsPrefix(Root, sub)
  BY <1>1, NameBelow
<1>3. TreeOK
  BY DEF AgreeInv
<1>4. PICK i \in DOMAIN dirs : /\ dirs[i] = sub /\ DOMAIN mark' = DOMAIN mark \cup {i}
                               /\ \A j \in DOMAIN dirs : dirs[j] = sub => j = i
  <2>1. \E i : MarkAdded(i, sub)
    BY <1>3, AddMarks, Zenon
  <2> QED
    BY <2>1 DEF MarkAdded
<1>5. /\ Len(walk') = n + 1 /\ \A k \in 1..(n - 1) : walk'[k] = walk[k]
      /\ walk'[n] = [Last(walk) EXCEPT !.todo = @ \ {name}]
      /\ walk'[n + 1].path = sub /\ walk'[n + 1].todo = Listing(sub)
  <2>1. WalkOK
    BY DEF AgreeInv
  <2>2. /\ Len(walk') = n + 1 /\ \A k \in 1..(n - 1) : walk'[k] = walk[k]
        /\ walk'[n] = [Last(walk) EXCEPT !.todo = @ \ {name}]
        /\ walk'[n + 1] = [path |-> sub, todo |-> Listing(sub), then |-> Nothing]
    BY <2>1, VisitedIs, Zenon
  <2> DEFINE visit == [path |-> sub, todo |-> Listing(sub), then |-> Nothing]
  <2>3. visit.path = sub /\ visit.todo = Listing(sub)
    OBVIOUS
  <2> HIDE DEF visit
  <2> QED
    BY <2>2, <2>3, Zenon DEF visit
<1>6. walk'[n].path = Last(walk).path /\ walk'[n].todo = Last(walk).todo \ {name}
  BY <1>1, <1>5 DEF Visits
<1> HIDE DEF n
<1>7. NewsOK'
  BY <1>4 DEF NewsOK, fs, Extends, Announces
<1>8. CoverOK'
  <2> SUFFICES ASSUME Covers, NEW j \in DOMAIN dirs, Covered(dirs[j])
               PROVE  j \in DOMAIN mark' \/ IsAnnounced(dirs[j])' \/ IsToVisit(dirs[j])'
    <3>1. Covers' => Covers
      BY DEF Covers
    <3> QED
      BY <3>1 DEF CoverOK, fs, Covered
  <2>1. CASE j \in DOMAIN mark
    BY <2>1, <1>4
  <2>2. CASE IsAnnounced(dirs[j])
    BY <2>2 DEF IsAnnounced, Announces, Extends, fs
  <2>3. CASE IsToVisit(dirs[j])
    <3>0. PICK k \in 1..n : \E x \in walk[k].todo : IsPrefix(Append(walk[k].path, x), dirs[j])
      BY <2>3 DEF IsToVisit, n
    <3>1. PICK x \in walk[k].todo : IsPrefix(Append(walk[k].path, x), dirs[j])
      BY <3>0
    <3>2. CASE k = n /\ x = name
      <4>1. IsPrefix(sub, dirs[j])
        BY <3>1, <3>2, <1>1
      <4>2. CASE dirs[j] = sub
        BY <4>2, <1>4
      <4>3. CASE dirs[j] # sub
        <5>1. \E y \in Listing(sub) : IsPrefix(Append(sub, y), dirs[j])
          BY <4>1, <4>3, <1>2, ListingLeads DEF AgreeInv
        <5>2. n + 1 \in 1..Len(walk')
          BY <1>1, <1>5
        <5> QED
          BY <5>1, <5>2, <1>5 DEF IsToVisit, fs
      <4> QED
        BY <4>2, <4>3
    <3>3. CASE k = n /\ x # name
      <4>1. n \in 1..Len(walk') /\ x \in walk'[n].todo /\ IsPrefix(Append(walk'[n].path, x), dirs[j])
        BY <3>1, <3>3, <1>1, <1>5, <1>6
      <4> QED
        BY <4>1 DEF IsToVisit, fs
    <3>4. CASE k # n
      <4>1. k \in 1..(n - 1) /\ k \in 1..(n + 1)
        BY <3>4, <1>1
      <4>2. k \in 1..Len(walk') /\ walk'[k] = walk[k]
        BY <4>1, <1>5
      <4> QED
        BY <3>1, <4>2 DEF IsToVisit, fs
    <3> QED
      BY <3>2, <3>3, <3>4
  <2> QED
    BY <2>1, <2>2, <2>3 DEF CoverOK
<1> QED
  BY <1>7, <1>8

LEMMA WalkCovers ==
  ASSUME AgreeInv, TreeWaits, NewsOK, CoverOK, add_watches_recursive
  PROVE  NewsOK' /\ CoverOK'
<1>1. UNCHANGED fs /\ walk # << >>
  BY DEF add_watches_recursive
<1>2. CASE /\ Last(walk).todo = {} /\ walk' = Front(walk)
           /\ IF Len(walk) = 1 /\ ~started THEN started' = TRUE /\ is_active' = TRUE ELSE UNCHANGED <<started, is_active>>
           /\ UNCHANGED <<mark, queue, watches>>
  BY <1>1, <1>2, DoneCovers
<1>3. ASSUME NEW name \in Last(walk).todo, UNCHANGED <<started, report>>,
             CanAdd(Append(Last(walk).path, name)),
             add_watch_for_directory(Append(Last(walk).path, name)),
             walk' = Append(Front(walk), [Last(walk) EXCEPT !.todo = @ \ {name}])
                     \o Visit(Append(Last(walk).path, name), Nothing),
             UNCHANGED <<is_active, queue>>
      PROVE  NewsOK' /\ CoverOK'
  BY <1>1, <1>3, VisitCovers
<1>4. ASSUME WalkFails, UNCHANGED <<started, report>> PROVE NewsOK' /\ CoverOK'
  BY <1>1, <1>4, FailCovers
<1> QED
  BY <1>2, <1>3, <1>4 DEF add_watches_recursive

-----------------------------------------------------------------------------
(* Events.                                                                 *)

(* An event that announces nothing is handled without loss.                *)
LEMMA TailCovers ==
  ASSUME QueueOK, NewsOK, CoverOK, queue # << >>, ~Extends(Head(queue)) \/ ~Covers',
         Covers' => Covers, queue' = Tail(queue), UNCHANGED <<fs, mark, walk>>
  PROVE  NewsOK' /\ CoverOK'
<1>1. /\ Head(queue) = queue[1] /\ Len(queue) \in Nat /\ Len(queue) >= 1 /\ Len(queue') = Len(queue) - 1
      /\ \A m \in 1..(Len(queue) - 1) : queue'[m] = queue[m + 1]
  BY NextEvent
<1>2. ASSUME NEW m \in 1..Len(queue') PROVE m + 1 \in 1..Len(queue) /\ queue'[m] = queue[m + 1]
  BY <1>1
<1>3. NewsOK'
  <2> SUFFICES ASSUME NEW m \in 1..Len(queue'), Extends(queue'[m])
               PROVE  /\ queue'[m].wd \in DOMAIN mark /\ queue'[m].name \in Filenames
                      /\ queue'[m].kind = "create" =>
                           \A j \in DOMAIN dirs : Announces(queue'[m], dirs[j]) => dirs[j] = Append(queue'[m].at, queue'[m].name)
    BY DEF NewsOK, Extends, Announces, fs
  <2> QED
    BY <1>2 DEF NewsOK
<1>4. CoverOK'
  <2> SUFFICES ASSUME Covers, ~Extends(Head(queue)), NEW j \in DOMAIN dirs, Covered(dirs[j]),
                      j \notin DOMAIN mark, ~IsToVisit(dirs[j])
               PROVE  IsAnnounced(dirs[j])'
    BY DEF CoverOK, Covered, IsToVisit, fs
  <2>1. PICK m \in 1..Len(queue) : Announces(queue[m], dirs[j])
    BY DEF CoverOK, IsAnnounced
  <2>2. m # 1
    BY <2>1, <1>1 DEF Announces
  <2>3. m - 1 \in 1..Len(queue') /\ queue'[m - 1] = queue[m]
    BY <2>2, <1>1
  <2> QED
    BY <2>1, <2>3 DEF IsAnnounced, Announces, Extends, fs
<1> QED
  BY <1>3, <1>4

LEMMA PruneCovers ==
  ASSUME AgreeInv, NewsOK, CoverOK, PruneIgnored
  PROVE  NewsOK' /\ CoverOK'
<1>1. queue # << >> /\ Head(queue).kind = "ignored" /\ queue' = Tail(queue) /\ UNCHANGED <<fs, mark, started, is_active, walk>>
  BY DEF PruneIgnored, Reading
<1>2. ~Extends(Head(queue)) /\ Covers' = Covers
  BY <1>1 DEF Extends, Covers
<1> QED
  BY <1>1, <1>2, TailCovers DEF AgreeInv

(* A directory that is announced is watched, and its names are to visit.   *)
LEMMA ExtendCovers ==
  ASSUME AgreeInv, TreeWaits, NewsOK, CoverOK, queue # << >>, Extends(Head(queue)), walk = << >>,
         NEW full, full = Append(Head(queue).at, Head(queue).name),
         full \in TreePaths, IsPrefix(Root, full), CanAdd(full), add_watch_for_directory(full),
         NEW change \in TrueChanges,
         walk' = IF Head(queue).kind = "to" THEN Visit(full, change) ELSE walk,
         queue' = Tail(queue), UNCHANGED <<fs, started, is_active>>, started
  PROVE  NewsOK' /\ CoverOK'
<1> DEFINE e == Head(queue)
<1>1. /\ e = queue[1] /\ Len(queue) \in Nat /\ Len(queue) >= 1 /\ Len(queue') = Len(queue) - 1
      /\ \A m \in 1..(Len(queue) - 1) : queue'[m] = queue[m + 1]
  BY NextEvent DEF AgreeInv
<1>2. TreeOK
  BY DEF AgreeInv
<1>3. PICK i \in DOMAIN dirs : /\ dirs[i] = full /\ DOMAIN mark' = DOMAIN mark \cup {i}
                               /\ \A j \in DOMAIN dirs : dirs[j] = full => j = i
  <2>1. \E i : MarkAdded(i, full)
    BY <1>2, AddMarks, Zenon
  <2> QED
    BY <2>1 DEF MarkAdded
<1>4. ASSUME NEW m \in 1..Len(queue') PROVE m + 1 \in 1..Len(queue) /\ queue'[m] = queue[m + 1]
  BY <1>1
<1>5. NewsOK'
  <2> SUFFICES ASSUME NEW m \in 1..Len(queue'), Extends(queue'[m])
               PROVE  /\ queue'[m].wd \in DOMAIN mark' /\ queue'[m].name \in Filenames
                      /\ queue'[m].kind = "create" =>
                           \A j \in DOMAIN dirs : Announces(queue'[m], dirs[j]) => dirs[j] = Append(queue'[m].at, queue'[m].name)
    BY DEF NewsOK, Extends, Announces, fs
  <2> QED
    BY <1>3, <1>4 DEF NewsOK
<1>6. CoverOK'
  <2> SUFFICES ASSUME Covers, NEW j \in DOMAIN dirs, Covered(dirs[j]), j \notin DOMAIN mark
               PROVE  j \in DOMAIN mark' \/ IsAnnounced(dirs[j])' \/ IsToVisit(dirs[j])'
    <3>1. Covers' = Covers /\ DOMAIN mark \subseteq DOMAIN mark' /\ dirs' = dirs
      BY <1>3 DEF Covers, fs
    <3> QED
      BY <3>1 DEF CoverOK, Covered
  <2>1. \E m \in 1..Len(queue) : Announces(queue[m], dirs[j])
    <3>1. 1..Len(walk) = {}
      OBVIOUS
    <3> QED
      BY <3>1 DEF CoverOK, IsAnnounced, IsToVisit
  <2>2. PICK m \in 1..Len(queue) : Announces(queue[m], dirs[j])
    BY <2>1
  <2>3. CASE m # 1
    <3>1. m - 1 \in 1..Len(queue') /\ queue'[m - 1] = queue[m]
      BY <2>3, <1>1
    <3> QED
      BY <2>2, <3>1 DEF IsAnnounced, Announces, Extends, fs
  <2>4. CASE m = 1 /\ dirs[j] # full
    <3>1. Announces(e, dirs[j]) /\ IsPrefix(full, dirs[j])
      BY <2>2, <2>4, <1>1 DEF Announces
    <3>2. e.kind = "to"
      <4>1. e.kind # "create"
        BY <2>4, <3>1, <1>1 DEF NewsOK
      <4> QED
        BY <4>1 DEF Extends
    <3>3. \E n \in Listing(full) : IsPrefix(Append(full, n), dirs[j])
      BY <2>4, <3>1, <1>2, ListingLeads
    <3>4. Len(walk') = 1 /\ walk'[1].path = full /\ walk'[1].todo = Listing(full)
      <4>1. walk' = Visit(full, change)
        BY <3>2
      <4>2. Len(Visit(full, change)) = 1 /\ Visit(full, change)[1] = [path |-> full, todo |-> Listing(full), then |-> change]
        BY VisitIs
      <4> QED
        BY <4>1, <4>2
    <3>5. 1 \in 1..Len(walk')
      BY <3>4
    <3> QED
      BY <3>3, <3>4, <3>5 DEF IsToVisit, fs
  <2>5. CASE dirs[j] = full
    BY <2>5, <1>3
  <2> QED
    BY <2>3, <2>4, <2>5
<1> QED
  BY <1>5, <1>6

LEMMA HandleCovers ==
  ASSUME AgreeInv, TreeWaits, NewsOK, CoverOK, ReportChange
  PROVE  NewsOK' /\ CoverOK'
<1> DEFINE e == Head(queue)
           found == find_path_for_wd(e.wd)
           full == Append(found, e.name)
           change == <<full, Append(e.at, e.name)>>
           extend == setting.recursive /\ Extends(e)
<1>1. /\ started /\ is_active /\ walk = << >> /\ queue # << >>
      /\ queue' = Tail(queue) /\ UNCHANGED <<fs, started>>
      /\ \/ found = Nothing /\ UNCHANGED <<mark, watches, walk, report, is_active>>
         \/ /\ found # Nothing /\ extend /\ ~CanAdd(full)
            /\ is_active' = FALSE /\ UNCHANGED <<mark, watches, walk, report>>
         \/ /\ found # Nothing /\ ~extend
            /\ UNCHANGED <<mark, watches, walk, is_active>> /\ report' = change
         \/ /\ found # Nothing /\ extend /\ CanAdd(full) /\ add_watch_for_directory(full)
            /\ UNCHANGED is_active
            /\ IF e.kind = "to" THEN walk' = Visit(full, change) /\ UNCHANGED report
               ELSE report' = change /\ UNCHANGED walk
  BY HandleCases DEF AgreeInv
<1>2. found # Nothing => /\ found = e.at /\ e.at \in TreePaths /\ IsPrefix(Root, e.at)
                         /\ change \in TrueChanges /\ e.name \in EventNames
  <2> SUFFICES ASSUME found # Nothing
               PROVE  /\ found = e.at /\ e.at \in TreePaths /\ IsPrefix(Root, e.at)
                      /\ change \in TrueChanges /\ e.name \in EventNames
    OBVIOUS
  <2>1. /\ found = e.at /\ e.at \in TreePaths /\ IsPrefix(Root, e.at)
        /\ <<Append(e.at, e.name), Append(e.at, e.name)>> \in TrueChanges
    BY <1>1, EventsPath DEF AgreeInv
  <2>2. e.name \in EventNames
    BY <1>1, NextEvent DEF TreeEvents, AgreeInv
  <2> QED
    BY <2>1, <2>2
<1>3. TreeOK /\ TableOK /\ ListedOK /\ MarksOK /\ QueueOK /\ setting.recursive
  BY DEF AgreeInv, TreeWaits
<1>4. ASSUME Extends(e) PROVE found # Nothing
  <2>1. Len(queue) >= 1 /\ Len(queue) \in Nat /\ e = queue[1]
    BY <1>1, <1>3, NextEvent
  <2>2. e.wd \in DOMAIN mark
    <3>1. 1 \in 1..Len(queue)
      BY <2>1
    <3> QED
      BY <3>1, <2>1, <1>4 DEF NewsOK
  <2>3. mark[e.wd] = e.wd /\ dirs[e.wd] \in TreePaths
    BY <2>2, <1>3, DirIs DEF MarksOK
  <2>4. find_path_for_wd(mark[e.wd]) = dirs[e.wd]
    BY <2>2, <1>3, ListedIsFound
  <2> QED
    BY <2>3, <2>4, PathIs DEF Nothing
<1> HIDE DEF found, full, change, extend
<1>5. CASE UNCHANGED <<mark, walk>> /\ (~Extends(e) \/ is_active' = FALSE)
  <2>1. Covers = TRUE /\ (is_active' = FALSE => ~Covers')
    BY <1>1 DEF Covers
  <2> QED
    BY <2>1, <1>1, <1>3, <1>5, TailCovers
<1>6. CASE /\ found # Nothing /\ extend /\ CanAdd(full) /\ add_watch_for_directory(full)
           /\ UNCHANGED is_active
           /\ IF e.kind = "to" THEN walk' = Visit(full, change) /\ UNCHANGED report
              ELSE report' = change /\ UNCHANGED walk
  <2>1. full = Append(e.at, e.name) /\ e.at \in TreePaths /\ IsPrefix(Root, e.at) /\ e.name \in EventNames
    BY <1>2, <1>6 DEF full
  <2>2. full \in TreePaths /\ IsPrefix(Root, full)
    BY <2>1, <1>3, <1>6, AnnouncedPath
  <2>3. Extends(e) /\ change \in TrueChanges
    BY <1>2, <1>6 DEF extend
  <2>4. walk' = IF e.kind = "to" THEN Visit(full, change) ELSE walk
    BY <1>6
  <2> QED
    BY <2>1, <2>2, <2>3, <2>4, <1>1, <1>6, ExtendCovers
<1> QED
  BY <1>1, <1>3, <1>4, <1>5, <1>6 DEF extend

LEMMA InotifyStepCovers ==
  ASSUME AgreeInv, TreeWaits, NewsOK, CoverOK, [InotifyNext]_inotify_vars
  PROVE  NewsOK' /\ CoverOK'
<1>1. CASE InotifyNext
  <2>1. ASSUME NEW i \in DOMAIN dirs, NEW n \in Filenames, make_dir(i, n) PROVE NewsOK' /\ CoverOK'
    BY <2>1, MakeCovers
  <2>2. ASSUME NEW i \in DOMAIN dirs, remove_dir(i) PROVE NewsOK' /\ CoverOK'
    BY <2>2, RemoveCovers
  <2>3. ASSUME NEW i \in DOMAIN dirs, NEW p \in DOMAIN dirs, NEW n \in Filenames, move_dir(i, p, n)
        PROVE  NewsOK' /\ CoverOK'
    BY <2>3, MoveCovers
  <2>4. ASSUME NEW i \in DOMAIN dirs, NEW n \in Filenames, write_file(i, n) PROVE NewsOK' /\ CoverOK'
    BY <2>4, WriteCovers
  <2>5. CASE platform_start_watching
    BY <2>5, StartCovers
  <2>6. CASE add_watches_recursive
    BY <2>6, WalkCovers
  <2>7. CASE platform_stop_watching
    BY <2>7, StopCovers
  <2>8. CASE platform_poll_changes
    BY <2>8, PruneCovers, HandleCovers DEF platform_poll_changes
  <2> QED
    BY <1>1, <2>1, <2>2, <2>3, <2>4, <2>5, <2>6, <2>7, <2>8 DEF InotifyNext
<1>2. CASE UNCHANGED inotify_vars
  <2>1. UNCHANGED <<setting, dirs, mark, queue, walk, started, is_active>>
    BY <1>2 DEF inotify_vars
  <2>2. NewsOK'
    BY <2>1 DEF NewsOK, Announces, Extends
  <2>3. CoverOK'
    BY <2>1 DEF CoverOK, Covers, Covered, IsAnnounced, IsToVisit, Announces, Extends
  <2> QED
    BY <2>2, <2>3
<1> QED
  BY <1>1, <1>2

LEMMA InotifyInitCovers == ASSUME InotifyInit PROVE NewsOK /\ CoverOK
<1>1. queue = << >> /\ walk = << >> /\ started = FALSE
  BY DEF InotifyInit
<1>2. 1..Len(queue) = {}
  BY <1>1
<1> QED
  BY <1>1, <1>2 DEF NewsOK, CoverOK, Covers

LEMMA InotifyInitInv == ASSUME InotifyInit PROVE IInv
  BY InotifyInitAgrees, InotifyInitCovers DEF IInv, ReportInv, CoverInv

LEMMA InotifyStepInv == ASSUME IInv, [InotifyNext]_inotify_vars PROVE IInv'
<1>1. UNCHANGED setting
  BY SettingStays
<1>2. ReportInv'
  BY <1>1, InotifyStepAgrees DEF IInv, ReportInv, MovesAreSeen
<1>3. CoverInv'
  <2> SUFFICES ASSUME TreeWaits PROVE NewsOK' /\ CoverOK'
    BY <1>1 DEF CoverInv, TreeWaits
  <2>1. AgreeInv
    BY DEF IInv, ReportInv, MovesAreSeen, TreeWaits
  <2> QED
    BY <2>1, InotifyStepCovers DEF IInv, CoverInv
<1> QED
  BY <1>2, <1>3 DEF IInv

(* With nothing announced and nothing to visit, all is watched.            *)
LEMMA CoveredIsWatched ==
  ASSUME AgreeInv, CoverOK
  PROVE  TreeIsWatched
<1> SUFFICES ASSUME UpToDate, NEW i \in DOMAIN dirs, Covered(dirs[i])
             PROVE  i \in DOMAIN mark /\ find_path_for_wd(mark[i]) = dirs[i]
  BY DEF TreeIsWatched, Covered
<1>1. Covers /\ 1..Len(queue) = {} /\ 1..Len(walk) = {}
  BY DEF UpToDate, Covers
<1>2. i \in DOMAIN mark
  BY <1>1 DEF CoverOK, IsAnnounced, IsToVisit
<1> QED
  BY <1>2, ListedIsFound DEF AgreeInv

LEMMA InvIsFaithful == ASSUME IInv PROVE WatchesAreFaithful
<1>1. setting.patient /\ ~setting.moves => TreeIsWatched
  <2> SUFFICES ASSUME setting.patient, ~setting.moves, setting.recursive PROVE TreeIsWatched
    BY DEF TreeIsWatched
  <2>1. AgreeInv /\ CoverOK
    BY DEF IInv, ReportInv, CoverInv, MovesAreSeen, TreeWaits
  <2> QED
    BY <2>1, CoveredIsWatched
<1>2. ~(setting.moves /\ setting.recursive) => ReportsNameTheFile
  <2> SUFFICES ASSUME AgreeInv, report # Nothing PROVE report[1] = report[2]
    BY DEF IInv, ReportInv, MovesAreSeen, ReportsNameTheFile
  <2>1. PICK p \in Seq(EventNames) : report = <<p, p>>
    BY DEF AgreeInv, StateOK, TrueChanges
  <2> QED
    BY <2>1
<1> QED
  BY <1>1, <1>2 DEF WatchesAreFaithful

(* WatchesAreFaithfulAlways: a watcher of a whole tree misses none of its  *)
(* directories, if the tree waits for it and directories are not renamed,  *)
(* and a reported path is where the change happened, for any tree, names,  *)
(* limit of watches and order of events, polls, starts and stops           *)
(* (file_watcher_linux.c:53-350).                                          *)
THEOREM WatchesAreFaithfulAlways == InotifySpec => []WatchesAreFaithful
<1>1. InotifyInit => IInv
  BY InotifyInitInv
<1>2. IInv /\ [InotifyNext]_inotify_vars => IInv'
  BY InotifyStepInv
<1>3. IInv => WatchesAreFaithful
  BY InvIsFaithful
<1> QED
  BY <1>1, <1>2, <1>3, PTL DEF InotifySpec

=============================================================================
