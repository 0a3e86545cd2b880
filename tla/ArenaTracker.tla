---------------------------- MODULE ArenaTracker ----------------------------
(***************************************************************************)
(* The list of live arenas of src/core/arena.c: every arena registers when *)
(* it is made and unregisters before its memory goes, reports walk the     *)
(* list under the tracker's mutex, and each thread has two scratch arenas  *)
(* made on first use.  A call is the set of tasks its thread has left, and *)
(* does them in the order of Tasks; a task takes several steps, each of    *)
(* them atomic as it holds the mutex or touches what is the thread's own.  *)
(***************************************************************************)
EXTENDS Integers, Sequences, FiniteSets

CONSTANTS
  ArenaThreads, Main,   (* the threads, and the one of fl_init, fl_destroy *)
  MaxArenas,            (* addresses of arenas, used again after a release *)
  InitFirst,            (* no thread makes an arena before fl_init         *)
  MaxArenaCalls,        (* bound: thread -> its calls                      *)
  Nil

Arenas == 1..MaxArenas

ASSUME TrackerAssumption ==
  /\ Main \in ArenaThreads
  /\ MaxArenas \in Nat /\ InitFirst \in BOOLEAN
  /\ Nil \notin Arenas /\ Nil \notin ArenaThreads

VARIABLES
  initialized, mutex,        (* g_arena_tracker                            *)
  head, tail, next, prev,    (* its list                                   *)
  alive,                     (* arenas whose memory is mapped              *)
  owned,                     (* thread -> arenas it made itself            *)
  scratch, second,           (* thread -> s_arena_scratch and its next     *)
  todo, step,                (* thread -> tasks left, step of the first    *)
  hand,                      (* thread -> arena it makes or destroys       *)
  cursor, reported,          (* thread -> arena it visits, arenas visited  *)
  made

list == <<head, tail, next, prev>>
mine == <<owned, scratch, second>>
tracker_vars == <<initialized, mutex, list, alive, mine, todo, step, hand, cursor, reported, made>>

(* The tracker, the scratch arenas, an arena; a report and its visits; an  *)
(* arena, the scratch arenas and the tracker taken down.                   *)
Tasks == <<"init", "warm", "own", "walk", "visit", "drop", "forget", "gone">>
AllTasks == {Tasks[i] : i \in 1..8}

Does(t, task) == \E i \in 1..8 : Tasks[i] = task /\ task \in todo[t] /\ \A j \in 1..(i - 1) : Tasks[j] \notin todo[t]
Done(t, task) == todo' = [todo EXCEPT ![t] = @ \ {task}]
To(t, s) == step' = [step EXCEPT ![t] = s]

Begins(t, tasks) ==
  /\ todo[t] = {} /\ made[t] < MaxArenaCalls[t]
  /\ todo' = [todo EXCEPT ![t] = tasks]
  /\ made' = [made EXCEPT ![t] = @ + 1]

(* Calls come between fl_init and fl_destroy.                              *)
Ready == InitFirst => initialized /\ step[Main] # "reset" /\ "gone" \notin todo[Main]

(* What next leads to from the head.                                       *)
Registered ==
  {a \in Arenas : \A S \in SUBSET Arenas :
     /\ head # Nil => head \in S
     /\ \A b \in S : next[b] # Nil => next[b] \in S
     => a \in S}

-----------------------------------------------------------------------------
(* An arena is made: arena_new_, arena_tracker_init, _register.            *)

Makes(t) == Does(t, "own") \/ (Does(t, "warm") /\ second[t] = Nil)

(* The system hands out the lowest address that is free.                   *)
arena_new_(t) ==
  /\ Makes(t) /\ step[t] = "start"
  /\ \E a \in Arenas \ alive :
       /\ \A b \in Arenas \ alive : a <= b
       /\ alive' = alive \cup {a}
       /\ next' = [next EXCEPT ![a] = Nil] /\ prev' = [prev EXCEPT ![a] = Nil]
       /\ hand' = [hand EXCEPT ![t] = a]
  /\ To(t, IF initialized THEN "push" ELSE "init")
  /\ UNCHANGED <<initialized, mutex, head, tail, mine, todo, cursor, reported, made>>

Initialised(t) ==
  IF Does(t, "init") THEN To(t, "start") /\ Done(t, "init") ELSE To(t, "push") /\ UNCHANGED todo

(* The compare and swap decides who sets up the mutex and the list.        *)
arena_tracker_init(t) ==
  /\ step[t] = "init" \/ (step[t] = "start" /\ Does(t, "init"))
  /\ initialized' = TRUE
  /\ IF initialized THEN Initialised(t) ELSE To(t, "reset") /\ UNCHANGED todo
  /\ UNCHANGED <<mutex, list, alive, mine, hand, cursor, reported, made>>

tracker_reset(t) ==
  /\ step[t] = "reset" /\ Initialised(t)
  /\ mutex' = Nil /\ head' = Nil /\ tail' = Nil
  /\ UNCHANGED <<initialized, next, prev, alive, mine, hand, cursor, reported, made>>

(* dll_push_back_np.                                                       *)
Push(a) ==
  /\ tail' = a
  /\ head' = IF head = Nil THEN a ELSE head
  /\ next' = [b \in Arenas |-> IF b = a THEN Nil ELSE IF head # Nil /\ b = tail THEN a ELSE next[b]]
  /\ prev' = [prev EXCEPT ![a] = IF head = Nil THEN Nil ELSE tail]

(* The caller keeps the new arena.                                         *)
Keeps(t) ==
  /\ owned' = IF Does(t, "own") THEN [owned EXCEPT ![t] = @ \cup {hand[t]}] ELSE owned
  /\ scratch' = IF Does(t, "warm") /\ scratch[t] = Nil THEN [scratch EXCEPT ![t] = hand[t]] ELSE scratch
  /\ second' = IF Does(t, "warm") /\ scratch[t] # Nil THEN [second EXCEPT ![t] = hand[t]] ELSE second
  /\ hand' = [hand EXCEPT ![t] = Nil]
  /\ IF Does(t, "own") THEN Done(t, "own") ELSE UNCHANGED todo

arena_tracker_register(t) ==
  /\ step[t] = "push" /\ mutex = Nil
  /\ Push(hand[t]) /\ Keeps(t) /\ To(t, "start")
  /\ UNCHANGED <<initialized, mutex, alive, cursor, reported, made>>

(* Both scratch arenas are there, or both are gone.                        *)
scratch_returns(t) ==
  /\ step[t] = "start" /\ UNCHANGED step
  /\ \/ Does(t, "warm") /\ second[t] # Nil /\ Done(t, "warm")
     \/ Does(t, "forget") /\ scratch[t] = Nil /\ Done(t, "forget")
  /\ UNCHANGED <<initialized, mutex, list, alive, mine, hand, cursor, reported, made>>

-----------------------------------------------------------------------------
(* An arena goes: arena_tracker_unregister, release_range_os.              *)

(* The arena of arena_destroy, the second scratch arena, the first.        *)
Victim(t) == IF hand[t] # Nil THEN hand[t] ELSE IF second[t] # Nil THEN second[t] ELSE scratch[t]
Drops(t) == Does(t, "drop") \/ (Does(t, "forget") /\ scratch[t] # Nil)

(* Mutant: the next arena keeps pointing back at the one that goes.        *)
UnlinkForward(a) ==
  /\ head' = IF head = a THEN next[a] ELSE head
  /\ tail' = IF tail = a THEN prev[a] ELSE tail
  /\ next' = IF prev[a] = Nil THEN next ELSE [next EXCEPT ![prev[a]] = next[a]]
  /\ prev' = prev

Unlink(a) ==
  /\ head' = IF head = a THEN next[a] ELSE head
  /\ tail' = IF tail = a THEN prev[a] ELSE tail
  /\ next' = IF prev[a] = Nil THEN next ELSE [next EXCEPT ![prev[a]] = next[a]]
  /\ prev' = IF next[a] = Nil THEN prev ELSE [prev EXCEPT ![next[a]] = prev[a]]

arena_tracker_unregister(t) ==
  /\ Drops(t) /\ step[t] = "start"
  /\ IF initialized THEN mutex = Nil /\ Unlink(Victim(t)) ELSE UNCHANGED list
  /\ To(t, "release")
  /\ UNCHANGED <<initialized, mutex, alive, mine, todo, hand, cursor, reported, made>>

release_range_os(t) ==
  /\ step[t] = "release" /\ To(t, "start") /\ Done(t, "drop")
  /\ alive' = alive \ {Victim(t)}
  /\ hand' = [hand EXCEPT ![t] = Nil]
  /\ second' = IF hand[t] = Nil THEN [second EXCEPT ![t] = Nil] ELSE second
  /\ scratch' = IF hand[t] = Nil /\ second[t] = Nil THEN [scratch EXCEPT ![t] = Nil] ELSE scratch
  /\ UNCHANGED <<initialized, mutex, list, owned, cursor, reported, made>>

-----------------------------------------------------------------------------
(* Reports: arena_tracker_iterate_all with a callback that formats.        *)

iterate(t) ==
  /\ Does(t, "walk") /\ mutex = Nil
  /\ mutex' = t
  /\ cursor' = [cursor EXCEPT ![t] = head]
  /\ reported' = [reported EXCEPT ![t] = {}]
  /\ todo' = [todo EXCEPT ![t] = {"visit"}]
  /\ UNCHANGED <<initialized, list, alive, mine, step, hand, made>>

(* A callback that finds no scratch arena makes one where it stands.       *)
visit(t) ==
  /\ Does(t, "visit")
  /\ IF cursor[t] = Nil
     THEN Done(t, "visit") /\ mutex' = Nil /\ UNCHANGED <<cursor, reported>>
     ELSE IF scratch[t] = Nil
     THEN todo' = [todo EXCEPT ![t] = @ \cup {"warm"}] /\ UNCHANGED <<mutex, cursor, reported>>
     ELSE /\ reported' = [reported EXCEPT ![t] = @ \cup {cursor[t]}]
          /\ cursor' = [cursor EXCEPT ![t] = next[cursor[t]]]
          /\ UNCHANGED <<mutex, todo>>
  /\ UNCHANGED <<initialized, list, alive, mine, step, hand, made>>

-----------------------------------------------------------------------------
(* The calls.  arena_create and arena_mt_new; arena_scratch_begin, by any  *)
(* call that formats or logs; arena_scratch_destroy, by a worker that      *)
(* ends; arena_destroy.                                                    *)
Uses(t) ==
  /\ Ready
  /\ \/ Begins(t, {"own"}) \/ Begins(t, {"warm"})
     \/ initialized /\ Begins(t, {"warm", "walk"})
  /\ UNCHANGED <<initialized, mutex, list, alive, mine, step, hand, cursor, reported>>

arena_scratch_destroy(t) ==
  /\ scratch[t] # Nil /\ Begins(t, {"forget"})
  /\ UNCHANGED <<initialized, mutex, list, alive, mine, step, hand, cursor, reported>>

Hands(t, a) ==
  /\ a \in owned[t]
  /\ owned' = [owned EXCEPT ![t] = @ \ {a}] /\ hand' = [hand EXCEPT ![t] = a]
  /\ UNCHANGED <<initialized, mutex, list, alive, scratch, second, step, cursor, reported>>

arena_destroy(t) == Begins(t, {"drop"}) /\ \E a \in owned[t] : Hands(t, a)

(* fl_init makes the tracker, the main thread's scratch arenas and an      *)
(* arena; fl_destroy, once no other thread has an arena, takes them down.  *)
tracker_up ==
  /\ ~initialized /\ owned[Main] = {}
  /\ Begins(Main, {"init", "warm", "own"})
  /\ UNCHANGED <<initialized, mutex, list, alive, mine, step, hand, cursor, reported>>

tracker_down ==
  /\ initialized
  /\ \A t \in ArenaThreads \ {Main} : owned[t] = {} /\ scratch[t] = Nil /\ todo[t] = {}
  /\ Begins(Main, {"drop", "forget", "gone"})
  /\ \E a \in Arenas : owned[Main] = {a} /\ Hands(Main, a)

arena_tracker_destroy(t) ==
  /\ Does(t, "gone") /\ Done(t, "gone")
  /\ initialized' = FALSE /\ head' = Nil /\ tail' = Nil
  /\ UNCHANGED <<mutex, next, prev, alive, mine, step, hand, cursor, reported, made>>

TrackerInit ==
  /\ initialized = FALSE /\ mutex = Nil /\ head = Nil /\ tail = Nil
  /\ next = [a \in Arenas |-> Nil] /\ prev = [a \in Arenas |-> Nil]
  /\ alive = {} /\ owned = [t \in ArenaThreads |-> {}]
  /\ scratch = [t \in ArenaThreads |-> Nil] /\ second = [t \in ArenaThreads |-> Nil]
  /\ todo = [t \in ArenaThreads |-> {}] /\ step = [t \in ArenaThreads |-> "start"]
  /\ hand = [t \in ArenaThreads |-> Nil]
  /\ cursor = [t \in ArenaThreads |-> Nil] /\ reported = [t \in ArenaThreads |-> {}]
  /\ made = [t \in ArenaThreads |-> 0]

TrackerNext ==
  \/ \E t \in ArenaThreads :
       \/ arena_new_(t) \/ arena_tracker_init(t) \/ tracker_reset(t) \/ arena_tracker_register(t)
       \/ scratch_returns(t) \/ arena_tracker_unregister(t) \/ release_range_os(t)
       \/ iterate(t) \/ visit(t) \/ arena_tracker_destroy(t)
       \/ Uses(t) \/ arena_scratch_destroy(t) \/ arena_destroy(t)
  \/ tracker_up \/ tracker_down

TrackerSpec == TrackerInit /\ [][TrackerNext]_tracker_vars

-----------------------------------------------------------------------------
TrackerTypeOK ==
  /\ initialized \in BOOLEAN /\ mutex \in ArenaThreads \cup {Nil}
  /\ {head, tail} \subseteq Arenas \cup {Nil}
  /\ next \in [Arenas -> Arenas \cup {Nil}] /\ prev \in [Arenas -> Arenas \cup {Nil}]
  /\ alive \subseteq Arenas /\ owned \in [ArenaThreads -> SUBSET Arenas]
  /\ scratch \in [ArenaThreads -> Arenas \cup {Nil}] /\ second \in [ArenaThreads -> Arenas \cup {Nil}]
  /\ todo \in [ArenaThreads -> SUBSET AllTasks] /\ hand \in [ArenaThreads -> Arenas \cup {Nil}]
  /\ step \in [ArenaThreads -> {"start", "init", "reset", "push", "release"}]
  /\ cursor \in [ArenaThreads -> Arenas \cup {Nil}] /\ reported \in [ArenaThreads -> SUBSET Arenas]

(* The arena a thread has not yet pushed, or has just taken off the list.  *)
Away(t) ==
  CASE step[t] \in {"init", "reset", "push"} -> {hand[t]}
    [] step[t] = "release" -> {Victim(t)}
    [] OTHER -> {}

(* ListIsExact: a live arena is on the list unless its maker is about to   *)
(* put it there or has just taken it off, nothing else is, and the list    *)
(* reads the same in both directions (arena.c:53-92; arena.h "Iterate over *)
(* all arenas").                                                           *)
ListIsExact ==
  /\ Registered = {a \in alive : \A t \in ArenaThreads : a \notin Away(t)}
  /\ head \in Registered \cup {Nil} /\ tail \in Registered \cup {Nil}
  /\ \A a \in Registered : /\ prev[a] = Nil <=> a = head
                           /\ next[a] = Nil <=> a = tail
                           /\ next[a] # Nil => prev[next[a]] = a

(* WalksAreSafe: a walk stands on a live arena and reports live ones only, *)
(* and no thread waits for a mutex it holds itself, whatever its callback  *)
(* does with scratch arenas (arena.c:96-114; arena.h "Scratch-arena use is *)
(* safe").                                                                 *)
Waits(t) == step[t] = "push" \/ (step[t] = "start" /\ (Drops(t) \/ Does(t, "walk")))
WalksAreSafe ==
  \A t \in ArenaThreads : mutex = t =>
    cursor[t] \in alive \cup {Nil} /\ reported[t] \subseteq alive /\ ~Waits(t)

(* ArenasAreListed: the list of arenas is exactly the live ones, whoever   *)
(* makes and destroys arenas meanwhile, and walking it meets no released   *)
(* arena and no lock of its own (arena.c:31-114, 515-534).                 *)
ArenasAreListed == TrackerTypeOK /\ ListIsExact /\ WalksAreSafe
=============================================================================
