----------------------------- MODULE FileWatcher -----------------------------
(***************************************************************************)
(* The file watcher of src/core/file_watcher.c: watchers in slots that are *)
(* reused but never move, each with a buffer of coalesced changes and a    *)
(* list of callbacks.  One thread calls the API; the platform's thread     *)
(* adds changes and invokes callbacks, as on macOS.  Every use of a        *)
(* watcher's changes_lock is one critical section, hence one step; the     *)
(* registry's lock is held across the platform's stop, hence a variable.   *)
(***************************************************************************)
EXTENDS FixedArray, Sequences, FiniteSets, SequencesExt, FiniteSetsExt

CONSTANTS
  Paths,          (* of changes                                            *)
  Events,         (* changes the platform reports: <<types, is_directory>>,*)
                  (* a type being one bit of change_types                  *)
  Capacity,       (* of the registry: 16 in the code                       *)
  MaxChanges,     (* of a watcher's buffer                                 *)
  MaxCallbacks,   (* FILE_WATCHER_MAX_CALLBACKS                            *)
  Window,         (* FILE_WATCHER_COALESCE_WINDOW_US                       *)
  Reenter,        (* callbacks call the API                                *)
  MaxStarts, MaxAdds, MaxTime, MaxRegs   (* bounds                         *)

VARIABLES
  watchers,       (* the registry's fixed array of slots                   *)
  next_handle,
  stopping,       (* slot whose stop holds the registry lock, or NoSlot    *)
  now,
  platform,       (* what the platform's thread does                       *)
  adds, regs      (* counts for the bounds                                 *)

vars == <<watchers, next_handle, stopping, now, platform, adds, regs>>

INVALID == 0
NoSlot  == -1
Idle    == [pc |-> "idle"]
NoChanges == [p \in Paths |-> {}]

(* owed is a ghost: all the types of change that happened to each path     *)
(* since the buffer was last drained.                                      *)
NewState(h) ==
  [handle |-> h, is_active |-> TRUE, platform_data |-> TRUE, changes |-> << >>,
   has_overflow |-> FALSE, callbacks |-> << >>, next_callback |-> 1, owed |-> NoChanges]

Init ==
  /\ watchers = fixed_array_init_raw(Capacity)
  /\ next_handle = 1
  /\ stopping = NoSlot
  /\ now = 0
  /\ platform = Idle
  /\ adds = 0 /\ regs = 0

Slots == 0..watchers.length - 1
Live  == {s \in Slots : watchers.data[s].handle # INVALID}
At(s) == watchers.data[s]
Update(s, w) == watchers' = [watchers EXCEPT !.data[s] = w]

(* The API finds a watcher under the registry lock.                        *)
CanFind == stopping = NoSlot

----------------------------------------------------------------------------
(* Starting and stopping.                                                  *)

Tombstones == Slots \ Live

(* A platform that refuses leaves a tombstone behind.                      *)
file_watcher_start(refused) ==
  /\ CanFind /\ next_handle <= MaxStarts
  /\ LET new == IF refused
                THEN [NewState(INVALID) EXCEPT !.is_active = FALSE, !.platform_data = FALSE]
                ELSE NewState(next_handle)
     IN  IF Tombstones # {} THEN Update(Min(Tombstones), new)
         ELSE /\ watchers.length < watchers.capacity
              /\ watchers' = fixed_array_add_raw(watchers, new)
  /\ next_handle' = next_handle + 1
  /\ UNCHANGED <<stopping, now, platform, adds, regs>>

file_watcher_stop(s) ==
  /\ CanFind
  /\ stopping' = s
  /\ UNCHANGED <<watchers, next_handle, now, platform, adds, regs>>

Tombstone(s) ==
  Update(s, [At(s) EXCEPT !.handle = INVALID, !.is_active = FALSE, !.platform_data = FALSE])

WorksOn(s) == IF platform.pc = "idle" THEN FALSE ELSE platform.slot = s

(* Mutant: the state goes before the platform has stopped.                 *)
DestroyAtOnce ==
  /\ stopping # NoSlot
  /\ Tombstone(stopping)
  /\ stopping' = NoSlot
  /\ UNCHANGED <<next_handle, now, platform, adds, regs>>

(* The platform's stop waits for a callback that is running.               *)
destroy_watcher_state ==
  /\ stopping # NoSlot
  /\ ~WorksOn(stopping)
  /\ Tombstone(stopping)
  /\ stopping' = NoSlot
  /\ UNCHANGED <<next_handle, now, platform, adds, regs>>

----------------------------------------------------------------------------
(* Changes.                                                                *)

(* A moved file counts as modified.                                        *)
WithModified(types, isDir) ==
  IF "moved" \in types /\ ~isDir THEN types \cup {"modified"} ELSE types

(* The time is read before the lock is taken.                              *)
add_file_change(s, path, types, isDir) ==
  /\ platform.pc = "idle" /\ adds < MaxAdds
  /\ At(s).platform_data /\ At(s).is_active
  /\ platform' = [pc |-> "add", slot |-> s, handle |-> At(s).handle, path |-> path,
                  raw |-> types, types |-> WithModified(types, isDir), time |-> now]
  /\ adds' = adds + 1
  /\ UNCHANGED <<watchers, next_handle, stopping, now, regs>>

Recent(w, path, time) ==
  {i \in DOMAIN w.changes : w.changes[i].path = path /\ time - w.changes[i].time < Window}

snapshot_matching_callbacks(w, path) == SelectSeq(w.callbacks, LAMBDA c : c.path = path)

(* The first recent change to the path takes the new one in; a full buffer *)
(* drops it.                                                               *)
Put(w, c) ==
  LET at == Recent(w, c.path, c.time) IN
  IF at # {} THEN [w EXCEPT !.changes[Min(at)].types = @ \cup c.types, !.changes[Min(at)].time = c.time]
  ELSE IF Len(w.changes) >= MaxChanges THEN [w EXCEPT !.has_overflow = TRUE]
  ELSE [w EXCEPT !.changes = Append(@, c)]

Dropped(w, c) == Recent(w, c.path, c.time) = {} /\ Len(w.changes) >= MaxChanges

Calls == IF Reenter THEN BOOLEAN ELSE {FALSE}

StoreChange ==
  /\ platform.pc = "add"
  /\ LET w == At(platform.slot)
         c == [path |-> platform.path, types |-> platform.types, time |-> platform.time]
     IN  /\ Update(platform.slot, [Put(w, c) EXCEPT !.owed[c.path] = @ \cup platform.raw])
         /\ IF Dropped(w, c) \/ snapshot_matching_callbacks(w, c.path) = << >>
            THEN platform' = Idle
            ELSE \E calls \in Calls :
                   platform' = [pc |-> "call", slot |-> platform.slot, handle |-> platform.handle,
                                matched |-> snapshot_matching_callbacks(w, c.path), calls |-> calls]
  /\ UNCHANGED <<next_handle, stopping, now, adds, regs>>

Return == IF Len(platform.matched) = 1 THEN Idle
          ELSE [platform EXCEPT !.matched = Tail(@)]

(* A callback does nothing, or unregisters itself.                         *)
InvokeCallback ==
  /\ platform.pc = "call" /\ ~platform.calls
  /\ platform' = Return
  /\ UNCHANGED <<watchers, next_handle, stopping, now, adds, regs>>

Unregister(w, id) ==
  LET at == {i \in DOMAIN w.callbacks : w.callbacks[i].id = id}
      n  == Len(w.callbacks)
  IN  IF at = {} THEN w
      ELSE [w EXCEPT !.callbacks =
              SubSeq([@ EXCEPT ![CHOOSE i \in at : TRUE] = w.callbacks[n]], 1, n - 1)]

CallbackUnregisters ==
  /\ platform.pc = "call" /\ platform.calls /\ CanFind
  /\ Update(platform.slot, Unregister(At(platform.slot), Head(platform.matched).id))
  /\ platform' = Return
  /\ UNCHANGED <<next_handle, stopping, now, adds, regs>>

Tick == now < MaxTime /\ now' = now + 1
        /\ UNCHANGED <<watchers, next_handle, stopping, platform, adds, regs>>

----------------------------------------------------------------------------
(* The rest of the API.                                                    *)

file_watcher_register_callback(s, path) ==
  /\ CanFind /\ regs < MaxRegs
  /\ Len(At(s).callbacks) < MaxCallbacks
  /\ Update(s, [At(s) EXCEPT !.callbacks = Append(@, [id |-> At(s).next_callback, path |-> path]),
                             !.next_callback = @ + 1])
  /\ regs' = regs + 1
  /\ UNCHANGED <<next_handle, stopping, now, platform, adds>>

file_watcher_unregister_callback(s, id) ==
  /\ CanFind
  /\ Update(s, Unregister(At(s), id))
  /\ UNCHANGED <<next_handle, stopping, now, platform, adds, regs>>

Drained(w) == [w EXCEPT !.changes = << >>, !.has_overflow = FALSE, !.owed = NoChanges]

file_watcher_clear_changes(s) ==
  /\ CanFind
  /\ Update(s, Drained(At(s)))
  /\ UNCHANGED <<next_handle, stopping, now, platform, adds, regs>>

(* The poll may find the watch broken; what was buffered is still taken.   *)
file_watcher_get_changes(s, broken) ==
  /\ CanFind /\ At(s).is_active
  /\ Update(s, [Drained(At(s)) EXCEPT !.is_active = ~broken])
  /\ UNCHANGED <<next_handle, stopping, now, platform, adds, regs>>

file_watcher_has_changes(s, broken) ==
  /\ CanFind /\ At(s).is_active
  /\ Update(s, [At(s) EXCEPT !.is_active = ~broken])
  /\ UNCHANGED <<next_handle, stopping, now, platform, adds, regs>>

Next ==
  \/ \E refused \in BOOLEAN : file_watcher_start(refused)
  \/ \E s \in Live : file_watcher_stop(s)
  \/ destroy_watcher_state
  \/ \E s \in Live, p \in Paths, e \in Events : add_file_change(s, p, e[1], e[2])
  \/ StoreChange
  \/ InvokeCallback
  \/ CallbackUnregisters
  \/ Tick
  \/ \E s \in Live, p \in Paths : file_watcher_register_callback(s, p)
  \/ \E s \in Live, id \in 1..MaxRegs : file_watcher_unregister_callback(s, id)
  \/ \E s \in Live : file_watcher_clear_changes(s)
  \/ \E s \in Live, broken \in BOOLEAN : file_watcher_get_changes(s, broken)
  \/ \E s \in Live, broken \in BOOLEAN : file_watcher_has_changes(s, broken)

Spec == Init /\ [][Next]_vars

----------------------------------------------------------------------------
(* What the buffer says of a path.                                         *)
Told(w, p) == UNION {w.changes[i].types : i \in {j \in DOMAIN w.changes : w.changes[j].path = p}}

(* ChangesAreKept: what a buffer tells of each path since it was last      *)
(* drained is what happened to it, unless the buffer says that changes were*)
(* lost; and changes of a path are told apart only when they are           *)
(* (file_watcher.c:198-268, 488-557).                                      *)
ChangesAreKept ==
  \A s \in Live :
    LET w == At(s) IN
    /\ \A p \in Paths : Told(w, p) \subseteq w.owed[p] \cup {"modified"}
    /\ ~w.has_overflow => \A p \in Paths : w.owed[p] \subseteq Told(w, p)
    /\ \A i, j \in DOMAIN w.changes :
         i < j /\ w.changes[i].path = w.changes[j].path =>
           w.changes[j].time - w.changes[i].time >= Window

(* WatchersArePinned: while the platform's thread works on a watcher its   *)
(* slot is neither destroyed nor given to another, handles are unique, and *)
(* a tombstone is reached by nobody (file_watcher.c:69-104, 272-364).      *)
WatchersArePinned ==
  /\ platform.pc # "idle" => At(platform.slot).handle = platform.handle
  /\ \A s, t \in Live : At(s).handle = At(t).handle => s = t

(* WatchesAreSound: whatever callbacks and the API do while changes come    *)
(* in, buffers tell the truth and slots in use stay whose they are          *)
(* (file_watcher.c:69-557).                                                 *)
WatchesAreSound == ChangesAreKept /\ WatchersArePinned
=============================================================================
