-------------------------------- MODULE Log --------------------------------
(***************************************************************************)
(* Logging: the channel table and the log file of src/core/log.c, and the  *)
(* bridge of rust/flowi_core/src/log_bridge.rs that caches channel ids and *)
(* hands out guards for the file.  The two mutexes make their sections     *)
(* atomic; what a thread does between two sections is a step of its own.   *)
(***************************************************************************)
EXTENDS Integers, Sequences, FiniteSets

CONSTANTS
  Threads,
  Names,              (* channel names besides CORE                        *)
  Levels,             (* a range of levels from 0                          *)
  MAX_LOG_CHANNELS,
  MaxCalls, MaxOpens, (* bounds: calls of a thread, files opened           *)
  OneGuard            (* callers hold one LogFile at a time                *)

VARIABLES
  channels,    (* the table: a sequence of name, level, enabled            *)
  current,     (* s_current_log_level                                      *)
  default,     (* s_default_channel                                        *)
  cache,       (* the bridge's CHANNELS: name -> id                        *)
  fd,          (* s_log_file_fd: a session, or 0                           *)
  path,        (* s_log_file_path is set                                   *)
  disk,        (* session found in the log file and in its .old, or 0      *)
  sessions,    (* log files opened so far                                  *)
  unclosed,    (* sessions whose handle is open                            *)
  guards,      (* LogFile guards held: the session each opened             *)
  wrote,       (* sessions written to, each with the handles open then     *)
  handed,      (* name and id of every registration                        *)
  pc, calls    (* thread -> step of its call, calls it made                *)

table == <<channels, current, default, cache, handed>>
file == <<fd, path, disk, sessions, unclosed, guards>>
vars == <<channels, current, default, cache, fd, path, disk, sessions, unclosed, guards, wrote,
          handed, pc, calls>>

INVALID == 0   (* LOG_CHANNEL_INVALID; ids count from 1 here               *)
Idle == [op |-> "idle"]
Ids == 1..Len(channels)

Begins(t, step) ==
  /\ pc[t] = Idle /\ calls[t] < MaxCalls
  /\ calls' = [calls EXCEPT ![t] = @ + 1]
  /\ pc' = [pc EXCEPT ![t] = step]
At(t, op) == pc[t].op = op
Goes(t, step) == pc' = [pc EXCEPT ![t] = step] /\ UNCHANGED calls

-----------------------------------------------------------------------------
(* Channels.                                                               *)

Registered(name) == {i \in Ids : channels[i].name = name}

(* A full table answers before the name is looked up.                      *)
RegisteredId(name) ==
  CASE Len(channels) >= MAX_LOG_CHANNELS -> INVALID
    [] Len(channels) < MAX_LOG_CHANNELS /\ Registered(name) # {} -> CHOOSE i \in Registered(name) : TRUE
    [] OTHER -> Len(channels) + 1

fl_log_register_channel(name) ==
  LET id == RegisteredId(name)
  IN  /\ channels' = IF id \in Ids \cup {INVALID} THEN channels
                     ELSE Append(channels, [name |-> name, level |-> current, enabled |-> TRUE])
      /\ handed' = handed \cup {<<name, id>>}

Register(t, name) ==
  /\ Begins(t, Idle) /\ fl_log_register_channel(name)
  /\ UNCHANGED <<current, default, cache, file, wrote>>

(* channel_id of the bridge, once for each name.                           *)
channel_id(t, name) ==
  /\ cache[name] = -1
  /\ Begins(t, Idle) /\ fl_log_register_channel(name)
  /\ cache' = [cache EXCEPT ![name] = RegisteredId(name)]
  /\ UNCHANGED <<current, default, file, wrote>>

fl_log_channel_set_level(t, id, level) ==
  /\ Begins(t, Idle)
  /\ channels' = [channels EXCEPT ![id].level = level]
  /\ UNCHANGED <<current, default, cache, handed, file, wrote>>

fl_log_channel_enable(t, id, enabled) ==
  /\ Begins(t, Idle)
  /\ channels' = [channels EXCEPT ![id].enabled = enabled]
  /\ UNCHANGED <<current, default, cache, handed, file, wrote>>

(* channel_info_read and the test that follows it.                         *)
Passes(id, level) ==
  IF id \in Ids THEN channels[id].enabled /\ level >= channels[id].level ELSE level >= 1

(* ensure_default_channel looks without a lock, registers CORE and sets    *)
(* its level, three steps that any thread may come between.                *)
ensure_default_channel(t) ==
  /\ At(t, "ensure")
  /\ IF default # INVALID
     THEN Goes(t, pc[t].then) /\ UNCHANGED <<channels, default, handed>>
     ELSE /\ fl_log_register_channel("CORE")
          /\ default' = RegisteredId("CORE")
          /\ Goes(t, [op |-> "core", then |-> pc[t].then])
  /\ UNCHANGED <<current, cache, file, wrote>>

core_level(t) ==
  /\ At(t, "core") /\ Goes(t, pc[t].then)
  /\ channels' = IF default \in Ids THEN [channels EXCEPT ![default].level = current] ELSE channels
  /\ UNCHANGED <<current, default, cache, handed, file, wrote>>

fl_log_set_level(t, level) ==
  /\ Begins(t, [op |-> "ensure", then |-> [op |-> "levels", level |-> level]])
  /\ current' = level
  /\ UNCHANGED <<channels, default, cache, handed, file, wrote>>

set_every_level(t) ==
  /\ At(t, "levels") /\ Goes(t, Idle)
  /\ channels' = [i \in Ids |-> [channels[i] EXCEPT !.level = pc[t].level]]
  /\ UNCHANGED <<current, default, cache, handed, file, wrote>>

-----------------------------------------------------------------------------
(* A message passes the channel twice, as vmessage and as the formatted    *)
(* one, goes to stderr, and to the file if one is seen open.               *)

Filter(id, level, left) == [op |-> "filter", id |-> id, level |-> level, left |-> left]

fl_log_message(t, level) ==
  /\ Begins(t, [op |-> "ensure", then |-> Filter(-1, level, 2)])
  /\ UNCHANGED <<table, file, wrote>>

(* fl_log_c_message, and fl_log_c_message_formatted from the bridge.       *)
fl_log_c_message(t, id, level, left) ==
  /\ Begins(t, Filter(id, level, left))
  /\ UNCHANGED <<table, file, wrote>>

filter(t) ==
  LET id == IF pc[t].id = -1 THEN default ELSE pc[t].id
  IN  /\ At(t, "filter")
      /\ Goes(t, CASE ~Passes(id, pc[t].level) -> Idle
                   [] Passes(id, pc[t].level) /\ pc[t].left = 2 -> Filter(id, pc[t].level, 1)
                   [] OTHER -> [op |-> "emit"])
      /\ UNCHANGED <<table, file, wrote>>

emit(t) ==
  /\ At(t, "emit")
  /\ Goes(t, IF fd > 0 THEN [op |-> "write", seen |-> fd] ELSE Idle)
  /\ UNCHANGED <<table, file, wrote>>

(* Mutant: the handle seen before the lock is written to.                  *)
WriteUnchecked(t) ==
  /\ At(t, "write") /\ Goes(t, Idle)
  /\ wrote' = wrote \cup {[to |-> pc[t].seen, open |-> unclosed]}
  /\ UNCHANGED <<table, file>>

log_file_write(t) ==
  /\ At(t, "write") /\ Goes(t, Idle)
  /\ wrote' = IF fd > 0 THEN wrote \cup {[to |-> fd, open |-> unclosed]} ELSE wrote
  /\ UNCHANGED <<table, file>>

-----------------------------------------------------------------------------
(* The file.  One thread at a time opens it.                               *)

(* The last log becomes .old, if it exists.                                *)
fl_log_file_init(t) ==
  /\ sessions < MaxOpens
  /\ OneGuard => guards = {}
  /\ \A u \in Threads : ~At(u, "swap")
  /\ Begins(t, [op |-> "swap"])
  /\ disk' = IF disk.log # 0 THEN [log |-> 0, old |-> disk.log] ELSE disk
  /\ UNCHANGED <<table, fd, path, sessions, unclosed, guards, wrote>>

(* The directory cannot be had: nothing changes.                           *)
no_directory(t) == Begins(t, Idle) /\ UNCHANGED <<table, file, wrote>>

swap(t) ==
  /\ At(t, "swap") /\ Goes(t, Idle)
  /\ \/ /\ sessions' = sessions + 1
        /\ fd' = sessions' /\ path' = TRUE
        /\ unclosed' = (unclosed \ {fd}) \cup {fd'}
        /\ disk' = [disk EXCEPT !.log = fd']
        /\ guards' = guards \cup {fd'}
     \/ /\ fd' = 0 /\ unclosed' = unclosed \ {fd}
        /\ UNCHANGED <<path, sessions, disk, guards>>
  /\ UNCHANGED <<table, wrote>>

(* A guard is dropped: whatever session is open now is closed.             *)
fl_log_file_shutdown(t, guard) ==
  /\ Begins(t, Idle)
  /\ guards' = guards \ {guard}
  /\ fd' = 0 /\ unclosed' = unclosed \ {fd}
  /\ UNCHANGED <<table, path, disk, sessions, wrote>>

Init ==
  /\ channels = << >> /\ current = 0 /\ default = INVALID
  /\ cache = [n \in Names \cup {"CORE"} |-> -1] /\ handed = {}
  /\ fd = 0 /\ path = FALSE /\ disk = [log |-> 0, old |-> 0]
  /\ sessions = 0 /\ unclosed = {} /\ guards = {} /\ wrote = {}
  /\ pc = [t \in Threads |-> Idle] /\ calls = [t \in Threads |-> 0]

Next ==
  \E t \in Threads :
    \/ \E n \in Names \cup {"CORE"} : Register(t, n) \/ channel_id(t, n)
    \/ \E i \in Ids, l \in Levels : fl_log_channel_set_level(t, i, l)
    \/ \E i \in Ids, b \in BOOLEAN : fl_log_channel_enable(t, i, b)
    \/ \E l \in Levels : fl_log_set_level(t, l) \/ fl_log_message(t, l)
    \/ \E i \in Ids \cup {INVALID}, l \in Levels, n \in {1, 2} : fl_log_c_message(t, i, l, n)
    \/ ensure_default_channel(t) \/ core_level(t) \/ set_every_level(t)
    \/ filter(t) \/ emit(t) \/ log_file_write(t)
    \/ fl_log_file_init(t) \/ no_directory(t) \/ swap(t)
    \/ \E g \in guards : fl_log_file_shutdown(t, g)

Spec == Init /\ [][Next]_vars

-----------------------------------------------------------------------------
(* NamesAreChannels: no name has two channels, an id keeps its name, and a *)
(* registration fails only once the table is full (log.c:61-97).           *)
NamesAreChannels ==
  /\ \A i, j \in Ids : channels[i].name = channels[j].name => i = j
  /\ \A h \in handed : h[2] \in Ids => channels[h[2]].name = h[1]
  /\ (\E h \in handed : h[2] = INVALID) => Len(channels) = MAX_LOG_CHANNELS

(* FileIsSound: at most one handle is open and it is the one messages go   *)
(* to, no message is written to a handle that was closed meanwhile, and    *)
(* the log before the present one is in .old (log.c:159-248).              *)
FileIsSound ==
  /\ unclosed = {fd} \ {0}
  /\ \A w \in wrote : w.to \in w.open
  /\ disk.log > 1 => disk.old = disk.log - 1
  /\ OneGuard => \A g \in guards : fd = g

(* LogIsSound: the table and the file stay sound whatever threads do with   *)
(* both at once (log.c:61-248).                                             *)
LogIsSound == NamesAreChannels /\ FileIsSound
=============================================================================
