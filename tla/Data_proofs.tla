---------------------------- MODULE Data_proofs -----------------------------
(***************************************************************************)
(* Proofs about the log and the memory of a thread: its strings, its pools,*)
(* its hash maps, its scratch arenas and the heap of blocks they can be    *)
(* built on.  Each part begins with the argument it follows.               *)
(***************************************************************************)
EXTENDS Log, Memory, Tlsf, FiniteSetTheorems, SequenceTheorems, WellFoundedInduction, TLAPS

-----------------------------------------------------------------------------
(***************************************************************************)
(* Proofs about Log, for any number of threads, names, levels and calls:   *)
(* a name has one channel, and the file that messages go to is open.       *)
(*                                                                         *)
(* The argument: ids handed out never lie past the table, so that a later  *)
(* channel cannot take over the id of an earlier answer.  And from the     *)
(* rotation of the old log until the new one is in place, which one thread *)
(* does at a time, the log is missing and its predecessor is in .old.      *)
(***************************************************************************)

(* What the model says of its constants.                                   *)
ConstantsOK == 0 \in Levels /\ MAX_LOG_CHANNELS \in Nat

-----------------------------------------------------------------------------
(* The invariant.                                                          *)

AllNames == Names \cup {"CORE"}
Channel  == [name : AllNames, level : Levels, enabled : BOOLEAN]

Later == [op : {"levels"}, level : Levels]
         \cup [op : {"filter"}, id : Nat \cup {-1}, level : Levels, left : {1, 2}]
Swap  == [op |-> "swap"]
Calm  == {Idle} \cup Later \cup [op : {"ensure", "core"}, then : Later]
         \cup [op : {"emit"}] \cup [op : {"write"}, seen : Nat]
Steps == Calm \cup {Swap}

ThreadsOK == pc \in [Threads -> Steps] /\ calls \in [Threads -> Nat]

TableTyped ==
  /\ channels \in Seq(Channel) /\ Len(channels) <= MAX_LOG_CHANNELS
  /\ current \in Levels /\ default \in Nat /\ cache \in [AllNames -> Nat \cup {-1}]
  /\ handed \in SUBSET (AllNames \X Nat)

(* No id that was handed out lies past the table.                          *)
IdsOK == \A h \in handed : h[2] <= Len(channels)

TableOK == TableTyped /\ IdsOK /\ NamesAreChannels

FileTyped ==
  /\ fd \in Nat /\ path \in BOOLEAN /\ disk \in [log : Nat, old : Nat] /\ sessions \in Nat
  /\ unclosed \in SUBSET Nat /\ guards \in SUBSET Nat

(* The log is the last session, or missing since it was rotated.           *)
DiskOK ==
  /\ disk.log \in {0, sessions}
  /\ disk.log = 0 /\ sessions > 0 => disk.old = sessions
  /\ disk.log > 1 => disk.old = disk.log - 1

(* One thread at a time swaps, with the log out of the way.                *)
Swapping == {t \in Threads : pc[t] = Swap}
SwapOK ==
  /\ \A t, u \in Swapping : t = u
  /\ Swapping # {} => disk.log = 0 /\ (OneGuard => guards = {})

FileOK == FileTyped /\ DiskOK /\ SwapOK /\ FileIsSound

LInv == ThreadsOK /\ TableOK /\ FileOK

-----------------------------------------------------------------------------
(* Threads.                                                                *)

(* A thread takes a step that is not the swap.                             *)
Moves(t) == \E step \in Calm : pc' = [pc EXCEPT ![t] = step]
Counts   == calls' \in [Threads -> Nat]

LEMMA StepsMean ==
  /\ \A step \in Calm : step # Swap /\ step.op # "swap"
  /\ \A step \in Steps :
       /\ step.op \in {"ensure", "core"} => step.then \in Later
       /\ step.op = "levels" => step.level \in Levels
       /\ step.op = "filter" => step.id \in Nat \cup {-1} /\ step.level \in Levels
       /\ step.op = "swap" => step = Swap
  /\ Idle \in Calm /\ Later \subseteq Calm /\ [op |-> "emit"] \in Calm
BY DEF Steps, Calm, Later, Swap, Idle

LEMMA BeginsMoves ==
  ASSUME ThreadsOK, NEW t \in Threads, NEW step \in Calm, Begins(t, step)
  PROVE  Moves(t) /\ Counts /\ pc[t] # Swap
<1>1. Moves(t)
  BY DEF Begins, Moves
<1>2. Counts
  BY DEF ThreadsOK, Begins, Counts
<1>3. pc[t] = Idle /\ Idle # Swap
  BY StepsMean DEF Begins
<1> QED
  BY <1>1, <1>2, <1>3

LEMMA GoesMoves ==
  ASSUME ThreadsOK, NEW t \in Threads, NEW step \in Calm, Goes(t, step)
  PROVE  Moves(t) /\ Counts
BY DEF ThreadsOK, Goes, Moves, Counts

LEMMA MovesKeep ==
  ASSUME ThreadsOK, NEW t \in Threads, Moves(t), Counts
  PROVE  ThreadsOK' /\ Swapping' = Swapping \ {t}
<1>1. PICK step \in Calm : pc' = [pc EXCEPT ![t] = step]
  BY DEF Moves
<1>2. step # Swap /\ step \in Steps
  BY StepsMean DEF Steps
<1> QED
  BY <1>1, <1>2 DEF ThreadsOK, Swapping, Counts

(* A step that leaves the file alone.                                      *)
LEMMA FileKept ==
  ASSUME ThreadsOK, FileOK, NEW t \in Threads, Moves(t), Counts, UNCHANGED <<file, wrote>>
  PROVE  FileOK'
<1>1. Swapping' = Swapping \ {t}
  BY MovesKeep
<1> QED
  BY <1>1 DEF FileOK, FileTyped, DiskOK, SwapOK, FileIsSound, file

LEMMA TableKept ==
  ASSUME TableOK, UNCHANGED table
  PROVE  TableOK'
BY DEF TableOK, TableTyped, IdsOK, NamesAreChannels, Ids, table

-----------------------------------------------------------------------------
(* The table.                                                              *)

LEMMA ChannelsTyped ==
  ASSUME TableOK
  PROVE  /\ Len(channels) \in Nat /\ DOMAIN channels = Ids /\ channels \in [Ids -> Channel]
         /\ \A i \in Ids : channels[i] \in Channel /\ channels[i].name \in AllNames
<1>1. channels \in Seq(Channel)
  BY DEF TableOK, TableTyped
<1>2. Len(channels) \in Nat /\ DOMAIN channels = Ids /\ channels \in [Ids -> Channel]
  BY <1>1, LenProperties DEF Ids
<1> QED
  BY <1>2 DEF Channel

(* The answer to a registration, and the table after it.                   *)
LEMMA RegisterMeans ==
  ASSUME ConstantsOK, TableOK, NEW name \in AllNames, fl_log_register_channel(name)
  PROVE  /\ RegisteredId(name) \in Nat /\ RegisteredId(name) <= Len(channels')
         /\ channels' \in Seq(Channel) /\ Len(channels') <= MAX_LOG_CHANNELS
         /\ handed' = handed \cup {<<name, RegisteredId(name)>>}
         /\ IdsOK' /\ NamesAreChannels'
<1> DEFINE n == Len(channels)
<1> DEFINE id == RegisteredId(name)
<1>1. /\ n \in Nat /\ DOMAIN channels = 1..n /\ Ids = 1..n /\ channels \in Seq(Channel)
      /\ n <= MAX_LOG_CHANNELS /\ MAX_LOG_CHANNELS \in Nat
  BY ChannelsTyped DEF Ids, TableOK, TableTyped, ConstantsOK
<1>2. handed' = handed \cup {<<name, id>>}
  BY DEF fl_log_register_channel
<1>3. /\ \A h \in handed : h[2] \in Nat /\ h[2] <= n /\ (h[2] \in Ids => channels[h[2]].name = h[1])
      /\ \A i, j \in Ids : channels[i].name = channels[j].name => i = j
      /\ (\E h \in handed : h[2] = INVALID) => n = MAX_LOG_CHANNELS
  BY DEF TableOK, TableTyped, IdsOK, NamesAreChannels
<1>4. CASE n >= MAX_LOG_CHANNELS
  <2>1. id = INVALID
    BY <1>1, <1>4 DEF RegisteredId
  <2>2. channels' = channels /\ n = MAX_LOG_CHANNELS
    <3>1. n = MAX_LOG_CHANNELS
      <4>1. n \in Nat /\ n <= MAX_LOG_CHANNELS /\ MAX_LOG_CHANNELS \in Nat
        BY <1>1
      <4> HIDE DEF n, id
      <4> QED
        BY <1>4, <4>1
    <3>2. channels' = channels
      BY <2>1 DEF fl_log_register_channel
    <3> QED
      BY <3>1, <3>2
  <2>3. Ids' = Ids
    BY <2>2 DEF Ids
  <2> HIDE DEF id
  <2>4. \A h \in handed' : h \in handed \/ (h[1] = name /\ h[2] = INVALID)
    BY <1>2, <2>1
  <2>5. IdsOK' /\ NamesAreChannels'
    BY <1>1, <1>3, <2>2, <2>3, <2>4 DEF IdsOK, NamesAreChannels, INVALID
  <2> QED
    BY <1>1, <1>2, <2>1, <2>2, <2>5 DEF INVALID, id
<1>5. CASE n < MAX_LOG_CHANNELS /\ Registered(name) # {}
  <2>1. id \in Registered(name)
    BY <1>5 DEF RegisteredId
  <2>2. id \in 1..n /\ channels[id].name = name
    BY <1>1, <2>1 DEF Registered
  <2>3. channels' = channels
    BY <1>1, <2>2 DEF fl_log_register_channel
  <2>4. Ids' = Ids
    BY <2>3 DEF Ids
  <2> HIDE DEF id
  <2>5. \A h \in handed' : h \in handed \/ (h[1] = name /\ h[2] = id)
    BY <1>2
  <2>6. IdsOK'
    <3>1. \A h \in handed' : h[2] <= n
      <4>1. n \in Nat /\ id <= n
        BY <1>1, <2>2
      <4> HIDE DEF n
      <4> QED
        BY <1>3, <2>5, <4>1
    <3> QED
      BY <2>3, <3>1 DEF IdsOK
  <2>7. NamesAreChannels'
    <3>1. \A h \in handed' : h[2] \in Ids => channels[h[2]].name = h[1]
      BY <1>3, <2>2, <2>5
    <3>2. (\E h \in handed' : h[2] = INVALID) => n = MAX_LOG_CHANNELS
      BY <1>3, <2>2, <2>5 DEF INVALID
    <3> QED
      BY <1>3, <2>3, <2>4, <3>1, <3>2 DEF NamesAreChannels
  <2> QED
    BY <1>1, <1>2, <2>2, <2>3, <2>6, <2>7 DEF id
<1>6. CASE n < MAX_LOG_CHANNELS /\ Registered(name) = {}
  <2>1. id = n + 1
    BY <1>1, <1>6 DEF RegisteredId
  <2>2. PICK c : c = [name |-> name, level |-> current, enabled |-> TRUE]
    OBVIOUS
  <2>3. c \in Channel /\ c.name = name
    BY <2>2 DEF Channel, TableOK, TableTyped
  <2>4. channels' = Append(channels, c)
    BY <1>1, <2>1, <2>2 DEF fl_log_register_channel, INVALID
  <2>5. /\ channels' \in Seq(Channel) /\ Len(channels') = n + 1 /\ channels'[n + 1] = c
        /\ \A i \in 1..n : channels'[i] = channels[i]
    BY <1>1, <2>3, <2>4, AppendProperties
  <2>6. Ids' = 1..n + 1
    BY <2>5 DEF Ids
  <2>7. \A i \in 1..n : channels[i].name # name
    BY <1>1, <1>6 DEF Registered
  <2> HIDE DEF id, n
  <2>8. IdsOK'
    BY <1>1, <1>2, <1>3, <2>1, <2>5 DEF IdsOK
  <2>9. \A i, j \in Ids' : channels'[i].name = channels'[j].name => i = j
    BY <1>1, <1>3, <2>3, <2>5, <2>6, <2>7
  <2>10. \A h \in handed' : h[2] \in Ids' => channels'[h[2]].name = h[1]
    BY <1>1, <1>2, <1>3, <2>1, <2>3, <2>5, <2>6
  <2>11. ~ \E h \in handed' : h[2] = INVALID
    BY <1>1, <1>2, <1>3, <1>6, <2>1 DEF INVALID
  <2> QED
    BY <1>1, <1>2, <1>6, <2>1, <2>5, <2>8, <2>9, <2>10, <2>11 DEF NamesAreChannels, id
<1> QED
  BY <1>1, <1>4, <1>5, <1>6

(* A registration, and a change of levels that keeps the names.            *)
Others == current' \in Levels /\ default' \in Nat /\ cache' \in [AllNames -> Nat \cup {-1}]

LEMMA Registers ==
  ASSUME ConstantsOK, TableOK, NEW name \in AllNames, fl_log_register_channel(name), Others
  PROVE  TableOK'
<1>1. handed' \in SUBSET (AllNames \X Nat)
  BY RegisterMeans DEF TableOK, TableTyped
<1> QED
  BY <1>1, RegisterMeans DEF TableOK, TableTyped, Others

LEMMA KeepsNames ==
  ASSUME TableOK, channels' \in Seq(Channel), Len(channels') = Len(channels),
         \A i \in Ids : channels'[i].name = channels[i].name, handed' = handed, Others
  PROVE  TableOK'
<1>1. Ids' = Ids
  BY DEF Ids
<1> QED
  BY <1>1 DEF TableOK, TableTyped, IdsOK, NamesAreChannels, Others

LEMMA KeepsOthers ==
  ASSUME TableOK, UNCHANGED <<current, default, cache>>
  PROVE  Others
BY DEF TableOK, TableTyped, Others

LEMMA RegisterStep ==
  ASSUME ConstantsOK, LInv, NEW t \in Threads, NEW name \in AllNames, Register(t, name)
  PROVE  LInv'
<1>1. /\ Begins(t, Idle) /\ fl_log_register_channel(name) /\ UNCHANGED <<file, wrote>>
      /\ UNCHANGED <<current, default, cache>>
  BY DEF Register
<1>2. Moves(t) /\ Counts
  BY <1>1, StepsMean, BeginsMoves DEF LInv
<1> QED
  BY <1>1, <1>2, MovesKeep, FileKept, KeepsOthers, Registers DEF LInv

LEMMA ChannelIdStep ==
  ASSUME ConstantsOK, LInv, NEW t \in Threads, NEW name \in AllNames, channel_id(t, name)
  PROVE  LInv'
<1>1. /\ Begins(t, Idle) /\ fl_log_register_channel(name) /\ UNCHANGED <<file, wrote>>
      /\ UNCHANGED <<current, default>> /\ cache' = [cache EXCEPT ![name] = RegisteredId(name)]
  BY DEF channel_id
<1>2. Moves(t) /\ Counts
  BY <1>1, StepsMean, BeginsMoves DEF LInv
<1>3. RegisteredId(name) \in Nat
  BY <1>1, RegisterMeans DEF LInv
<1>4. Others
  BY <1>1, <1>3 DEF LInv, TableOK, TableTyped, Others
<1> QED
  BY <1>1, <1>2, <1>4, MovesKeep, FileKept, Registers DEF LInv

(* One channel gets another level, or is switched.                         *)
LEMMA OneChannel ==
  ASSUME TableOK, NEW i \in Ids, NEW c \in Channel, c.name = channels[i].name,
         channels' = [channels EXCEPT ![i] = c], handed' = handed, Others
  PROVE  TableOK'
<1>1. channels \in Seq(Channel) /\ i \in 1..Len(channels)
  BY DEF TableOK, TableTyped, Ids
<1>2. /\ channels' \in Seq(Channel) /\ Len(channels') = Len(channels)
      /\ \A j \in 1..Len(channels) : channels'[j] = IF j = i THEN c ELSE channels[j]
  BY <1>1, ExceptSeq
<1> QED
  BY <1>2, KeepsNames DEF Ids

LEMMA SetLevelStep ==
  ASSUME LInv, NEW t \in Threads, NEW i \in Ids, NEW level \in Levels,
         fl_log_channel_set_level(t, i, level)
  PROVE  LInv'
<1>1. /\ Begins(t, Idle) /\ UNCHANGED <<current, default, cache, handed>> /\ UNCHANGED <<file, wrote>>
      /\ channels' = [channels EXCEPT ![i] = [channels[i] EXCEPT !.level = level]]
  BY DEF fl_log_channel_set_level
<1>2. Moves(t) /\ Counts
  BY <1>1, StepsMean, BeginsMoves DEF LInv
<1>3. PICK c : c = [channels[i] EXCEPT !.level = level]
  OBVIOUS
<1>4. c \in Channel /\ c.name = channels[i].name
  BY <1>3, ChannelsTyped DEF LInv, Channel
<1>5. TableOK'
  BY <1>1, <1>3, <1>4, OneChannel, KeepsOthers DEF LInv
<1> QED
  BY <1>1, <1>2, <1>5, MovesKeep, FileKept DEF LInv

LEMMA EnableStep ==
  ASSUME LInv, NEW t \in Threads, NEW i \in Ids, NEW enabled \in BOOLEAN,
         fl_log_channel_enable(t, i, enabled)
  PROVE  LInv'
<1>1. /\ Begins(t, Idle) /\ UNCHANGED <<current, default, cache, handed>> /\ UNCHANGED <<file, wrote>>
      /\ channels' = [channels EXCEPT ![i] = [channels[i] EXCEPT !.enabled = enabled]]
  BY DEF fl_log_channel_enable
<1>2. Moves(t) /\ Counts
  BY <1>1, StepsMean, BeginsMoves DEF LInv
<1>3. PICK c : c = [channels[i] EXCEPT !.enabled = enabled]
  OBVIOUS
<1>4. c \in Channel /\ c.name = channels[i].name
  BY <1>3, ChannelsTyped DEF LInv, Channel
<1>5. TableOK'
  BY <1>1, <1>3, <1>4, OneChannel, KeepsOthers DEF LInv
<1> QED
  BY <1>1, <1>2, <1>5, MovesKeep, FileKept DEF LInv

-----------------------------------------------------------------------------
(* The default channel, and the level of every channel.                    *)

LEMMA LaterIsCalm ==
  ASSUME NEW then \in Later
  PROVE  /\ then \in Calm
         /\ [op |-> "ensure", then |-> then] \in Calm /\ [op |-> "core", then |-> then] \in Calm
BY DEF Calm

LEMMA EnsureStep ==
  ASSUME ConstantsOK, LInv, NEW t \in Threads, ensure_default_channel(t)
  PROVE  LInv'
<1>1. pc[t] \in Steps /\ pc[t].op = "ensure" /\ UNCHANGED <<current, cache>> /\ UNCHANGED <<file, wrote>>
  BY DEF ensure_default_channel, At, LInv, ThreadsOK
<1>2. PICK then \in Later : then = pc[t].then
  BY <1>1, StepsMean
<1>3. CASE default # INVALID
  <2>1. Goes(t, then) /\ UNCHANGED table
    BY <1>2, <1>3 DEF ensure_default_channel, table
  <2>2. Moves(t) /\ Counts
    BY <2>1, LaterIsCalm, GoesMoves DEF LInv
  <2> QED
    BY <1>1, <2>1, <2>2, MovesKeep, FileKept, TableKept DEF LInv
<1>4. CASE default = INVALID
  <2>1. /\ fl_log_register_channel("CORE") /\ default' = RegisteredId("CORE")
        /\ Goes(t, [op |-> "core", then |-> then])
    BY <1>2, <1>4 DEF ensure_default_channel
  <2>2. Moves(t) /\ Counts
    BY <2>1, LaterIsCalm, GoesMoves DEF LInv
  <2>3. "CORE" \in AllNames
    BY DEF AllNames
  <2>4. Others
    BY <1>1, <2>1, <2>3, RegisterMeans DEF LInv, TableOK, TableTyped, Others
  <2> QED
    BY <1>1, <2>1, <2>2, <2>3, <2>4, MovesKeep, FileKept, Registers DEF LInv
<1> QED
  BY <1>3, <1>4

LEMMA CoreLevelStep ==
  ASSUME LInv, NEW t \in Threads, core_level(t)
  PROVE  LInv'
<1>1. /\ pc[t] \in Steps /\ pc[t].op = "core" /\ Goes(t, pc[t].then)
      /\ UNCHANGED <<current, default, cache, handed>> /\ UNCHANGED <<file, wrote>>
  BY DEF core_level, At, LInv, ThreadsOK
<1>2. pc[t].then \in Calm
  BY <1>1, StepsMean, LaterIsCalm
<1>3. Moves(t) /\ Counts
  BY <1>1, <1>2, GoesMoves DEF LInv
<1>4. Others
  BY <1>1, KeepsOthers DEF LInv
<1>5. CASE default \in Ids
  <2>1. PICK i \in Ids : i = default
    BY <1>5
  <2>2. PICK c : c = [channels[i] EXCEPT !.level = current]
    OBVIOUS
  <2>3. channels' = [channels EXCEPT ![i] = c]
    BY <1>5, <2>1, <2>2 DEF core_level
  <2>4. c \in Channel /\ c.name = channels[i].name
    <3>1. channels[i] \in Channel /\ current \in Levels
      BY ChannelsTyped DEF LInv, TableOK, TableTyped
    <3> QED
      BY <2>2, <3>1 DEF Channel
  <2>5. TableOK'
    BY <1>1, <1>4, <2>3, <2>4, OneChannel DEF LInv
  <2> QED
    BY <1>1, <1>3, <2>5, MovesKeep, FileKept DEF LInv
<1>6. CASE default \notin Ids
  <2>1. UNCHANGED table
    BY <1>1, <1>6 DEF core_level, table
  <2> QED
    BY <1>1, <1>3, <2>1, MovesKeep, FileKept, TableKept DEF LInv
<1> QED
  BY <1>5, <1>6

LEMMA LogSetLevelStep ==
  ASSUME LInv, NEW t \in Threads, NEW level \in Levels, fl_log_set_level(t, level)
  PROVE  LInv'
<1>1. /\ Begins(t, [op |-> "ensure", then |-> [op |-> "levels", level |-> level]])
      /\ current' = level /\ UNCHANGED <<channels, default, cache, handed>> /\ UNCHANGED <<file, wrote>>
  BY DEF fl_log_set_level
<1>2. [op |-> "levels", level |-> level] \in Later
  BY DEF Later
<1>3. Moves(t) /\ Counts
  BY <1>1, <1>2, LaterIsCalm, BeginsMoves DEF LInv
<1>4. Others
  BY <1>1 DEF LInv, TableOK, TableTyped, Others
<1>5. TableOK'
  BY <1>1, <1>4, KeepsNames DEF LInv, TableOK, TableTyped
<1> QED
  BY <1>1, <1>3, <1>5, MovesKeep, FileKept DEF LInv

LEMMA SetEveryLevelStep ==
  ASSUME LInv, NEW t \in Threads, set_every_level(t)
  PROVE  LInv'
<1>1. /\ pc[t] \in Steps /\ pc[t].op = "levels" /\ Goes(t, Idle)
      /\ channels' = [i \in Ids |-> [channels[i] EXCEPT !.level = pc[t].level]]
      /\ UNCHANGED <<current, default, cache, handed>> /\ UNCHANGED <<file, wrote>>
  BY DEF set_every_level, At, LInv, ThreadsOK
<1>2. Moves(t) /\ Counts
  BY <1>1, StepsMean, GoesMoves DEF LInv
<1>3. PICK level \in Levels : level = pc[t].level
  BY <1>1, StepsMean
<1>4. ASSUME NEW i \in Ids
      PROVE  /\ [channels[i] EXCEPT !.level = level] \in Channel
             /\ [channels[i] EXCEPT !.level = level].name = channels[i].name
  <2>1. channels[i] \in Channel
    BY ChannelsTyped DEF LInv
  <2> QED
    BY <2>1 DEF Channel
<1>5. /\ channels' \in [1..Len(channels) -> Channel] /\ Len(channels) \in Nat
      /\ \A i \in Ids : channels'[i].name = channels[i].name
  BY <1>1, <1>3, <1>4, ChannelsTyped DEF Ids, LInv
<1>6. channels' \in Seq(Channel) /\ Len(channels') = Len(channels)
  <2>1. channels' \in Seq(Channel)
    BY <1>5, SeqDef
  <2> QED
    BY <1>5, <2>1, LenProperties
<1>7. TableOK'
  BY <1>1, <1>5, <1>6, KeepsNames, KeepsOthers DEF LInv
<1> QED
  BY <1>1, <1>2, <1>7, MovesKeep, FileKept DEF LInv

-----------------------------------------------------------------------------
(* Messages.                                                               *)

(* A step that only moves its thread.                                      *)
LEMMA PlainStep ==
  ASSUME LInv, NEW t \in Threads, Moves(t), Counts, UNCHANGED <<table, file, wrote>>
  PROVE  LInv'
<1>1. UNCHANGED table /\ UNCHANGED <<file, wrote>>
  OBVIOUS
<1> QED
  BY <1>1, MovesKeep, FileKept, TableKept DEF LInv

LEMMA FilterIsLater ==
  ASSUME NEW id \in Nat \cup {-1}, NEW level \in Levels, NEW left \in {1, 2}
  PROVE  Filter(id, level, left) \in Later
BY DEF Filter, Later

LEMMA MessageStep ==
  ASSUME LInv, NEW t \in Threads, NEW level \in Levels, fl_log_message(t, level)
  PROVE  LInv'
<1>1. /\ Begins(t, [op |-> "ensure", then |-> Filter(-1, level, 2)])
      /\ UNCHANGED <<table, file, wrote>>
  BY DEF fl_log_message
<1>2. Filter(-1, level, 2) \in Later
  BY FilterIsLater
<1>3. Moves(t) /\ Counts
  BY <1>1, <1>2, LaterIsCalm, BeginsMoves DEF LInv
<1> QED
  BY <1>1, <1>3, PlainStep

LEMMA ChannelMessageStep ==
  ASSUME LInv, NEW t \in Threads, NEW id \in Ids \cup {INVALID}, NEW level \in Levels, NEW left \in {1, 2},
         fl_log_c_message(t, id, level, left)
  PROVE  LInv'
<1>1. Begins(t, Filter(id, level, left)) /\ UNCHANGED <<table, file, wrote>>
  BY DEF fl_log_c_message
<1>2. id \in Nat
  BY ChannelsTyped DEF LInv, Ids, INVALID
<1>3. Filter(id, level, left) \in Calm
  BY <1>2, FilterIsLater, LaterIsCalm
<1>4. Moves(t) /\ Counts
  BY <1>1, <1>3, BeginsMoves DEF LInv
<1> QED
  BY <1>1, <1>4, PlainStep

LEMMA FilterStep ==
  ASSUME LInv, NEW t \in Threads, filter(t)
  PROVE  LInv'
<1>1. /\ pc[t] \in Steps /\ pc[t].op = "filter" /\ default \in Nat /\ UNCHANGED <<table, file, wrote>>
  BY DEF filter, At, LInv, ThreadsOK, TableOK, TableTyped
<1>2. PICK id \in Nat \cup {-1} : id = IF pc[t].id = -1 THEN default ELSE pc[t].id
  BY <1>1, StepsMean
<1>3. PICK level \in Levels : level = pc[t].level
  BY <1>1, StepsMean
<1>4. Filter(id, level, 1) \in Calm /\ Idle \in Calm /\ [op |-> "emit"] \in Calm
  BY FilterIsLater, LaterIsCalm, StepsMean
<1>5. Goes(t, CASE ~Passes(id, level) -> Idle
                [] Passes(id, level) /\ pc[t].left = 2 -> Filter(id, level, 1)
                [] OTHER -> [op |-> "emit"])
  BY <1>2, <1>3 DEF filter
<1>6. PICK step \in Calm : Goes(t, step)
  BY <1>4, <1>5
<1>7. Moves(t) /\ Counts
  BY <1>6, GoesMoves DEF LInv
<1> QED
  BY <1>1, <1>7, PlainStep

LEMMA EmitStep ==
  ASSUME LInv, NEW t \in Threads, emit(t)
  PROVE  LInv'
<1>1. UNCHANGED <<table, file, wrote>> /\ Goes(t, IF fd > 0 THEN [op |-> "write", seen |-> fd] ELSE Idle)
  BY DEF emit
<1>2. [op |-> "write", seen |-> fd] \in Calm /\ Idle \in Calm
  BY DEF LInv, FileOK, FileTyped, Calm
<1>3. PICK step \in Calm : Goes(t, step)
  BY <1>1, <1>2
<1>4. Moves(t) /\ Counts
  BY <1>3, GoesMoves DEF LInv
<1> QED
  BY <1>1, <1>4, PlainStep

-----------------------------------------------------------------------------
(* The file.                                                               *)

(* The handle that is written to is looked up under the lock.              *)
LEMMA WriteStep ==
  ASSUME LInv, NEW t \in Threads, log_file_write(t)
  PROVE  LInv'
<1>1. /\ Goes(t, Idle) /\ UNCHANGED table /\ UNCHANGED file
      /\ wrote' = IF fd > 0 THEN wrote \cup {[to |-> fd, open |-> unclosed]} ELSE wrote
  BY DEF log_file_write
<1>2. Moves(t) /\ Counts
  BY <1>1, StepsMean, GoesMoves DEF LInv
<1>3. Swapping' = Swapping \ {t}
  BY <1>2, MovesKeep DEF LInv
<1>4. unclosed = {fd} \ {0} /\ \A w \in wrote : w.to \in w.open
  BY DEF LInv, FileOK, FileIsSound
<1>5. \A w \in wrote' : w.to \in w.open
  <2>1. CASE fd > 0
    <3>1. fd \in unclosed
      BY <1>4, <2>1
    <3> QED
      BY <1>1, <1>4, <2>1, <3>1
  <2>2. CASE ~(fd > 0)
    BY <1>1, <1>4, <2>2
  <2> QED
    BY <2>1, <2>2
<1>6. FileOK'
  BY <1>1, <1>3, <1>5 DEF LInv, FileOK, FileTyped, DiskOK, SwapOK, FileIsSound, file
<1> QED
  BY <1>1, <1>2, <1>6, MovesKeep, TableKept DEF LInv

(* The rotation: nobody else is between it and the swap.                   *)
LEMMA InitFileStep ==
  ASSUME LInv, NEW t \in Threads, fl_log_file_init(t)
  PROVE  LInv'
<1>1. /\ Begins(t, Swap) /\ UNCHANGED table /\ UNCHANGED <<fd, path, sessions, unclosed, guards, wrote>>
      /\ disk' = IF disk.log # 0 THEN [log |-> 0, old |-> disk.log] ELSE disk
      /\ OneGuard => guards = {}
      /\ \A u \in Threads : pc[u].op # "swap"
  BY DEF fl_log_file_init, Swap, At
<1>2. pc' = [pc EXCEPT ![t] = Swap] /\ Counts
  BY <1>1 DEF Begins, Counts, LInv, ThreadsOK
<1>3. ThreadsOK' /\ Swapping = {} /\ Swapping' = {t}
  <2>1. Swapping = {}
    BY <1>1 DEF Swapping, Swap
  <2>2. \A u \in Threads : pc'[u] = IF u = t THEN Swap ELSE pc[u]
    BY <1>2 DEF LInv, ThreadsOK
  <2> QED
    BY <1>2, <2>1, <2>2 DEF LInv, ThreadsOK, Swapping, Steps, Counts
<1>4. disk \in [log : Nat, old : Nat] /\ sessions \in Nat /\ DiskOK
  BY DEF LInv, FileOK, FileTyped
<1>5. disk' \in [log : Nat, old : Nat] /\ disk'.log = 0 /\ (sessions > 0 => disk'.old = sessions)
  <2>1. CASE disk.log # 0
    BY <1>1, <1>4, <2>1 DEF DiskOK
  <2>2. CASE disk.log = 0
    BY <1>1, <1>4, <2>2 DEF DiskOK
  <2> QED
    BY <2>1, <2>2
<1>6. FileOK'
  BY <1>1, <1>3, <1>5 DEF LInv, FileOK, FileTyped, DiskOK, SwapOK, FileIsSound
<1> QED
  BY <1>1, <1>3, <1>6, TableKept DEF LInv

LEMMA NoDirectoryStep ==
  ASSUME LInv, NEW t \in Threads, no_directory(t)
  PROVE  LInv'
BY StepsMean, BeginsMoves, PlainStep DEF no_directory, LInv

(* The new file takes the place of the one that was open, or the open      *)
(* fails and none is.                                                      *)
LEMMA SwapStep ==
  ASSUME LInv, NEW t \in Threads, swap(t)
  PROVE  LInv'
<1>1. Goes(t, Idle) /\ UNCHANGED table /\ wrote' = wrote /\ pc[t] = Swap
  <2>1. pc[t] \in Steps /\ pc[t].op = "swap"
    BY DEF swap, At, LInv, ThreadsOK
  <2> QED
    BY <2>1, StepsMean DEF swap
<1>2. Moves(t) /\ Counts
  BY <1>1, StepsMean, GoesMoves DEF LInv
<1>3. t \in Swapping /\ Swapping = {t} /\ disk.log = 0 /\ (OneGuard => guards = {})
  <2>1. t \in Swapping
    BY <1>1 DEF Swapping
  <2> QED
    BY <2>1 DEF LInv, FileOK, SwapOK
<1>4. Swapping' = {}
  BY <1>2, <1>3, MovesKeep DEF LInv
<1>5. /\ FileTyped /\ (sessions > 0 => disk.old = sessions)
      /\ unclosed = {fd} \ {0} /\ \A w \in wrote : w.to \in w.open
  BY <1>3 DEF LInv, FileOK, DiskOK, FileIsSound
<1>6. CASE /\ sessions' = sessions + 1 /\ fd' = sessions' /\ path' = TRUE
           /\ unclosed' = (unclosed \ {fd}) \cup {fd'}
           /\ disk' = [disk EXCEPT !.log = fd']
           /\ guards' = guards \cup {fd'}
  <2>1. sessions' \in Nat /\ sessions' > 0 /\ fd' \in Nat /\ fd' # 0
    BY <1>5, <1>6 DEF FileTyped
  <2>2. disk' \in [log : Nat, old : Nat] /\ disk'.log = sessions' /\ disk'.old = disk.old
    BY <1>5, <1>6, <2>1 DEF FileTyped
  <2>3. DiskOK' /\ (disk'.log > 1 => disk'.old = disk'.log - 1)
    BY <1>5, <1>6, <2>1, <2>2 DEF DiskOK, FileTyped
  <2>4. unclosed' = {fd'} \ {0} /\ unclosed' \in SUBSET Nat
    BY <1>5, <1>6, <2>1
  <2>5. guards' \in SUBSET Nat /\ (OneGuard => \A g \in guards' : fd' = g)
    BY <1>3, <1>5, <1>6, <2>1 DEF FileTyped
  <2>6. FileOK'
    BY <1>1, <1>4, <1>5, <1>6, <2>1, <2>2, <2>3, <2>4, <2>5
       DEF FileOK, FileTyped, SwapOK, FileIsSound
  <2> QED
    BY <1>1, <1>2, <2>6, MovesKeep, TableKept DEF LInv
<1>7. CASE fd' = 0 /\ unclosed' = unclosed \ {fd} /\ UNCHANGED <<path, sessions, disk, guards>>
  <2>1. unclosed' = {fd'} \ {0} /\ unclosed' \in SUBSET Nat
    BY <1>5, <1>7
  <2>2. FileOK'
    BY <1>1, <1>3, <1>4, <1>5, <1>7, <2>1 DEF LInv, FileOK, FileTyped, DiskOK, SwapOK, FileIsSound
  <2> QED
    BY <1>1, <1>2, <2>2, MovesKeep, TableKept DEF LInv
<1> QED
  BY <1>6, <1>7 DEF swap

(* A guard that goes closes what is open; with one guard that is its own.  *)
LEMMA ShutdownStep ==
  ASSUME LInv, NEW t \in Threads, NEW guard \in guards, fl_log_file_shutdown(t, guard)
  PROVE  LInv'
<1>1. /\ Begins(t, Idle) /\ UNCHANGED table /\ UNCHANGED <<path, disk, sessions, wrote>>
      /\ guards' = guards \ {guard} /\ fd' = 0 /\ unclosed' = unclosed \ {fd}
  BY DEF fl_log_file_shutdown
<1>2. Moves(t) /\ Counts
  BY <1>1, StepsMean, BeginsMoves DEF LInv
<1>3. Swapping' = Swapping \ {t}
  BY <1>2, MovesKeep DEF LInv
<1>4. FileTyped /\ DiskOK /\ SwapOK /\ FileIsSound
  BY DEF LInv, FileOK
<1>5. unclosed' = {fd'} \ {0} /\ fd' \in Nat /\ unclosed' \in SUBSET Nat /\ guards' \in SUBSET Nat
  BY <1>1, <1>4 DEF FileTyped, FileIsSound
<1>6. OneGuard => guards' = {}
  BY <1>1, <1>4 DEF FileIsSound
<1>7. SwapOK'
  BY <1>1, <1>3, <1>4, <1>6 DEF SwapOK
<1>8. FileOK'
  BY <1>1, <1>4, <1>5, <1>6, <1>7 DEF FileOK, FileTyped, DiskOK, FileIsSound
<1> QED
  BY <1>1, <1>2, <1>8, MovesKeep, TableKept DEF LInv

-----------------------------------------------------------------------------
(* The theorems.                                                           *)

LEMMA InitOK == ConstantsOK /\ Init => LInv
<1> SUFFICES ASSUME ConstantsOK, Init PROVE LInv
  OBVIOUS
<1>1. ThreadsOK /\ Swapping = {}
  BY StepsMean DEF Init, ThreadsOK, Steps, Swapping
<1>2. channels \in Seq(Channel) /\ Len(channels) = 0 /\ Ids = {}
  BY EmptySeq DEF Init, Ids
<1>3. TableOK
  BY <1>2 DEF Init, TableOK, TableTyped, IdsOK, NamesAreChannels, ConstantsOK, INVALID, AllNames
<1>4. FileOK
  <2>1. disk \in [log : Nat, old : Nat] /\ disk.log = 0 /\ sessions = 0
    BY DEF Init
  <2>2. FileTyped
    BY <2>1 DEF Init, FileTyped
  <2>3. DiskOK /\ SwapOK
    BY <1>1, <2>1 DEF DiskOK, SwapOK
  <2>4. FileIsSound
    BY <2>1 DEF Init, FileIsSound
  <2> QED
    BY <2>2, <2>3, <2>4 DEF FileOK
<1> QED
  BY <1>1, <1>3, <1>4 DEF LInv

LEMMA NextOK == ConstantsOK /\ LInv /\ [Next]_vars => LInv'
<1> SUFFICES ASSUME ConstantsOK, LInv, [Next]_vars PROVE LInv'
  OBVIOUS
<1>1. CASE UNCHANGED vars
  <2>1. UNCHANGED table /\ UNCHANGED <<file, wrote>> /\ UNCHANGED <<pc, calls>>
    BY <1>1 DEF vars, table, file
  <2>2. ThreadsOK' /\ Swapping' = Swapping
    BY <2>1 DEF LInv, ThreadsOK, Swapping
  <2>3. FileOK'
    BY <2>1, <2>2 DEF LInv, FileOK, FileTyped, DiskOK, SwapOK, FileIsSound, file
  <2> QED
    BY <2>1, <2>2, <2>3, TableKept DEF LInv
<1>2. ASSUME NEW t \in Threads, NEW n \in Names \cup {"CORE"}, Register(t, n) \/ channel_id(t, n)
      PROVE  LInv'
  BY <1>2, RegisterStep, ChannelIdStep DEF AllNames
<1>3. ASSUME NEW t \in Threads, NEW i \in Ids, NEW l \in Levels, fl_log_channel_set_level(t, i, l)
      PROVE  LInv'
  BY <1>3, SetLevelStep
<1>4. ASSUME NEW t \in Threads, NEW i \in Ids, NEW b \in BOOLEAN, fl_log_channel_enable(t, i, b)
      PROVE  LInv'
  BY <1>4, EnableStep
<1>5. ASSUME NEW t \in Threads, NEW l \in Levels, fl_log_set_level(t, l) \/ fl_log_message(t, l)
      PROVE  LInv'
  BY <1>5, LogSetLevelStep, MessageStep
<1>6. ASSUME NEW t \in Threads, NEW i \in Ids \cup {INVALID}, NEW l \in Levels, NEW n \in {1, 2},
             fl_log_c_message(t, i, l, n)
      PROVE  LInv'
  BY <1>6, ChannelMessageStep
<1>7. ASSUME NEW t \in Threads, ensure_default_channel(t) \/ core_level(t) \/ set_every_level(t)
      PROVE  LInv'
  BY <1>7, EnsureStep, CoreLevelStep, SetEveryLevelStep
<1>8. ASSUME NEW t \in Threads, filter(t) \/ emit(t) \/ log_file_write(t)
      PROVE  LInv'
  BY <1>8, FilterStep, EmitStep, WriteStep
<1>9. ASSUME NEW t \in Threads, fl_log_file_init(t) \/ no_directory(t) \/ swap(t)
      PROVE  LInv'
  BY <1>9, InitFileStep, NoDirectoryStep, SwapStep
<1>10. ASSUME NEW t \in Threads, NEW g \in guards, fl_log_file_shutdown(t, g)
       PROVE  LInv'
  BY <1>10, ShutdownStep
<1> QED
  BY <1>1, <1>2, <1>3, <1>4, <1>5, <1>6, <1>7, <1>8, <1>9, <1>10 DEF Next

(* InvariantAlways: every reachable state satisfies the invariant: no id   *)
(* handed out lies past the table, and whoever swaps the file does so      *)
(* alone, with the old log moved away (log.c:61-97, 159-248).              *)
THEOREM InvariantAlways == ConstantsOK => (Spec => []LInv)
<1> SUFFICES ASSUME ConstantsOK PROVE Spec => []LInv
  OBVIOUS
<1>1. Init => LInv
  BY InitOK
<1>2. LInv /\ [Next]_vars => LInv'
  BY NextOK
<1> QED
  BY <1>1, <1>2, PTL DEF Spec

(* NamesAreChannelsAlways: however the threads register, cache and set up  *)
(* channels, a name has one channel, an id keeps its name, and only a full *)
(* table refuses (log.c:61-97).                                            *)
THEOREM NamesAreChannelsAlways == ConstantsOK => (Spec => []NamesAreChannels)
<1> SUFFICES ASSUME ConstantsOK PROVE Spec => []NamesAreChannels
  OBVIOUS
<1>1. LInv => NamesAreChannels
  BY DEF LInv, TableOK
<1> QED
  BY <1>1, InvariantAlways, PTL

(* FileIsSoundAlways: whatever is opened, closed and written at once, one  *)
(* handle at most is open, no message goes to a closed one, and .old is    *)
(* the log before the present one (log.c:159-248).                         *)
THEOREM FileIsSoundAlways == ConstantsOK => (Spec => []FileIsSound)
<1> SUFFICES ASSUME ConstantsOK PROVE Spec => []FileIsSound
  OBVIOUS
<1>1. LInv => FileIsSound
  BY DEF LInv, FileOK
<1> QED
  BY <1>1, InvariantAlways, PTL

(* LogIsSoundAlways: both hold of every reachable state, for every number  *)
(* of threads, names and files (log.c:61-248).                             *)
THEOREM LogIsSoundAlways == ConstantsOK => (Spec => []LogIsSound)
<1>1. NamesAreChannels /\ FileIsSound => LogIsSound
  BY DEF LogIsSound
<1> QED
  BY <1>1, NamesAreChannelsAlways, FileIsSoundAlways, PTL

-----------------------------------------------------------------------------
(***************************************************************************)
(* Proofs about the hash map: whatever the keys, their hashes and the      *)
(* capacity, its nodes are accounted for, and every operation does to the  *)
(* keys it can find what a dictionary does.                                *)
(***************************************************************************)

(* Every non-empty set of naturals has a least member.                     *)
LEMMA Least ==
  ASSUME NEW T, T \subseteq Nat, T # {}
  PROVE  \E x \in T : \A y \in T : x <= y
<1> DEFINE R == OpToRel(<, Nat)
<1>1. IsWellFoundedOn(R, Nat)
  BY NatLessThanWellFounded
<1>2. \A x, y \in Nat : x < y => <<x, y>> \in R
  BY DEF OpToRel
<1> HIDE DEF R
<1>3. PICK x \in T : \A y \in T : ~ (<<y, x>> \in R)
  BY <1>1, WFMin
<1>4. \A y \in T : ~ (y < x)
  BY <1>2, <1>3
<1>5. \A y \in T : x <= y
  BY <1>4
<1> QED
  BY <1>5

-----------------------------------------------------------------------------
(* Chains: what next leads to, whatever node function n links them.        *)

IsNode(D) == [next : D \cup {nullptr}, key : Keys, value : Values]
IsNodes(n) == nullptr \notin DOMAIN n /\ n \in [DOMAIN n -> IsNode(DOMAIN n)]
Closed(n, S) == \A y \in S : n[y].next # nullptr => n[y].next \in S

LEMMA ChainOfNull ==
  ASSUME NEW n
  PROVE  Chain(n, nullptr) = {}
BY DEF Chain

(* The chain is the least set that has x and what its members lead to.     *)
LEMMA ChainIsLeast ==
  ASSUME NEW n, IsNodes(n), NEW x \in DOMAIN n
  PROVE  /\ x \in Chain(n, x) /\ Chain(n, x) \subseteq DOMAIN n
         /\ Closed(n, Chain(n, x))
         /\ \A S : x \in S /\ Closed(n, S) => Chain(n, x) \subseteq S
<1>1. x # nullptr
  BY DEF IsNodes
<1>2. \A y \in DOMAIN n : n[y].next # nullptr => n[y].next \in DOMAIN n
  BY DEF IsNodes, IsNode
<1>3. x \in Chain(n, x) /\ Chain(n, x) \subseteq DOMAIN n
  BY <1>1 DEF Chain
<1>4. ASSUME NEW y \in Chain(n, x), n[y].next # nullptr
      PROVE  n[y].next \in Chain(n, x)
  <2>1. n[y].next \in DOMAIN n
    BY <1>2, <1>3, <1>4
  <2>2. ASSUME NEW S \in SUBSET DOMAIN n, x \in S,
               \A z \in S : n[z].next # nullptr => n[z].next \in S
        PROVE  n[y].next \in S
    <3>1. y \in S
      BY <2>2 DEF Chain
    <3> QED
      BY <2>2, <3>1, <1>4
  <2> QED
    BY <1>1, <2>1, <2>2 DEF Chain
<1>5. ASSUME NEW S, x \in S, Closed(n, S)
      PROVE  Chain(n, x) \subseteq S
  <2> DEFINE T == S \cap DOMAIN n
  <2>1. T \in SUBSET DOMAIN n /\ x \in T
    BY <1>5
  <2>2. \A z \in T : n[z].next # nullptr => n[z].next \in T
    BY <1>2, <1>5 DEF Closed
  <2>3. Chain(n, x) \subseteq T
    BY <2>1, <2>2 DEF Chain
  <2> QED
    BY <2>3
<1> QED
  BY <1>3, <1>4, <1>5 DEF Closed

(* A set is a chain when it has the chain's first node, nothing leads out  *)
(* of it, and a part of it that has the first node and that nothing leads  *)
(* out of is all of it.                                                    *)
LEMMA ChainIs ==
  ASSUME NEW n, IsNodes(n), NEW x \in DOMAIN n, NEW C,
         x \in C, Closed(n, C),
         \A S : S \subseteq C /\ x \in S /\ Closed(n, S) => C \subseteq S
  PROVE  Chain(n, x) = C
<1>1. Chain(n, x) \subseteq C
  BY ChainIsLeast
<1>2. x \in Chain(n, x) /\ Closed(n, Chain(n, x))
  BY ChainIsLeast
<1>3. C \subseteq Chain(n, x)
  BY <1>1, <1>2
<1> QED
  BY <1>1, <1>3

-----------------------------------------------------------------------------
(* Queues of nodes.                                                        *)

IsQueue(D) == [first : D \cup {nullptr}, last : D \cup {nullptr}]
Nodes(n, q) == Chain(n, q.first)

(* last is the end of the chain, and no two nodes lead to the same one.    *)
Ends(n, q) == IF q.first = nullptr THEN q.last = nullptr
              ELSE q.last \in Nodes(n, q) /\ n[q.last].next = nullptr
Straight(n, q) ==
  /\ \A y \in Nodes(n, q) : n[y].next # q.first \/ n[y].next = nullptr
  /\ \A y, z \in Nodes(n, q) : n[y].next = n[z].next /\ n[y].next # nullptr => y = z
IsList(n, q) == q \in IsQueue(DOMAIN n) /\ Ends(n, q) /\ Straight(n, q)

(* Two node functions agree on keys and values, and on next outside C.     *)
SameBut(n, m, C) ==
  /\ DOMAIN m = DOMAIN n
  /\ \A y \in DOMAIN n : m[y].key = n[y].key /\ m[y].value = n[y].value
  /\ \A y \in DOMAIN n \ C : m[y].next = n[y].next

LEMMA EmptyIsList ==
  ASSUME NEW n
  PROVE  IsList(n, Empty) /\ Nodes(n, Empty) = {}
BY ChainOfNull DEF IsList, IsQueue, Ends, Straight, Nodes, Empty

LEMMA NodesOf ==
  ASSUME NEW n, IsNodes(n), NEW q, IsList(n, q)
  PROVE  /\ Nodes(n, q) \subseteq DOMAIN n /\ Closed(n, Nodes(n, q))
         /\ q.first # nullptr => /\ q.first \in Nodes(n, q) /\ q.last \in Nodes(n, q)
                                 /\ q.first \in DOMAIN n
         /\ q.first = nullptr => Nodes(n, q) = {} /\ q.last = nullptr
<1>1. CASE q.first = nullptr
  BY <1>1, ChainOfNull DEF Nodes, IsList, Ends, Closed
<1>2. CASE q.first # nullptr
  <2>1. q.first \in DOMAIN n
    BY <1>2 DEF IsList, IsQueue
  <2> QED
    BY <1>2, <2>1, ChainIsLeast DEF Nodes, IsList, Ends
<1> QED
  BY <1>1, <1>2

(* A list stays as it is when no next of its nodes changes.                *)
LEMMA ListStays ==
  ASSUME NEW n, IsNodes(n), NEW m, IsNodes(m), NEW q, IsList(n, q),
         DOMAIN n \subseteq DOMAIN m, \A y \in Nodes(n, q) : m[y].next = n[y].next
  PROVE  IsList(m, q) /\ Nodes(m, q) = Nodes(n, q)
<1>1. CASE q.first = nullptr
  <2>1. Nodes(m, q) = {} /\ Nodes(n, q) = {}
    BY <1>1, ChainOfNull DEF Nodes
  <2> QED
    BY <1>1, <2>1 DEF IsList, IsQueue, Ends, Straight
<1>2. CASE q.first # nullptr
  <2>1. q.first \in DOMAIN n /\ q.first \in Nodes(n, q) /\ Closed(n, Nodes(n, q))
    BY <1>2, NodesOf
  <2>2. Closed(m, Nodes(n, q))
    BY <2>1 DEF Closed
  <2>3. \A S : S \subseteq Nodes(n, q) /\ q.first \in S /\ Closed(m, S) => Nodes(n, q) \subseteq S
    <3> SUFFICES ASSUME NEW S, S \subseteq Nodes(n, q), q.first \in S, Closed(m, S)
                 PROVE  Nodes(n, q) \subseteq S
      OBVIOUS
    <3>1. Closed(n, S)
      BY DEF Closed
    <3> QED
      BY <2>1, <3>1, ChainIsLeast DEF Nodes
  <2>4. q.first \in DOMAIN m
    BY <2>1
  <2>5. Nodes(m, q) = Nodes(n, q)
    BY <2>1, <2>2, <2>3, <2>4, ChainIs DEF Nodes
  <2>6. q \in IsQueue(DOMAIN m)
    BY DEF IsList, IsQueue
  <2>7. Ends(m, q)
    BY <1>2, <2>5 DEF IsList, Ends
  <2>8. Straight(m, q)
    BY <2>5 DEF IsList, Straight
  <2> QED
    BY <2>5, <2>6, <2>7, <2>8 DEF IsList
<1> QED
  BY <1>1, <1>2

-----------------------------------------------------------------------------
(* The queue macros.                                                       *)

LEMMA PushTyped ==
  ASSUME NEW n, IsNodes(n), NEW q, IsList(n, q), NEW x \in DOMAIN n
  PROVE  LET out == QueuePush(q, n, x) IN
         /\ IsNodes(out[2]) /\ out[1] \in IsQueue(DOMAIN n)
         /\ SameBut(n, out[2], {x, q.last})
         /\ out[1].last = x
         /\ out[1].first = IF q.first = nullptr THEN x ELSE q.first
         /\ out[2][x].next = nullptr
         /\ q.first # nullptr /\ q.last # x => out[2][q.last].next = x
         /\ q.first = nullptr => \A y \in DOMAIN n \ {x} : out[2][y].next = n[y].next
<1>1. \A y \in DOMAIN n : n[y] \in IsNode(DOMAIN n)
  BY DEF IsNodes
<1>2. CASE q.first = nullptr
  <2> DEFINE m == [n EXCEPT ![x].next = nullptr]
  <2>1. QueuePush(q, n, x) = <<[first |-> x, last |-> x], m>>
    BY <1>2 DEF QueuePush
  <2>2. DOMAIN m = DOMAIN n
    OBVIOUS
  <2>3. /\ m[x].next = nullptr /\ m[x].key = n[x].key /\ m[x].value = n[x].value
        /\ m[x] \in IsNode(DOMAIN n)
    BY <1>1 DEF IsNode
  <2>4. \A y \in DOMAIN n \ {x} : m[y] = n[y]
    OBVIOUS
  <2>5. IsNodes(m)
    BY <1>1, <2>2, <2>3, <2>4 DEF IsNodes
  <2> HIDE DEF m
  <2> QED
    BY <1>2, <2>1, <2>2, <2>3, <2>4, <2>5 DEF SameBut, IsQueue
<1>3. CASE q.first # nullptr
  <2>1. q.last \in DOMAIN n
    BY <1>3, NodesOf
  <2> DEFINE l == [n EXCEPT ![q.last].next = x]
             m == [l EXCEPT ![x].next = nullptr]
  <2>2. DOMAIN l = DOMAIN n /\ DOMAIN m = DOMAIN n
    OBVIOUS
  <2>3. /\ l[q.last] \in IsNode(DOMAIN n)
        /\ l[q.last].next = x /\ l[q.last].key = n[q.last].key /\ l[q.last].value = n[q.last].value
    BY <1>1, <2>1 DEF IsNode
  <2>4. \A y \in DOMAIN n \ {q.last} : l[y] = n[y]
    OBVIOUS
  <2>5. \A y \in DOMAIN n : l[y] \in IsNode(DOMAIN n)
    BY <1>1, <2>3, <2>4
  <2>6. QueuePush(q, n, x) = <<[q EXCEPT !.last = x], m>>
    BY <1>3 DEF QueuePush
  <2> HIDE DEF l
  <2>7. /\ m[x].next = nullptr /\ m[x].key = l[x].key /\ m[x].value = l[x].value
        /\ m[x] \in IsNode(DOMAIN n)
    BY <2>2, <2>5 DEF IsNode
  <2>8. \A y \in DOMAIN n \ {x} : m[y] = l[y]
    BY <2>2
  <2> HIDE DEF m
  <2>9. \A y \in DOMAIN n : m[y] \in IsNode(DOMAIN n)
    BY <2>5, <2>7, <2>8
  <2>10. IsNodes(m)
    <3>1. m \in [DOMAIN m -> IsNode(DOMAIN m)]
      BY <2>2, <2>9, <2>6 DEF m
    <3> QED
      BY <2>2, <3>1 DEF IsNodes
  <2>11. \A y \in DOMAIN n : m[y].key = n[y].key /\ m[y].value = n[y].value
    BY <2>3, <2>4, <2>7, <2>8
  <2>12. \A y \in DOMAIN n \ {x, q.last} : m[y].next = n[y].next
    BY <2>4, <2>8
  <2>13. q.last # x => m[q.last].next = x
    BY <2>1, <2>3, <2>8
  <2>14. q \in IsQueue(DOMAIN n)
    BY DEF IsList
  <2> DEFINE r == [q EXCEPT !.last = x]
  <2>15. r \in IsQueue(DOMAIN n) /\ r.first = q.first /\ r.last = x
    BY <2>14 DEF IsQueue
  <2> HIDE DEF r
  <2>16. QueuePush(q, n, x) = <<r, m>>
    BY <2>6 DEF r
  <2> QED
    BY <1>3, <2>2, <2>7, <2>10, <2>11, <2>12, <2>13, <2>15, <2>16 DEF SameBut
<1> QED
  BY <1>2, <1>3

(* A push adds its node to the end of the chain.                           *)
LEMMA PushList ==
  ASSUME NEW n, IsNodes(n), NEW q, IsList(n, q), NEW x \in DOMAIN n, x \notin Nodes(n, q)
  PROVE  LET out == QueuePush(q, n, x) IN
         /\ IsNodes(out[2]) /\ IsList(out[2], out[1])
         /\ Nodes(out[2], out[1]) = Nodes(n, q) \cup {x}
         /\ SameBut(n, out[2], Nodes(n, q) \cup {x})
<1> DEFINE C == Nodes(n, q)
           p == QueuePush(q, n, x)[1]
           m == QueuePush(q, n, x)[2]
<1>1. /\ IsNodes(m) /\ p \in IsQueue(DOMAIN n) /\ DOMAIN m = DOMAIN n
      /\ SameBut(n, m, {x, q.last})
      /\ p.last = x /\ p.first = (IF q.first = nullptr THEN x ELSE q.first)
      /\ m[x].next = nullptr
      /\ q.first # nullptr /\ q.last # x => m[q.last].next = x
      /\ q.first = nullptr => \A y \in DOMAIN n \ {x} : m[y].next = n[y].next
  BY PushTyped DEF SameBut
<1>2. /\ C \subseteq DOMAIN n /\ Closed(n, C)
      /\ q.first # nullptr => q.first \in C /\ q.last \in C /\ q.first \in DOMAIN n
      /\ q.first = nullptr => C = {} /\ q.last = nullptr
  BY NodesOf
<1>3. x # nullptr /\ nullptr \notin DOMAIN n
  BY DEF IsNodes
<1>4. q.last # x
  BY <1>2, <1>3
<1>5. \A y \in C : y # q.last => m[y].next = n[y].next
  BY <1>1, <1>2 DEF SameBut
<1>6. q.first # nullptr => n[q.last].next = nullptr
  BY DEF IsList, Ends
<1> HIDE DEF p, m
<1>7. p.first \in C \cup {x} /\ p.first \in DOMAIN m /\ p.first # nullptr
  BY <1>1, <1>2, <1>3
<1>8. Closed(m, C \cup {x})
  BY <1>1, <1>2, <1>4, <1>5 DEF Closed
<1>9. ASSUME NEW S, S \subseteq C \cup {x}, p.first \in S, Closed(m, S)
      PROVE  C \cup {x} \subseteq S
  <2>1. CASE q.first = nullptr
    BY <2>1, <1>1, <1>2, <1>9
  <2>2. CASE q.first # nullptr
    <3>1. Closed(n, S \cap C)
      BY <2>2, <1>2, <1>5, <1>6, <1>9 DEF Closed
    <3>2. q.first \in S \cap C
      BY <2>2, <1>1, <1>2, <1>9
    <3>3. C \subseteq S
      BY <2>2, <1>2, <3>1, <3>2, ChainIsLeast DEF Nodes
    <3>4. x \in S
      BY <2>2, <1>1, <1>2, <1>3, <1>4, <1>9, <3>3 DEF Closed
    <3> QED
      BY <3>3, <3>4
  <2> QED
    BY <2>1, <2>2
<1>10. Nodes(m, p) = C \cup {x}
  <2> HIDE DEF C
  <2> QED
    BY <1>1, <1>7, <1>8, <1>9, ChainIs DEF Nodes
<1>11. Ends(m, p)
  BY <1>1, <1>7, <1>10 DEF Ends
<1>12. ASSUME NEW y \in C \cup {x}, m[y].next # nullptr
       PROVE  m[y].next # p.first
  <2>1. y \in C
    BY <1>1, <1>12
  <2>2. CASE y = q.last
    BY <2>1, <2>2, <1>1, <1>2, <1>4
  <2>3. CASE y # q.last
    BY <2>1, <2>3, <1>1, <1>2, <1>5, <1>12 DEF IsList, Straight, Closed
  <2> QED
    BY <2>2, <2>3
<1>13. ASSUME NEW y \in C \cup {x}, NEW z \in C \cup {x}, m[y].next = m[z].next, m[y].next # nullptr
       PROVE  y = z
  <2>1. y \in C /\ z \in C /\ q.first # nullptr
    BY <1>1, <1>2, <1>13
  <2>2. ASSUME NEW w \in C, w # q.last, m[w].next # nullptr
        PROVE  m[w].next = n[w].next /\ m[w].next # x
    BY <1>2, <1>5, <2>2 DEF Closed
  <2>3. m[q.last].next = x
    BY <2>1, <1>1, <1>4
  <2>4. CASE y # q.last /\ z # q.last
    BY <2>1, <2>2, <2>4, <1>13 DEF IsList, Straight
  <2>5. CASE y = q.last \/ z = q.last
    BY <2>1, <2>2, <2>3, <2>5, <1>13
  <2> QED
    BY <2>4, <2>5
<1>14. IsList(m, p)
  BY <1>1, <1>10, <1>11, <1>12, <1>13 DEF IsList, Straight
<1>15. SameBut(n, m, C \cup {x})
  <2>1. \A y \in DOMAIN n \ (C \cup {x}) : m[y].next = n[y].next
    BY <1>1, <1>2 DEF SameBut
  <2> QED
    BY <1>1, <2>1 DEF SameBut
<1> QED
  BY <1>1, <1>10, <1>14, <1>15 DEF p, m

(* A pop takes the first node off.                                         *)
LEMMA PopList ==
  ASSUME NEW n, IsNodes(n), NEW q, IsList(n, q), q.first # nullptr
  PROVE  /\ IsList(n, QueuePop(q, n))
         /\ Nodes(n, QueuePop(q, n)) = Nodes(n, q) \ {q.first}
<1> DEFINE C == Nodes(n, q)
           f == q.first
<1>1. /\ C \subseteq DOMAIN n /\ Closed(n, C) /\ f \in C /\ q.last \in C /\ f \in DOMAIN n
      /\ n[q.last].next = nullptr
  BY NodesOf DEF IsList, Ends
<1>2. \A S : f \in S /\ Closed(n, S) => C \subseteq S
  BY <1>1, ChainIsLeast DEF Nodes
<1>3. CASE q.first = q.last
  <2>1. Closed(n, {f})
    BY <1>1, <1>3 DEF Closed
  <2>2. C = {f}
    BY <1>1, <1>2, <2>1
  <2>3. QueuePop(q, n) = Empty
    BY <1>3 DEF QueuePop
  <2> QED
    BY <2>2, <2>3, EmptyIsList
<1>4. CASE q.first # q.last
  <2> DEFINE g == n[f].next
             p == [q EXCEPT !.first = g]
  <2>1. g # nullptr
    <3> SUFFICES ASSUME g = nullptr PROVE FALSE
      OBVIOUS
    <3>1. Closed(n, {f})
      BY DEF Closed
    <3> QED
      BY <1>1, <1>2, <1>4, <3>1
  <2>2. g \in C /\ g \in DOMAIN n /\ g # f
    BY <1>1, <2>1 DEF Closed, IsList, Straight
  <2>3. QueuePop(q, n) = p
    BY <1>4 DEF QueuePop
  <2>4. p \in IsQueue(DOMAIN n) /\ p.first = g /\ p.last = q.last
    BY <2>2 DEF IsList, IsQueue
  <2> HIDE DEF p
  <2>5. Closed(n, C \ {f})
    BY <1>1 DEF Closed, IsList, Straight
  <2>6. ASSUME NEW S, g \in S, Closed(n, S)
        PROVE  C \ {f} \subseteq S
    <3>1. Closed(n, S \cup {f})
      BY <2>6 DEF Closed
    <3>2. C \subseteq S \cup {f}
      BY <1>2, <3>1
    <3> QED
      BY <3>2
  <2>7. Chain(n, g) = C \ {f}
    BY <2>2, <2>5, <2>6, ChainIs
  <2>8. Nodes(n, p) = C \ {f}
    BY <2>4, <2>7 DEF Nodes
  <2>9. Ends(n, p)
    BY <1>1, <1>4, <2>1, <2>4, <2>8 DEF Ends
  <2>10. \A y \in C \ {f} : n[y].next # g \/ n[y].next = nullptr
    BY <1>1 DEF IsList, Straight
  <2>11. Straight(n, p)
    BY <2>4, <2>8, <2>10 DEF IsList, Straight
  <2> QED
    BY <2>3, <2>4, <2>8, <2>9, <2>11 DEF IsList
<1> QED
  BY <1>3, <1>4

(* A removal takes the node off, wherever it is in the chain.              *)
LEMMA RemoveList ==
  ASSUME NEW n, IsNodes(n), NEW q, IsList(n, q), NEW x \in Nodes(n, q)
  PROVE  LET out == QueueRemove(q, n, x) IN
         /\ IsNodes(out[2]) /\ IsList(out[2], out[1])
         /\ Nodes(out[2], out[1]) = Nodes(n, q) \ {x}
         /\ SameBut(n, out[2], Nodes(n, q))
<1> DEFINE C == Nodes(n, q)
           f == q.first
<1>1. f # nullptr
  BY NodesOf
<1>2. /\ C \subseteq DOMAIN n /\ Closed(n, C) /\ f \in C /\ q.last \in C /\ f \in DOMAIN n
      /\ n[q.last].next = nullptr /\ x \in C
  BY <1>1, NodesOf DEF IsList, Ends
<1>3. \A S : f \in S /\ Closed(n, S) => C \subseteq S
  BY <1>2, ChainIsLeast DEF Nodes
<1>4. CASE f = x
  <2>1. QueueRemove(q, n, x) = <<QueuePop(q, n), n>>
    BY <1>4 DEF QueueRemove
  <2>2. SameBut(n, n, C)
    BY DEF SameBut
  <2> QED
    BY <1>1, <1>4, <2>1, <2>2, PopList
<1>5. CASE f # x
  <2> DEFINE p == Before(n, q, x)
             g == n[x].next
             m == [n EXCEPT ![p].next = g]
             r == IF q.last = x THEN [q EXCEPT !.last = p] ELSE q
  <2>1. x # nullptr
    BY <1>2 DEF IsNodes
  <2>2. \E y \in C : n[y].next = x
    <3> SUFFICES ASSUME \A y \in C : n[y].next # x PROVE FALSE
      OBVIOUS
    <3>1. Closed(n, C \ {x})
      BY <1>2 DEF Closed
    <3> QED
      BY <1>2, <1>3, <1>5, <3>1
  <2>3. p \in C /\ n[p].next = x
    BY <2>2 DEF Before, Nodes
  <2>4. \A y \in C : n[y].next = x => y = p
    BY <2>1, <2>3 DEF IsList, Straight
  <2> HIDE DEF p
  <2>5. p # x
    <3> SUFFICES ASSUME p = x PROVE FALSE
      OBVIOUS
    <3>1. Closed(n, C \ {x})
      BY <1>2, <2>4 DEF Closed
    <3> QED
      BY <1>2, <1>3, <1>5, <3>1
  <2>6. QueueRemove(q, n, x) = <<r, m>>
    BY <1>5 DEF QueueRemove, p
  <2>7. g \in DOMAIN n \cup {nullptr} /\ (g # nullptr => g \in C)
    BY <1>2 DEF IsNodes, IsNode, Closed
  <2>8. n[p] \in IsNode(DOMAIN n)
    BY <1>2, <2>3 DEF IsNodes
  <2>9. DOMAIN m = DOMAIN n /\ \A y \in DOMAIN n \ {p} : m[y] = n[y]
    OBVIOUS
  <2>10. /\ m[p].next = g /\ m[p].key = n[p].key /\ m[p].value = n[p].value
         /\ m[p] \in IsNode(DOMAIN n)
    BY <1>2, <2>3, <2>7, <2>8 DEF IsNode
  <2>11. IsNodes(m)
    <3>1. \A y \in DOMAIN n : m[y] \in IsNode(DOMAIN n)
      BY <2>9, <2>10 DEF IsNodes
    <3>2. m \in [DOMAIN n -> IsNode(DOMAIN n)]
      BY <3>1
    <3> QED
      BY <2>9, <3>2 DEF IsNodes
  <2>12. /\ r \in IsQueue(DOMAIN n) /\ r.first = f
         /\ r.last = (IF q.last = x THEN p ELSE q.last)
    <3>1. q \in IsQueue(DOMAIN n) /\ p \in DOMAIN n
      BY <1>2, <2>3 DEF IsList
    <3> QED
      BY <3>1 DEF IsQueue
  <2> HIDE DEF m, r, g
  <2>13. \A y \in C \ {p} : m[y].next = n[y].next
    BY <1>2, <2>9
  <2>14. g # x
    BY <1>2, <2>1, <2>4, <2>5 DEF g
  <2>15. Closed(m, C \ {x})
    BY <1>2, <2>4, <2>7, <2>10, <2>13, <2>14 DEF Closed
  <2>16. ASSUME NEW S, S \subseteq C \ {x}, f \in S, Closed(m, S)
         PROVE  C \ {x} \subseteq S
    <3>1. CASE p \in S
      <4>1. Closed(n, S \cup {x})
        BY <2>3, <2>10, <2>13, <2>16, <3>1 DEF Closed, g
      <4>2. C \subseteq S \cup {x}
        BY <1>3, <2>16, <4>1
      <4> QED
        BY <4>2
    <3>2. CASE p \notin S
      <4>1. Closed(n, S)
        BY <2>13, <2>16, <3>2 DEF Closed
      <4>2. C \subseteq S
        BY <1>3, <2>16, <4>1
      <4> QED
        BY <2>3, <3>2, <4>2
    <3> QED
      BY <3>1, <3>2
  <2>17. Nodes(m, r) = C \ {x}
    <3>1. f \in C \ {x} /\ f \in DOMAIN m
      BY <1>2, <1>5, <2>9
    <3> HIDE DEF C
    <3>2. Chain(m, f) = C \ {x}
      BY <2>11, <2>15, <2>16, <3>1, ChainIs
    <3> QED
      BY <2>12, <3>2 DEF Nodes
  <2>18. Ends(m, r)
    BY <1>1, <1>2, <2>1, <2>3, <2>5, <2>10, <2>12, <2>13, <2>17 DEF Ends, g
  <2>19. ASSUME NEW y \in C \ {x}, m[y].next # nullptr
         PROVE  m[y].next # f
    BY <2>3, <2>10, <2>13, <2>19, <1>2 DEF IsList, Straight, g
  <2>20. ASSUME NEW y \in C \ {x}, NEW z \in C \ {x}, m[y].next = m[z].next, m[y].next # nullptr
         PROVE  y = z
    BY <1>2, <2>3, <2>10, <2>13, <2>20 DEF IsList, Straight, g
  <2>21. Straight(m, r)
    BY <2>12, <2>17, <2>19, <2>20 DEF Straight
  <2>22. SameBut(n, m, C)
    BY <1>2, <2>3, <2>9, <2>10 DEF SameBut
  <2> QED
    BY <2>6, <2>9, <2>11, <2>12, <2>17, <2>18, <2>21, <2>22 DEF IsList
<1> QED
  BY <1>4, <1>5

-----------------------------------------------------------------------------
(* The invariant.                                                          *)

Lists == /\ IsNodes(node) /\ DOMAIN node \subseteq 1..MaxNodes
         /\ bucket \in [Buckets -> IsQueue(DOMAIN node)] /\ count \in Nat
         /\ \A i \in Buckets : IsList(node, bucket[i])
         /\ IsList(node, free)
Parted == /\ \A i, j \in Buckets : i # j => Used(i) \cap Used(j) = {}
          /\ \A i \in Buckets : Used(i) \cap FreeNodes = {}
          /\ \A x \in DOMAIN node : x \in FreeNodes \/ \E i \in Buckets : x \in Used(i)
Keyed == \A i \in Buckets : \A x \in Used(i) :
           /\ IndexOf(node[x].key) = i
           /\ \A y \in Used(i) : node[x].key = node[y].key => x = y
HInv == Lists /\ Parted /\ Keyed /\ count = Cardinality(Held)

(* What hashmap_get answers is what the nodes in buckets hold.             *)
Answers ==
  /\ \A x \in Held : /\ node[x].key \in DOMAIN hashmap_get
                     /\ hashmap_get[node[x].key] = node[x].value
  /\ \A k \in DOMAIN hashmap_get : \E x \in Held : node[x].key = k
  /\ hashmap_get = [k \in DOMAIN hashmap_get |-> hashmap_get[k]]

LEMMA IndexInRange ==
  ASSUME NEW k \in Keys
  PROVE  IndexOf(k) \in Buckets
<1>1. Hash[k] \in Nat
  BY HashAssumption
<1>2. Hash[k] % capacity \in 0..capacity - 1
  BY <1>1, CapacityAssumption
<1> QED
  BY <1>2 DEF IndexOf, Buckets

LEMMA UsedIsNodes ==
  /\ \A i \in Buckets : Used(i) = Nodes(node, bucket[i])
  /\ FreeNodes = Nodes(node, free)
BY DEF Used, FreeNodes, Nodes

LEMMA UsedIsNodesAfter ==
  /\ \A i \in Buckets : Used(i)' = Nodes(node', bucket'[i])
  /\ FreeNodes' = Nodes(node', free')
BY DEF Used, FreeNodes, Nodes

(* Finding a key.                                                          *)
LEMMA Found ==
  ASSUME HInv, NEW k \in Keys
  PROVE  /\ FindNode(k) # nullptr => /\ FindNode(k) \in Used(IndexOf(k)) /\ FindNode(k) \in Held
                                     /\ FindNode(k) \in DOMAIN node /\ node[FindNode(k)].key = k
         /\ \A x \in Held : node[x].key = k => FindNode(k) = x /\ FindNode(k) # nullptr
<1>1. IndexOf(k) \in Buckets
  BY IndexInRange
<1>2. Used(IndexOf(k)) \subseteq DOMAIN node
  BY <1>1, NodesOf, UsedIsNodes DEF HInv, Lists
<1>3. nullptr \notin DOMAIN node
  BY DEF HInv, Lists, IsNodes
<1>4. Matches(k) \subseteq Used(IndexOf(k)) /\ \A x \in Matches(k) : node[x].key = k
  BY DEF Matches, Used
<1>5. \A x \in Used(IndexOf(k)) : node[x].key = k => x \in Matches(k)
  BY DEF Matches, Used
<1>6. \A x, y \in Matches(k) : x = y
  BY <1>1, <1>4 DEF HInv, Keyed
<1>7. ASSUME NEW x \in Matches(k)
      PROVE  FindNode(k) = x
  <2>1. Matches(k) = {x}
    BY <1>6, <1>7
  <2>2. x \in Chain(node, x)
    BY <1>2, <1>4, <1>7, ChainIsLeast DEF HInv, Lists
  <2>3. \E y \in Matches(k) : Matches(k) \subseteq Chain(node, y)
    BY <2>1, <2>2
  <2>4. (CHOOSE y \in Matches(k) : Matches(k) \subseteq Chain(node, y)) \in Matches(k)
    BY <2>3
  <2> QED
    BY <2>1, <2>4 DEF FindNode
<1>8. ASSUME NEW x \in Held, node[x].key = k
      PROVE  x \in Matches(k)
  <2>1. PICK i \in Buckets : x \in Used(i)
    BY <1>8 DEF Held
  <2>2. i = IndexOf(k)
    BY <1>8, <2>1 DEF HInv, Keyed
  <2> QED
    BY <1>5, <1>8, <2>1, <2>2
<1>9. FindNode(k) # nullptr => FindNode(k) \in Matches(k)
  BY <1>7 DEF FindNode
<1>10. Used(IndexOf(k)) \subseteq Held
  BY <1>1 DEF Held
<1> QED
  BY <1>2, <1>3, <1>4, <1>7, <1>8, <1>9, <1>10

LEMMA HeldKeys ==
  ASSUME HInv, NEW x \in Held
  PROVE  x \in DOMAIN node /\ node[x].key \in Keys /\ node[x].value \in Values
<1>1. PICK i \in Buckets : x \in Used(i)
  BY DEF Held
<1>2. x \in DOMAIN node
  BY <1>1, NodesOf, UsedIsNodes DEF HInv, Lists
<1> QED
  BY <1>2 DEF HInv, Lists, IsNodes, IsNode

LEMMA InvAnswers == HInv => Answers
<1> SUFFICES ASSUME HInv PROVE Answers
  OBVIOUS
<1>1. DOMAIN hashmap_get = {k \in Keys : FindNode(k) # nullptr}
  BY DEF hashmap_get
<1>2. \A k \in DOMAIN hashmap_get : hashmap_get[k] = node[FindNode(k)].value
  BY DEF hashmap_get
<1>3. \A x \in Held : FindNode(node[x].key) = x /\ x # nullptr /\ node[x].key \in Keys
  BY Found, HeldKeys
<1>4. \A k \in DOMAIN hashmap_get : FindNode(k) \in Held /\ node[FindNode(k)].key = k
  BY <1>1, Found
<1>5. hashmap_get = [k \in DOMAIN hashmap_get |-> hashmap_get[k]]
  BY DEF hashmap_get
<1> QED
  BY <1>1, <1>2, <1>3, <1>4, <1>5 DEF Answers

-----------------------------------------------------------------------------
(* The operations keep the invariant.                                      *)

LEMMA HeldIsFinite ==
  ASSUME HInv
  PROVE  /\ IsFiniteSet(Held) /\ Held \subseteq DOMAIN node
         /\ \A x \in Held : \E i \in Buckets : x \in Used(i)
<1>1. Held \subseteq DOMAIN node
  BY HeldKeys
<1>2. Held \in SUBSET (1..MaxNodes)
  BY <1>1 DEF HInv, Lists
<1>3. IsFiniteSet(1..MaxNodes)
  BY FS_Interval, MaxNodesAssumption
<1> QED
  BY <1>1, <1>2, <1>3, FS_Subset DEF Held

LEMMA InitInv == HashMapInit => HInv
<1> SUFFICES ASSUME HashMapInit PROVE HInv
  OBVIOUS
<1>1. DOMAIN node = {}
  BY DEF HashMapInit
<1>2. IsNodes(node)
  BY <1>1 DEF IsNodes, HashMapInit
<1>3. \A i \in Buckets : bucket[i] = Empty
  BY DEF HashMapInit
<1>4. free = Empty /\ count = 0 /\ bucket \in [Buckets -> {Empty}]
  BY DEF HashMapInit
<1>5. IsList(node, Empty) /\ Nodes(node, Empty) = {} /\ Empty \in IsQueue(DOMAIN node)
  BY EmptyIsList DEF IsList
<1>6. \A i \in Buckets : Used(i) = {}
  BY <1>3, <1>5, UsedIsNodes
<1>7. Lists
  BY <1>1, <1>2, <1>3, <1>4, <1>5 DEF Lists
<1>8. Parted /\ Keyed
  BY <1>1, <1>6 DEF Parted, Keyed
<1>9. count = Cardinality(Held)
  BY <1>4, <1>6, FS_EmptySet DEF Held
<1> QED
  BY <1>7, <1>8, <1>9 DEF HInv

(* An overwrite changes one value.                                         *)
LEMMA OverwriteDoes ==
  ASSUME HInv, NEW k \in Keys, NEW v \in Values, Overwrite(k, v)
  PROVE  /\ HInv' /\ Held' = Held
         /\ FindNode(k) \in Held /\ node[FindNode(k)].key = k /\ node'[FindNode(k)].value = v
         /\ \A y \in Held : node'[y].key = node[y].key
         /\ \A y \in Held \ {FindNode(k)} : node'[y].value = node[y].value
<1> DEFINE x == FindNode(k)
<1>1. x \in Held /\ x \in DOMAIN node /\ node[x].key = k
  BY Found DEF Overwrite
<1> HIDE DEF x
<1>2. /\ node' = [node EXCEPT ![x].value = v]
      /\ UNCHANGED <<bucket, free, count>>
  BY DEF Overwrite, x
<1>3. IsNodes(node) /\ node[x] \in IsNode(DOMAIN node)
  BY <1>1 DEF HInv, Lists, IsNodes
<1>4. DOMAIN node' = DOMAIN node /\ \A y \in DOMAIN node \ {x} : node'[y] = node[y]
  BY <1>2
<1>5. /\ node'[x].next = node[x].next /\ node'[x].key = node[x].key /\ node'[x].value = v
      /\ node'[x] \in IsNode(DOMAIN node)
  BY <1>1, <1>2, <1>3 DEF IsNode
<1>6. IsNodes(node')
  <2>1. \A y \in DOMAIN node : node'[y] \in IsNode(DOMAIN node)
    BY <1>3, <1>4, <1>5 DEF IsNodes
  <2>2. node' \in [DOMAIN node' -> IsNode(DOMAIN node')]
    BY <1>2, <1>4, <2>1
  <2> QED
    BY <1>3, <1>4, <2>2 DEF IsNodes
<1>7. \A y \in DOMAIN node : node'[y].next = node[y].next /\ node'[y].key = node[y].key
  BY <1>4, <1>5
<1>8. \A q : IsList(node, q) => IsList(node', q) /\ Nodes(node', q) = Nodes(node, q)
  <2> SUFFICES ASSUME NEW q, IsList(node, q)
               PROVE  IsList(node', q) /\ Nodes(node', q) = Nodes(node, q)
    OBVIOUS
  <2>1. Nodes(node, q) \subseteq DOMAIN node
    BY <1>3, NodesOf
  <2> QED
    BY <1>3, <1>4, <1>6, <1>7, <2>1, ListStays
<1>9. (\A i \in Buckets : Used(i)' = Used(i)) /\ FreeNodes' = FreeNodes
  BY <1>2, <1>8, UsedIsNodes, UsedIsNodesAfter DEF HInv, Lists
<1>10. Held' = Held
  BY <1>9 DEF Held
<1>11. \A i \in Buckets : Used(i) \subseteq DOMAIN node
  BY NodesOf, UsedIsNodes DEF HInv, Lists
<1>12. Lists'
  BY <1>2, <1>4, <1>6, <1>8 DEF HInv, Lists
<1>13. Parted'
  BY <1>4, <1>9 DEF HInv, Parted
<1>14. Keyed'
  BY <1>7, <1>9, <1>11 DEF HInv, Keyed, IndexOf
<1>15. HInv'
  BY <1>2, <1>10, <1>12, <1>13, <1>14 DEF HInv
<1>16. Held \subseteq DOMAIN node
  BY HeldIsFinite
<1> QED
  BY <1>1, <1>4, <1>5, <1>7, <1>10, <1>15, <1>16 DEF x

(* An insertion adds one node to the key's bucket.                         *)
LEMMA InsertDoes ==
  ASSUME HInv, NEW k \in Keys, NEW v \in Values, InsertNew(k, v)
  PROVE  HInv' /\ \E x : /\ x \notin Held /\ Held' = Held \cup {x}
                         /\ node'[x].key = k /\ node'[x].value = v
                         /\ \A y \in Held : /\ node'[y].key = node[y].key
                                            /\ node'[y].value = node[y].value
<1> DEFINE x   == NodeToUse
           i   == IndexOf(k)
           new == [next |-> nullptr, key |-> k, value |-> v]
           n   == [y \in DOMAIN node \cup {x} |-> IF y = x THEN new ELSE node[y]]
           D   == DOMAIN node \cup {x}
<1>1. i \in Buckets
  BY IndexInRange
<1>2. /\ IsNodes(node) /\ \A j \in Buckets : IsList(node, bucket[j])
      /\ \A j \in Buckets : Used(j) \subseteq DOMAIN node
      /\ FreeNodes \subseteq DOMAIN node
  BY NodesOf, UsedIsNodes DEF HInv, Lists
<1>3. /\ x \in 1..MaxNodes
      /\ x \in FreeNodes \/ x \notin DOMAIN node
      /\ IsList(node, FreeAfter) /\ Nodes(node, FreeAfter) = FreeNodes \ {x}
  <2>1. CASE free.first # nullptr
    <3>1. x = free.first /\ FreeAfter = QueuePop(free, node)
      BY <2>1 DEF NodeToUse, FreeAfter
    <3>2. x \in FreeNodes /\ x \in DOMAIN node
      BY <2>1, <3>1, NodesOf, UsedIsNodes DEF HInv, Lists
    <3> QED
      BY <2>1, <3>1, <3>2, PopList, UsedIsNodes DEF HInv, Lists
  <2>2. CASE free.first = nullptr
    <3>1. DOMAIN node # 1..MaxNodes
      BY <2>2 DEF InsertNew
    <3>2. \E y \in 1..MaxNodes : y \notin DOMAIN node
      BY <3>1 DEF HInv, Lists
    <3>3. x \in 1..MaxNodes /\ x \notin DOMAIN node
      BY <2>2, <3>2 DEF NodeToUse
    <3>4. FreeAfter = free /\ FreeNodes = {}
      BY <2>2, ChainOfNull DEF FreeAfter, FreeNodes
    <3> QED
      BY <3>3, <3>4, UsedIsNodes DEF HInv, Lists
  <2> QED
    BY <2>1, <2>2
<1>4. \A j \in Buckets : x \notin Used(j)
  BY <1>2, <1>3 DEF HInv, Parted
<1>5. /\ bucket' = [bucket EXCEPT ![i] = QueuePush(bucket[i], n, x)[1]]
      /\ node' = QueuePush(bucket[i], n, x)[2]
      /\ free' = FreeAfter /\ count' = count + 1
  BY DEF InsertNew
<1> HIDE DEF x, i
<1>6. x # nullptr
  BY <1>3 DEF nullptr
<1>7. /\ DOMAIN n = D /\ n[x] = new /\ \A y \in DOMAIN node \ {x} : n[y] = node[y]
  OBVIOUS
<1>8. IsNodes(n)
  <2>1. new \in IsNode(D)
    BY DEF IsNode
  <2>2. \A y \in DOMAIN node : node[y] \in IsNode(D)
    BY <1>2 DEF IsNodes, IsNode
  <2>3. \A y \in D : n[y] \in IsNode(D)
    BY <2>1, <2>2
  <2>4. n \in [D -> IsNode(D)]
    BY <2>3
  <2> QED
    BY <1>2, <1>6, <1>7, <2>4 DEF IsNodes
<1> HIDE DEF n
<1>9. \A j \in Buckets : IsList(n, bucket[j]) /\ Nodes(n, bucket[j]) = Used(j)
  <2> SUFFICES ASSUME NEW j \in Buckets
               PROVE  IsList(n, bucket[j]) /\ Nodes(n, bucket[j]) = Used(j)
    OBVIOUS
  <2>1. \A y \in Nodes(node, bucket[j]) : n[y].next = node[y].next
    BY <1>2, <1>4, <1>7, UsedIsNodes
  <2>2. DOMAIN node \subseteq DOMAIN n
    BY <1>7
  <2> QED
    BY <1>2, <1>8, <2>1, <2>2, ListStays, UsedIsNodes
<1>10. IsList(n, FreeAfter) /\ Nodes(n, FreeAfter) = FreeNodes \ {x}
  <2>1. \A y \in Nodes(node, FreeAfter) : n[y].next = node[y].next
    BY <1>2, <1>3, <1>7
  <2>2. DOMAIN node \subseteq DOMAIN n
    BY <1>7
  <2>3. IsList(node, FreeAfter) /\ Nodes(node, FreeAfter) = FreeNodes \ {x}
    BY <1>3
  <2> QED
    BY <1>2, <1>8, <2>1, <2>2, <2>3, ListStays
<1> DEFINE p == QueuePush(bucket[i], n, x)[1]
           m == QueuePush(bucket[i], n, x)[2]
<1>11. /\ IsNodes(m) /\ IsList(m, p) /\ Nodes(m, p) = Used(i) \cup {x}
       /\ SameBut(n, m, Used(i) \cup {x})
  <2>1. x \in DOMAIN n
    BY <1>7
  <2> QED
    BY <1>1, <1>4, <1>8, <1>9, <2>1, PushList
<1>12. \A q : IsList(n, q) /\ Nodes(n, q) \cap (Used(i) \cup {x}) = {}
              => IsList(m, q) /\ Nodes(m, q) = Nodes(n, q)
  <2> SUFFICES ASSUME NEW q, IsList(n, q), Nodes(n, q) \cap (Used(i) \cup {x}) = {}
               PROVE  IsList(m, q) /\ Nodes(m, q) = Nodes(n, q)
    OBVIOUS
  <2> HIDE DEF m
  <2>1. \A y \in Nodes(n, q) : m[y].next = n[y].next
    BY <1>8, <1>11, NodesOf DEF SameBut
  <2> QED
    BY <1>8, <1>11, <2>1, ListStays DEF SameBut
<1>13. bucket' = [bucket EXCEPT ![i] = p] /\ node' = m
  BY <1>5
<1> HIDE DEF p, m
<1>14. bucket'[i] = p /\ \A j \in Buckets \ {i} : bucket'[j] = bucket[j]
  BY <1>1, <1>13 DEF HInv, Lists
<1>15. /\ Used(i)' = Used(i) \cup {x}
       /\ \A j \in Buckets \ {i} : Used(j)' = Used(j) /\ IsList(node', bucket'[j])
       /\ IsList(node', bucket'[i])
       /\ FreeNodes' = FreeNodes \ {x} /\ IsList(node', free')
  <2>1. \A j \in Buckets \ {i} : Used(j) \cap (Used(i) \cup {x}) = {}
    BY <1>1, <1>4 DEF HInv, Parted
  <2>2. (FreeNodes \ {x}) \cap (Used(i) \cup {x}) = {}
    BY <1>1 DEF HInv, Parted
  <2>3. \A j \in Buckets \ {i} : IsList(m, bucket[j]) /\ Nodes(m, bucket[j]) = Used(j)
    BY <1>9, <1>12, <2>1
  <2>4. IsList(m, FreeAfter) /\ Nodes(m, FreeAfter) = FreeNodes \ {x}
    BY <1>10, <1>12, <2>2
  <2> QED
    BY <1>1, <1>5, <1>11, <1>13, <1>14, <2>3, <2>4, UsedIsNodesAfter
<1>16. /\ DOMAIN node' = D
       /\ node'[x].key = k /\ node'[x].value = v
       /\ \A y \in DOMAIN node \ {x} : node'[y].key = node[y].key /\ node'[y].value = node[y].value
  BY <1>7, <1>11, <1>13 DEF SameBut
<1>17. Held' = Held \cup {x} /\ x \notin Held
  BY <1>1, <1>4, <1>15 DEF Held
<1>18. Lists'
  <2>1. p \in IsQueue(D)
    BY <1>11, <1>13, <1>16 DEF IsList
  <2>2. bucket' \in [Buckets -> IsQueue(D)]
    BY <1>13, <2>1 DEF HInv, Lists, IsQueue
  <2>3. D \subseteq 1..MaxNodes /\ count' \in Nat
    BY <1>3, <1>5 DEF HInv, Lists
  <2> QED
    BY <1>11, <1>13, <1>14, <1>15, <1>16, <2>2, <2>3 DEF Lists
<1>19. Parted'
  <2>1. \A j, l \in Buckets : j # l => Used(j)' \cap Used(l)' = {}
    BY <1>4, <1>15 DEF HInv, Parted
  <2>2. \A j \in Buckets : Used(j)' \cap FreeNodes' = {}
    BY <1>15 DEF HInv, Parted
  <2>3. ASSUME NEW y \in D
        PROVE  y \in FreeNodes' \/ \E j \in Buckets : y \in Used(j)'
    BY <1>1, <1>15 DEF HInv, Parted
  <2> QED
    BY <1>16, <2>1, <2>2, <2>3 DEF Parted
<1>20. \A y \in Used(i) : node[y].key # k
  <2>1. FindNode(k) = nullptr
    BY DEF InsertNew
  <2> QED
    BY <1>1, <2>1, Found DEF Held
<1>21. Keyed'
  <2>1. \A j \in Buckets : \A y \in Used(j) :
          node'[y].key = node[y].key /\ node'[y].value = node[y].value
    BY <1>2, <1>4, <1>16
  <2>2. IndexOf(k) = i
    BY DEF i
  <2>3. ASSUME NEW j \in Buckets, NEW y \in Used(j)'
        PROVE  IndexOf(node'[y].key) = j
    BY <1>15, <1>16, <2>1, <2>2, <2>3 DEF HInv, Keyed
  <2>4. ASSUME NEW j \in Buckets, NEW y \in Used(j)', NEW z \in Used(j)', node'[y].key = node'[z].key
        PROVE  y = z
    BY <1>15, <1>16, <1>20, <2>1, <2>4 DEF HInv, Keyed
  <2> QED
    BY <2>3, <2>4 DEF Keyed, IndexOf
<1>22. count' = Cardinality(Held')
  BY <1>5, <1>17, HeldIsFinite, FS_AddElement DEF HInv
<1>23. HInv'
  BY <1>18, <1>19, <1>21, <1>22 DEF HInv
<1> QED
  BY <1>16, <1>17, <1>23, HeldIsFinite

(* A removal takes the key's node out and puts it on the free list.        *)
LEMMA RemoveDoes ==
  ASSUME HInv, NEW k \in Keys, hashmap_remove(k)
  PROVE  HInv' /\ \E x \in Held : /\ Held' = Held \ {x} /\ node[x].key = k
                                  /\ \A y \in Held : /\ node'[y].key = node[y].key
                                                     /\ node'[y].value = node[y].value
<1> DEFINE x == FindNode(k)
           i == IndexOf(k)
           p == QueueRemove(bucket[i], node, x)[1]
           n == QueueRemove(bucket[i], node, x)[2]
           m == [n EXCEPT ![x].next = nullptr]
           f == QueuePush(free, m, x)[1]
           l == QueuePush(free, m, x)[2]
<1>1. i \in Buckets
  BY IndexInRange
<1>2. x \in Used(i) /\ x \in Held /\ x \in DOMAIN node /\ node[x].key = k
  BY Found DEF hashmap_remove
<1>3. /\ IsNodes(node) /\ \A j \in Buckets : IsList(node, bucket[j])
      /\ \A j \in Buckets : Used(j) \subseteq DOMAIN node
      /\ FreeNodes \subseteq DOMAIN node
  BY NodesOf, UsedIsNodes DEF HInv, Lists
<1>4. /\ bucket' = [bucket EXCEPT ![i] = p]
      /\ free' = f /\ node' = l /\ count' = count - 1
  BY DEF hashmap_remove
<1> HIDE DEF x, i
<1>5. /\ IsNodes(n) /\ IsList(n, p) /\ Nodes(n, p) = Used(i) \ {x} /\ SameBut(node, n, Used(i))
  BY <1>1, <1>2, <1>3, RemoveList, UsedIsNodes
<1>6. \A q : IsList(node, q) /\ Nodes(node, q) \cap Used(i) = {}
             => IsList(n, q) /\ Nodes(n, q) = Nodes(node, q)
  <2> SUFFICES ASSUME NEW q, IsList(node, q), Nodes(node, q) \cap Used(i) = {}
               PROVE  IsList(n, q) /\ Nodes(n, q) = Nodes(node, q)
    OBVIOUS
  <2> HIDE DEF n
  <2>1. \A y \in Nodes(node, q) : n[y].next = node[y].next
    BY <1>3, <1>5, NodesOf DEF SameBut
  <2> QED
    BY <1>3, <1>5, <2>1, ListStays DEF SameBut
<1> HIDE DEF p, n
<1>7. /\ DOMAIN m = DOMAIN node /\ IsNodes(m)
      /\ m[x].next = nullptr /\ m[x].key = n[x].key /\ m[x].value = n[x].value
      /\ \A y \in DOMAIN node \ {x} : m[y] = n[y]
  <2>1. DOMAIN n = DOMAIN node /\ DOMAIN m = DOMAIN node
    BY <1>5 DEF SameBut
  <2>2. n[x] \in IsNode(DOMAIN node)
    BY <1>2, <1>5, <2>1 DEF IsNodes
  <2>3. /\ m[x].next = nullptr /\ m[x].key = n[x].key /\ m[x].value = n[x].value
        /\ m[x] \in IsNode(DOMAIN node)
    BY <1>2, <2>1, <2>2 DEF IsNode
  <2>4. \A y \in DOMAIN node \ {x} : m[y] = n[y]
    BY <2>1
  <2>5. \A y \in DOMAIN node : m[y] \in IsNode(DOMAIN node)
    BY <1>5, <2>1, <2>3, <2>4 DEF IsNodes
  <2>6. m \in [DOMAIN m -> IsNode(DOMAIN m)]
    BY <2>1, <2>5
  <2> HIDE DEF m
  <2> QED
    BY <1>3, <2>1, <2>3, <2>4, <2>6 DEF IsNodes
<1> HIDE DEF m
<1>8. \A q : IsList(n, q) /\ x \notin Nodes(n, q)
             => IsList(m, q) /\ Nodes(m, q) = Nodes(n, q)
  <2> SUFFICES ASSUME NEW q, IsList(n, q), x \notin Nodes(n, q)
               PROVE  IsList(m, q) /\ Nodes(m, q) = Nodes(n, q)
    OBVIOUS
  <2>1. DOMAIN n = DOMAIN node
    BY <1>5 DEF SameBut
  <2>2. \A y \in Nodes(n, q) : m[y].next = n[y].next
    BY <1>5, <1>7, <2>1, NodesOf
  <2> QED
    BY <1>5, <1>7, <2>1, <2>2, ListStays
<1>9. /\ IsList(m, p) /\ Nodes(m, p) = Used(i) \ {x}
      /\ \A j \in Buckets \ {i} : IsList(m, bucket[j]) /\ Nodes(m, bucket[j]) = Used(j)
      /\ IsList(m, free) /\ Nodes(m, free) = FreeNodes /\ x \notin FreeNodes
  <2>1. \A j \in Buckets \ {i} : Used(j) \cap Used(i) = {}
    BY <1>1 DEF HInv, Parted
  <2>2. FreeNodes \cap Used(i) = {} /\ x \notin FreeNodes
    BY <1>1, <1>2 DEF HInv, Parted
  <2>3. IsList(n, free) /\ Nodes(n, free) = FreeNodes
    BY <1>6, <2>2, UsedIsNodes DEF HInv, Lists
  <2>4. \A j \in Buckets \ {i} : IsList(n, bucket[j]) /\ Nodes(n, bucket[j]) = Used(j)
    BY <1>3, <1>6, <2>1, UsedIsNodes
  <2>5. \A j \in Buckets \ {i} : x \notin Used(j)
    BY <1>2, <2>1
  <2> QED
    BY <1>5, <1>8, <2>2, <2>3, <2>4, <2>5
<1>10. /\ IsNodes(l) /\ IsList(l, f) /\ Nodes(l, f) = FreeNodes \cup {x}
       /\ SameBut(m, l, FreeNodes \cup {x})
  <2>1. x \in DOMAIN m /\ x \notin Nodes(m, free) /\ IsList(m, free) /\ IsNodes(m)
    BY <1>2, <1>7, <1>9
  <2>2. /\ IsNodes(l) /\ IsList(l, f) /\ Nodes(l, f) = Nodes(m, free) \cup {x}
        /\ SameBut(m, l, Nodes(m, free) \cup {x})
    BY <2>1, PushList
  <2> QED
    BY <1>9, <2>2
<1> HIDE DEF f, l
<1>11. \A q : IsList(m, q) /\ Nodes(m, q) \cap (FreeNodes \cup {x}) = {}
              => IsList(l, q) /\ Nodes(l, q) = Nodes(m, q)
  <2> SUFFICES ASSUME NEW q, IsList(m, q), Nodes(m, q) \cap (FreeNodes \cup {x}) = {}
               PROVE  IsList(l, q) /\ Nodes(l, q) = Nodes(m, q)
    OBVIOUS
  <2>1. \A y \in Nodes(m, q) : l[y].next = m[y].next
    BY <1>7, <1>10, NodesOf DEF SameBut
  <2> QED
    BY <1>7, <1>10, <2>1, ListStays DEF SameBut
<1>12. bucket'[i] = p /\ \A j \in Buckets \ {i} : bucket'[j] = bucket[j]
  BY <1>1, <1>4 DEF HInv, Lists
<1>13. /\ Used(i)' = Used(i) \ {x}
       /\ \A j \in Buckets \ {i} : Used(j)' = Used(j) /\ IsList(node', bucket'[j])
       /\ IsList(node', bucket'[i])
       /\ FreeNodes' = FreeNodes \cup {x} /\ IsList(node', free')
  <2>1. \A j \in Buckets \ {i} : Used(j) \cap (FreeNodes \cup {x}) = {}
    BY <1>1, <1>2 DEF HInv, Parted
  <2>2. (Used(i) \ {x}) \cap (FreeNodes \cup {x}) = {}
    BY <1>1 DEF HInv, Parted
  <2>3. \A j \in Buckets \ {i} : IsList(l, bucket[j]) /\ Nodes(l, bucket[j]) = Used(j)
    BY <1>9, <1>11, <2>1
  <2>4. IsList(l, p) /\ Nodes(l, p) = Used(i) \ {x}
    BY <1>9, <1>11, <2>2
  <2> QED
    BY <1>1, <1>4, <1>10, <1>12, <2>3, <2>4, UsedIsNodesAfter
<1>14. DOMAIN node' = DOMAIN node
  BY <1>4, <1>7, <1>10 DEF SameBut
<1>15. \A y \in DOMAIN node : node'[y].key = node[y].key /\ node'[y].value = node[y].value
  <2>1. \A y \in DOMAIN node : n[y].key = node[y].key /\ n[y].value = node[y].value
    BY <1>5 DEF SameBut
  <2>2. \A y \in DOMAIN node : m[y].key = n[y].key /\ m[y].value = n[y].value
    BY <1>7
  <2> QED
    BY <1>4, <1>7, <1>10, <2>1, <2>2 DEF SameBut
<1>16. Held' = Held \ {x}
  <2>1. \A j \in Buckets \ {i} : x \notin Used(j)
    BY <1>1, <1>2 DEF HInv, Parted
  <2>2. \A j \in Buckets : Used(j)' = Used(j) \ {x}
    BY <1>13, <2>1
  <2> QED
    BY <2>2 DEF Held
<1>17. count' = Cardinality(Held') /\ count' \in Nat
  <2>1. IsFiniteSet(Held) /\ IsFiniteSet(Held')
    BY <1>16, HeldIsFinite, FS_RemoveElement
  <2>2. Cardinality(Held') = Cardinality(Held) - 1
    BY <1>2, <1>16, <2>1, FS_RemoveElement
  <2> QED
    BY <1>4, <2>1, <2>2, FS_CardinalityType DEF HInv
<1>18. Lists'
  <2>1. p \in IsQueue(DOMAIN node)
    BY <1>5 DEF IsList, SameBut
  <2>2. bucket' \in [Buckets -> IsQueue(DOMAIN node)]
    BY <1>4, <2>1 DEF HInv, Lists
  <2>3. IsNodes(node')
    BY <1>4, <1>10
  <2>4. DOMAIN node \subseteq 1..MaxNodes
    BY DEF HInv, Lists
  <2> QED
    BY <1>13, <1>14, <1>17, <2>2, <2>3, <2>4 DEF Lists
<1>19. Parted'
  <2>1. \A j, h \in Buckets : j # h => Used(j)' \cap Used(h)' = {}
    BY <1>13 DEF HInv, Parted
  <2>2. \A j \in Buckets : Used(j)' \cap FreeNodes' = {}
    BY <1>1, <1>2, <1>13 DEF HInv, Parted
  <2>3. ASSUME NEW y \in DOMAIN node
        PROVE  y \in FreeNodes' \/ \E j \in Buckets : y \in Used(j)'
    BY <1>1, <1>13 DEF HInv, Parted
  <2> QED
    BY <1>14, <2>1, <2>2, <2>3 DEF Parted
<1>20. Keyed'
  <2>1. \A j \in Buckets : Used(j)' \subseteq Used(j)
    BY <1>13
  <2> QED
    BY <1>3, <1>15, <2>1 DEF HInv, Keyed, IndexOf
<1>21. HInv'
  BY <1>17, <1>18, <1>19, <1>20 DEF HInv
<1> QED
  BY <1>2, <1>15, <1>16, <1>21, HeldIsFinite

(* A set of buckets has a last and a first member.                         *)
LEMMA MaxMin ==
  ASSUME NEW T, T \subseteq Buckets, T # {}
  PROVE  /\ Max(T) \in T /\ \A j \in T : Max(T) >= j
         /\ Min(T) \in T /\ \A j \in T : Min(T) <= j
<1>1. T \subseteq Nat /\ \A j \in T : j <= capacity - 1
  BY CapacityAssumption DEF Buckets
<1>2. \E j \in T : \A l \in T : j <= l
  BY <1>1, Least
<1>3. \E j \in T : \A l \in T : j >= l
  <2> DEFINE W == {capacity - 1 - j : j \in T}
  <2>1. W \subseteq Nat /\ W # {}
    <3>1. \A j \in T : capacity - 1 - j \in Nat
      BY <1>1, CapacityAssumption
    <3> QED
      BY <3>1
  <2>2. PICK w \in W : \A y \in W : w <= y
    BY <2>1, Least
  <2>3. PICK j \in T : w = capacity - 1 - j
    OBVIOUS
  <2>4. \A l \in T : w <= capacity - 1 - l
    BY <2>2
  <2>5. \A l \in T : j >= l
    BY <1>1, <2>3, <2>4, CapacityAssumption
  <2> QED
    BY <2>5
<1>4. Max(T) \in T /\ \A j \in T : Max(T) >= j
  BY <1>3 DEF Max
<1>5. Min(T) \in T /\ \A j \in T : Min(T) <= j
  BY <1>2 DEF Min
<1> QED
  BY <1>4, <1>5

(* The filled buckets, and the node each one's chain is linked behind.     *)
LEMMA FilledBuckets ==
  ASSUME HInv
  PROVE  /\ \A i \in Filled : /\ i \in Buckets /\ bucket[i].first \in Used(i)
                              /\ bucket[i].last \in Used(i) /\ node[bucket[i].last].next = nullptr
         /\ \A i \in Buckets \ Filled : Used(i) = {}
         /\ free.last # nullptr <=> free.first # nullptr
         /\ free.first # nullptr => /\ free.first \in FreeNodes /\ free.last \in FreeNodes
                                    /\ node[free.last].next = nullptr
         /\ free.first = nullptr => FreeNodes = {}
<1>1. IsNodes(node) /\ IsList(node, free) /\ \A i \in Buckets : IsList(node, bucket[i])
  BY DEF HInv, Lists
<1>2. nullptr \notin FreeNodes
  BY <1>1, NodesOf, UsedIsNodes DEF IsNodes
<1>3. \A i \in Filled : i \in Buckets /\ bucket[i].first # nullptr
  BY DEF Filled
<1>4. \A i \in Buckets \ Filled : bucket[i].first = nullptr
  BY DEF Filled
<1> QED
  BY <1>1, <1>2, <1>3, <1>4, NodesOf, UsedIsNodes DEF IsList, Ends

LEMMA Behind ==
  ASSUME HInv, NEW i \in Filled
  PROVE  \/ EndBefore(i) = free.last /\ \A j \in Filled : i <= j
         \/ \E j \in Filled : /\ EndBefore(i) = bucket[j].last /\ j < i
                              /\ \A h \in Filled : h < i => h <= j
<1> DEFINE earlier == {j \in Filled : j < i}
<1>1. Filled \subseteq Buckets /\ Buckets \subseteq Int
  BY DEF Filled, Buckets
<1>2. CASE earlier = {}
  BY <1>1, <1>2 DEF EndBefore
<1>3. CASE earlier # {}
  <2>1. Max(earlier) \in earlier /\ \A j \in earlier : Max(earlier) >= j
    BY <1>1, <1>3, MaxMin
  <2>2. EndBefore(i) = bucket[Max(earlier)].last
    BY <1>3 DEF EndBefore
  <2> HIDE DEF earlier
  <2>3. /\ Max(earlier) \in Filled /\ Max(earlier) < i
        /\ \A h \in Filled : h < i => h <= Max(earlier)
    BY <1>1, <2>1 DEF earlier
  <2> QED
    BY <2>2, <2>3
<1> QED
  BY <1>2, <1>3

LEMMA EndsDiffer ==
  ASSUME HInv, NEW i \in Filled, NEW j \in Filled, EndBefore(i) = EndBefore(j)
  PROVE  i = j
<1>1. \A h, l \in Filled : bucket[h].last = bucket[l].last => h = l
  BY FilledBuckets DEF HInv, Parted
<1>2. \A h \in Filled : bucket[h].last # free.last
  <2>1. \A h \in Filled : bucket[h].last # nullptr
    BY FilledBuckets, UsedIsNodes, NodesOf DEF HInv, Lists, IsNodes
  <2> QED
    BY <2>1, FilledBuckets DEF HInv, Parted
<1>3. Filled \subseteq Int
  BY DEF Filled, Buckets
<1>4. \A h \in Filled :
        \/ EndBefore(h) = free.last /\ \A l \in Filled : h <= l
        \/ \E l \in Filled : /\ EndBefore(h) = bucket[l].last /\ l < h
                             /\ \A g \in Filled : g < h => g <= l
  BY Behind
<1>5. ASSUME NEW g \in Filled, NEW h \in Filled, EndBefore(g) = EndBefore(h), g < h
      PROVE  FALSE
  <2>1. PICK l \in Filled : EndBefore(h) = bucket[l].last /\ l < h /\ g <= l
    BY <1>3, <1>4, <1>5
  <2>2. PICK l2 \in Filled : EndBefore(g) = bucket[l2].last /\ l2 < g
    BY <1>2, <1>4, <1>5, <2>1
  <2>3. l = l2
    BY <1>1, <1>5, <2>1, <2>2
  <2> QED
    BY <1>3, <2>1, <2>2, <2>3
<1> QED
  BY <1>3, <1>5

(* A clear links all chains behind the free list.                          *)
LEMMA ClearLinks ==
  ASSUME HInv, hashmap_clear
  PROVE  /\ IsNodes(node') /\ DOMAIN node' = DOMAIN node
         /\ \A i \in Filled : EndBefore(i) # nullptr =>
              /\ EndBefore(i) \in DOMAIN node /\ node[EndBefore(i)].next = nullptr
              /\ node'[EndBefore(i)].next = bucket[i].first
         /\ \A x \in DOMAIN node :
              (\A i \in Filled : EndBefore(i) # x) => node'[x].next = node[x].next
<1> DEFINE EndsChain(x) == \E i \in Filled : EndBefore(i) = x
           FirstAfter(x) == bucket[CHOOSE i \in Filled : EndBefore(i) = x].first
<1>1. node' = [x \in DOMAIN node |->
                 IF EndsChain(x) THEN [node[x] EXCEPT !.next = FirstAfter(x)] ELSE node[x]]
  BY DEF hashmap_clear
<1>2. ASSUME NEW i \in Filled
      PROVE  FirstAfter(EndBefore(i)) = bucket[i].first
  <2>1. \A j \in Filled : EndBefore(j) = EndBefore(i) => j = i
    BY EndsDiffer
  <2>2. (CHOOSE j \in Filled : EndBefore(j) = EndBefore(i)) = i
    BY <2>1
  <2> QED
    BY <2>2
<1> HIDE DEF FirstAfter, EndsChain
<1>3. \A x \in DOMAIN node : node[x] \in IsNode(DOMAIN node)
  BY DEF HInv, Lists, IsNodes
<1>4. \A i \in Filled : bucket[i].first \in DOMAIN node
  BY FilledBuckets, UsedIsNodes, NodesOf DEF HInv, Lists
<1>5. ASSUME NEW x \in DOMAIN node, EndsChain(x)
      PROVE  node'[x] \in IsNode(DOMAIN node) /\ node'[x].next = FirstAfter(x)
  <2>1. PICK i \in Filled : EndBefore(i) = x
    BY <1>5 DEF EndsChain
  <2>2. FirstAfter(x) \in DOMAIN node
    BY <1>2, <1>4, <2>1
  <2>3. node'[x] = [node[x] EXCEPT !.next = FirstAfter(x)]
    BY <1>1, <1>5
  <2>4. node[x] \in IsNode(DOMAIN node)
    BY <1>3
  <2> QED
    BY <2>2, <2>3, <2>4 DEF IsNode
<1>6. \A x \in DOMAIN node : ~EndsChain(x) => node'[x] = node[x]
  BY <1>1
<1>7. DOMAIN node' = DOMAIN node
  BY <1>1
<1>8. IsNodes(node')
  <2>1. \A x \in DOMAIN node : node'[x] \in IsNode(DOMAIN node)
    BY <1>3, <1>5, <1>6
  <2>2. node' \in [DOMAIN node' -> IsNode(DOMAIN node')]
    BY <1>1, <1>7, <2>1
  <2> QED
    BY <1>7, <2>2 DEF HInv, Lists, IsNodes
<1>9. ASSUME NEW i \in Filled, EndBefore(i) # nullptr
      PROVE  EndBefore(i) \in DOMAIN node /\ node[EndBefore(i)].next = nullptr
  BY <1>9, Behind, FilledBuckets, UsedIsNodes, NodesOf DEF HInv, Lists
<1> QED
  BY <1>2, <1>5, <1>6, <1>7, <1>8, <1>9 DEF EndsChain

LEMMA ClearFreesAll ==
  ASSUME HInv, hashmap_clear, Filled # {}
  PROVE  IsList(node', free') /\ FreeNodes' = DOMAIN node
<1> DEFINE D == DOMAIN node
           lo == Min(Filled)
           hi == Max(Filled)
           f == IF free.last = nullptr THEN bucket[lo].first ELSE free.first
           e == bucket[hi].last
           IsTail(x) == \E i \in Filled : EndBefore(i) = x
<1>1. /\ IsNodes(node') /\ DOMAIN node' = D
      /\ \A i \in Filled : EndBefore(i) # nullptr =>
           /\ EndBefore(i) \in D /\ node[EndBefore(i)].next = nullptr
           /\ node'[EndBefore(i)].next = bucket[i].first
      /\ \A x \in D : ~IsTail(x) => node'[x].next = node[x].next
  BY ClearLinks
<1>2. free' = [first |-> f, last |-> e]
  BY DEF hashmap_clear
<1>3. /\ Filled \subseteq Buckets /\ Filled \subseteq Int
      /\ hi \in Filled /\ \A j \in Filled : hi >= j
      /\ lo \in Filled /\ \A j \in Filled : lo <= j
  <2>1. Filled \subseteq Buckets /\ Filled \subseteq Int
    BY DEF Filled, Buckets
  <2> QED
    BY <2>1, MaxMin
<1> HIDE DEF lo, hi
<1>4. /\ \A i \in Filled : /\ bucket[i].first \in Used(i)
                           /\ bucket[i].last \in Used(i) /\ node[bucket[i].last].next = nullptr
      /\ \A i \in Buckets \ Filled : Used(i) = {}
      /\ free.last # nullptr <=> free.first # nullptr
      /\ free.first # nullptr => /\ free.first \in FreeNodes /\ free.last \in FreeNodes
                                 /\ node[free.last].next = nullptr
      /\ free.first = nullptr => FreeNodes = {}
  BY FilledBuckets
<1>5. /\ \A i \in Filled : Used(i) \subseteq D /\ Closed(node, Used(i)) /\ IsList(node, bucket[i])
      /\ FreeNodes \subseteq D /\ Closed(node, FreeNodes) /\ IsList(node, free) /\ nullptr \notin D
      /\ IsNodes(node)
  BY <1>3, NodesOf, UsedIsNodes DEF HInv, Lists, IsNodes
<1>6. /\ \A i, j \in Filled : i # j => Used(i) \cap Used(j) = {}
      /\ \A i \in Filled : Used(i) \cap FreeNodes = {}
      /\ \A x \in D : x \in FreeNodes \/ \E i \in Filled : x \in Used(i)
  BY <1>3, <1>4 DEF HInv, Parted
<1>7. \A i \in Filled :
        \/ EndBefore(i) = free.last /\ \A j \in Filled : i <= j
        \/ \E j \in Filled : /\ EndBefore(i) = bucket[j].last /\ j < i
                             /\ \A h \in Filled : h < i => h <= j
  BY Behind
<1>8. \A x \in D : IsTail(x) => node[x].next = nullptr
  BY <1>1, <1>5
<1>9. f \in D /\ e \in D /\ f # nullptr
  BY <1>3, <1>4, <1>5
<1> HIDE DEF f, e, IsTail
(* Nothing else leads to the first node of a list.                         *)
<1>10. ASSUME NEW x \in D, ~IsTail(x), node'[x].next # nullptr
       PROVE  /\ node'[x].next = node[x].next
              /\ node'[x].next # f
              /\ \A i \in Filled : node'[x].next # bucket[i].first
  <2>1. node'[x].next = node[x].next
    BY <1>1, <1>10
  <2>2. CASE x \in FreeNodes
    <3>1. node[x].next \in FreeNodes /\ node[x].next # free.first /\ free.last # nullptr
      BY <1>4, <1>5, <1>10, <2>1, <2>2, UsedIsNodes DEF Closed, IsList, Straight
    <3> QED
      BY <1>4, <1>6, <2>1, <3>1 DEF f
  <2>3. CASE \E i \in Filled : x \in Used(i)
    <3>1. PICK i \in Filled : x \in Used(i)
      BY <2>3
    <3>2. node[x].next \in Used(i) /\ node[x].next # bucket[i].first
      BY <1>3, <1>5, <1>10, <2>1, <3>1, UsedIsNodes DEF Closed, IsList, Straight
    <3>3. \A j \in Filled : node[x].next # bucket[j].first
      BY <1>4, <1>6, <3>2
    <3>4. node[x].next # f
      BY <1>3, <1>4, <1>6, <3>2, <3>3 DEF f
    <3> QED
      BY <2>1, <3>3, <3>4
  <2> QED
    BY <1>6, <2>1, <2>2, <2>3
<1>11. ASSUME NEW S, f \in S, Closed(node', S)
       PROVE  D \subseteq S
  <2>1. \A x \in S \cap D : node[x].next # nullptr => node[x].next \in S
    BY <1>1, <1>8, <1>11 DEF Closed
  <2>2. FreeNodes \subseteq S
    <3>1. CASE free.first = nullptr
      BY <1>4, <3>1
    <3>2. CASE free.first # nullptr
      <4>1. f = free.first /\ free.first \in DOMAIN node
        BY <1>4, <1>5, <3>2 DEF f
      <4>2. Closed(node, S \cap FreeNodes)
        BY <1>5, <2>1 DEF Closed
      <4>3. free.first \in S \cap FreeNodes
        BY <1>4, <1>11, <3>2, <4>1
      <4> QED
        BY <1>5, <4>1, <4>2, <4>3, ChainIsLeast DEF FreeNodes
    <3> QED
      BY <3>1, <3>2
  <2>3. ASSUME NEW i \in Filled, \A j \in Filled : j < i => Used(j) \subseteq S
        PROVE  Used(i) \subseteq S
    <3>1. bucket[i].first \in S
      <4>1. CASE EndBefore(i) = free.last /\ \A j \in Filled : i <= j
        <5>1. CASE free.last = nullptr
          <6>1. i = lo
            BY <1>3, <4>1
          <6> QED
            BY <1>11, <5>1, <6>1 DEF f
        <5>2. CASE free.last # nullptr
          <6>1. free.last \in S
            BY <1>4, <2>2, <5>2
          <6>2. node'[free.last].next = bucket[i].first /\ bucket[i].first # nullptr
            BY <1>1, <1>4, <1>5, <4>1, <5>2
          <6> QED
            BY <1>11, <6>1, <6>2 DEF Closed
        <5> QED
          BY <5>1, <5>2
      <4>2. ASSUME NEW j \in Filled, EndBefore(i) = bucket[j].last, j < i
            PROVE  bucket[i].first \in S
        <5>1. bucket[j].last \in S /\ bucket[j].last # nullptr
          BY <1>4, <1>5, <2>3, <4>2
        <5>2. node'[bucket[j].last].next = bucket[i].first /\ bucket[i].first # nullptr
          BY <1>1, <1>4, <1>5, <4>2, <5>1
        <5> QED
          BY <1>11, <5>1, <5>2 DEF Closed
      <4> QED
        BY <1>7, <4>1, <4>2
    <3>2. Closed(node, S \cap Used(i))
      BY <1>5, <2>1 DEF Closed
    <3>3. bucket[i].first \in S \cap Used(i) /\ bucket[i].first \in DOMAIN node
      BY <1>4, <1>5, <3>1
    <3>4. Chain(node, bucket[i].first) \subseteq S
      BY <1>5, <3>2, <3>3, ChainIsLeast
    <3> QED
      BY <3>4 DEF Used
  <2>4. \A i \in Filled : Used(i) \subseteq S
    <3> DEFINE Bad == {i \in Filled : ~(Used(i) \subseteq S)}
    <3> SUFFICES ASSUME Bad # {} PROVE FALSE
      OBVIOUS
    <3>1. Bad \subseteq Buckets
      BY <1>3
    <3>2. PICK b \in Bad : \A j \in Bad : b <= j
      BY <3>1, MaxMin
    <3>3. \A j \in Filled : j < b => Used(j) \subseteq S
      <4> SUFFICES ASSUME NEW j \in Filled, j < b, j \in Bad PROVE FALSE
        OBVIOUS
      <4>1. b <= j /\ b \in Int /\ j \in Int
        BY <1>3, <3>2
      <4> QED
        BY <4>1
    <3> QED
      BY <2>3, <3>2, <3>3
  <2> QED
    BY <1>6, <2>2, <2>4
<1>12. Closed(node', D)
  BY <1>1 DEF Closed, IsNodes, IsNode
<1>13. Chain(node', f) = D
  BY <1>1, <1>9, <1>11, <1>12, ChainIs
<1>14. free'.first = f /\ free'.last = e /\ free' \in IsQueue(DOMAIN node')
  BY <1>1, <1>2, <1>9 DEF IsQueue
<1>15. Nodes(node', free') = D
  BY <1>13, <1>14 DEF Nodes
<1>16. node'[e].next = nullptr
  <2>1. ~IsTail(e)
    <3> SUFFICES ASSUME NEW i \in Filled, EndBefore(i) = e PROVE FALSE
      BY DEF IsTail
    <3>1. e \in Used(hi) /\ e \notin FreeNodes
      BY <1>3, <1>4, <1>6 DEF e
    <3>2. EndBefore(i) # free.last
      BY <1>4, <1>5, <1>9, <3>1
    <3>3. PICK j \in Filled : EndBefore(i) = bucket[j].last /\ j < i
      BY <1>7, <3>2
    <3>4. j = hi
      BY <1>3, <1>4, <1>6, <3>1, <3>3
    <3> QED
      BY <1>3, <3>3, <3>4
  <2>2. node[e].next = nullptr
    BY <1>3, <1>4 DEF e
  <2> QED
    BY <1>1, <1>9, <2>1, <2>2
<1>17. ASSUME NEW x \in D, IsTail(x)
       PROVE  \E i \in Filled : EndBefore(i) = x /\ node'[x].next = bucket[i].first
  BY <1>1, <1>5, <1>17 DEF IsTail
<1>18. ASSUME NEW x \in D, node'[x].next # nullptr
       PROVE  node'[x].next # f
  <2>1. CASE IsTail(x)
    <3>1. PICK i \in Filled : EndBefore(i) = x /\ node'[x].next = bucket[i].first
      BY <1>17, <2>1
    <3>2. CASE free.last # nullptr
      BY <1>4, <1>6, <3>1, <3>2 DEF f
    <3>3. CASE free.last = nullptr
      <4> SUFFICES ASSUME bucket[i].first = f PROVE FALSE
        BY <3>1
      <4>1. i = lo
        BY <1>3, <1>4, <1>6, <3>3 DEF f
      <4>2. EndBefore(i) = nullptr
        <5>1. ~ \E j \in Filled : j < i
          BY <1>3, <4>1
        <5>2. EndBefore(i) = free.last
          BY <1>7, <5>1
        <5> QED
          BY <3>3, <5>2
      <4> QED
        BY <1>5, <3>1, <4>2
    <3> QED
      BY <3>2, <3>3
  <2>2. CASE ~IsTail(x)
    BY <1>10, <1>18, <2>2
  <2> QED
    BY <2>1, <2>2
<1>19. ASSUME NEW x \in D, NEW y \in D, node'[x].next = node'[y].next, node'[x].next # nullptr
       PROVE  x = y
  <2>1. CASE IsTail(x) /\ IsTail(y)
    BY <1>4, <1>6, <1>17, <1>19, <2>1
  <2>2. CASE IsTail(x) /\ ~IsTail(y)
    <3>1. PICK i \in Filled : node'[x].next = bucket[i].first
      BY <1>17, <2>2
    <3> QED
      BY <1>10, <1>19, <2>2, <3>1
  <2>4. CASE ~IsTail(x) /\ IsTail(y)
    <3>1. PICK i \in Filled : node'[y].next = bucket[i].first
      BY <1>17, <2>4
    <3> QED
      BY <1>10, <1>19, <2>4, <3>1
  <2>3. CASE ~IsTail(x) /\ ~IsTail(y)
    <3>1. node[x].next = node[y].next /\ node[x].next # nullptr
      BY <1>1, <1>19, <2>3
    <3>2. CASE x \in FreeNodes
      <4>1. node[x].next \in FreeNodes
        BY <1>5, <3>1, <3>2 DEF Closed
      <4>2. y \in FreeNodes
        BY <1>5, <1>6, <3>1, <4>1 DEF Closed
      <4> QED
        BY <1>5, <3>1, <3>2, <4>2, UsedIsNodes DEF IsList, Straight
    <3>3. ASSUME NEW i \in Filled, x \in Used(i)
          PROVE  x = y
      <4>1. node[x].next \in Used(i)
        BY <1>5, <3>1, <3>3 DEF Closed
      <4>2. y \in Used(i)
        BY <1>5, <1>6, <3>1, <4>1 DEF Closed
      <4> QED
        BY <1>3, <1>5, <3>1, <3>3, <4>2, UsedIsNodes DEF IsList, Straight
    <3> QED
      BY <1>6, <3>2, <3>3
  <2> QED
    BY <2>1, <2>2, <2>3, <2>4
<1>20. Straight(node', free')
  BY <1>14, <1>15, <1>18, <1>19 DEF Straight
<1>21. Ends(node', free')
  BY <1>9, <1>14, <1>15, <1>16 DEF Ends
<1> QED
  BY <1>14, <1>15, <1>20, <1>21, UsedIsNodesAfter DEF IsList

LEMMA ClearDoes ==
  ASSUME HInv, hashmap_clear
  PROVE  HInv' /\ Held' = {}
<1>1. IsNodes(node') /\ DOMAIN node' = DOMAIN node
  BY ClearLinks
<1>2. bucket' = [i \in Buckets |-> Empty] /\ count' = 0
  BY DEF hashmap_clear
<1>3. IsList(node', Empty) /\ Nodes(node', Empty) = {} /\ Empty \in IsQueue(DOMAIN node')
  BY EmptyIsList DEF IsList
<1>4. (\A i \in Buckets : Used(i)' = {}) /\ Held' = {}
  <2>1. \A i \in Buckets : Used(i)' = {}
    BY <1>2, <1>3, UsedIsNodesAfter
  <2> QED
    BY <2>1 DEF Held
<1>5. IsList(node', free') /\ FreeNodes' = DOMAIN node
  <2>1. CASE Filled # {}
    BY <2>1, ClearFreesAll
  <2>2. CASE Filled = {}
    <3>1. free' = free /\ \A x \in DOMAIN node : node'[x].next = node[x].next
      BY <2>2, ClearLinks DEF hashmap_clear
    <3>2. \A i \in Buckets : Used(i) = {}
      BY <2>2, FilledBuckets
    <3>3. FreeNodes = DOMAIN node
      BY <3>2, NodesOf, UsedIsNodes DEF HInv, Lists, Parted
    <3>4. \A y \in Nodes(node, free) : node'[y].next = node[y].next
      BY <3>1, <3>3, UsedIsNodes
    <3>5. IsList(node', free) /\ Nodes(node', free) = Nodes(node, free)
      BY <1>1, <3>4, ListStays DEF HInv, Lists
    <3> QED
      BY <3>1, <3>3, <3>5, UsedIsNodes, UsedIsNodesAfter
  <2> QED
    BY <2>1, <2>2
<1>6. Lists'
  BY <1>1, <1>2, <1>3, <1>5 DEF HInv, Lists
<1>7. Parted' /\ Keyed'
  BY <1>1, <1>4, <1>5 DEF Parted, Keyed
<1>8. count' = Cardinality(Held')
  BY <1>2, <1>4, FS_EmptySet
<1> QED
  BY <1>4, <1>6, <1>7, <1>8 DEF HInv

LEMMA StepInv ==
  ASSUME HInv, [HashMapNext]_hashmap_vars
  PROVE  HInv'
<1>1. CASE HashMapNext
  BY <1>1, OverwriteDoes, InsertDoes, RemoveDoes, ClearDoes DEF HashMapNext, hashmap_insert
<1>2. CASE UNCHANGED hashmap_vars
  <2>1. /\ \A i \in Buckets : Used(i)' = Used(i)
        /\ FreeNodes' = FreeNodes /\ Held' = Held
    BY <1>2 DEF hashmap_vars, Used, FreeNodes, Held
  <2>2. Lists' /\ Parted' /\ Keyed'
    BY <1>2, <2>1 DEF HInv, Lists, Parted, Keyed, hashmap_vars, IndexOf
  <2> QED
    BY <1>2, <2>1, <2>2 DEF HInv, hashmap_vars
<1> QED
  BY <1>1, <1>2

(* HashMapInv: the invariant holds of every behaviour of the map.          *)
THEOREM HashMapInv == HashMapSpec => []HInv
<1>1. HInv /\ [HashMapNext]_hashmap_vars => HInv'
  BY StepInv
<1> QED
  BY <1>1, InitInv, PTL DEF HashMapSpec

(* NodesAccounted: in every map, of any keys, hashes and capacity, a node  *)
(* is in one bucket, its key's, or on the free list, every list ends where *)
(* its last pointer says, and count is the number of nodes in buckets      *)
(* (hashmap.c:86-210, core.h:124-180).                                     *)
THEOREM NodesAccounted == HashMapSpec => []NodesAreAccounted
<1>1. HInv => NodesAreAccounted
  <2> SUFFICES ASSUME HInv PROVE NodesAreAccounted
    OBVIOUS
  <2>1. /\ \A i, j \in Buckets : i # j => Used(i) \cap Used(j) = {}
        /\ \A i \in Buckets : Used(i) \cap FreeNodes = {}
        /\ \A i \in Buckets : \A x \in Used(i) : IndexOf(node[x].key) = i
        /\ count = Cardinality(Held)
    BY DEF HInv, Parted, Keyed
  <2>2. Held \cap FreeNodes = {}
    BY <2>1 DEF Held
  <2>3. FreeNodes \subseteq DOMAIN node
    BY NodesOf, UsedIsNodes DEF HInv, Lists
  <2>4. Held \cup FreeNodes = DOMAIN node
    BY <2>3, HeldIsFinite DEF HInv, Parted, Held
  <2>5. \A q \in {bucket[i] : i \in Buckets} \cup {free} : IsList(node, q)
    BY DEF HInv, Lists
  <2>6. \A q \in {bucket[i] : i \in Buckets} \cup {free} :
          IF q.first = nullptr THEN q.last = nullptr
          ELSE q.last \in Chain(node, q.first) /\ node[q.last].next = nullptr
    BY <2>5 DEF IsList, Ends, Nodes
  <2> QED
    BY <2>1, <2>2, <2>4, <2>6 DEF NodesAreAccounted
<1> QED
  BY <1>1, HashMapInv, PTL

-----------------------------------------------------------------------------
(* The map is a dictionary.                                                *)

LEMMA InitIsInit ==
  ASSUME HashMapInit
  PROVE  Map!Init
<1>1. \A i \in Buckets : bucket[i].first = nullptr
  BY DEF HashMapInit, Empty
<1>2. \A k \in Keys : Matches(k) = {}
  BY <1>1, IndexInRange, ChainOfNull DEF Matches
<1>3. \A k \in Keys : FindNode(k) = nullptr
  BY <1>2 DEF FindNode
<1>4. DOMAIN hashmap_get = {}
  BY <1>3 DEF hashmap_get
<1> QED
  BY <1>4 DEF hashmap_get, Map!Init

LEMMA KeysAreApart ==
  ASSUME HInv, NEW x \in Held, NEW y \in Held, node[x].key = node[y].key
  PROVE  x = y
BY Found, HeldKeys

LEMMA InsertIsInsert ==
  ASSUME HInv, Answers, HInv', Answers', NEW k \in Keys, NEW v \in Values, hashmap_insert(k, v)
  PROVE  Map!Insert(k, v)
<1> DEFINE new == [x \in DOMAIN hashmap_get \cup {k} |-> IF x = k THEN v ELSE hashmap_get[x]]
<1>1. \E x \in Held' : /\ node'[x].key = k /\ node'[x].value = v
                       /\ Held' = Held \cup {x}
                       /\ \A y \in Held \ {x} : /\ node'[y].key = node[y].key /\ node[y].key # k
                                                /\ node'[y].value = node[y].value
                       /\ x \in Held => node[x].key = k
  <2>1. CASE Overwrite(k, v)
    <3> DEFINE x == FindNode(k)
    <3>1. /\ Held' = Held /\ x \in Held /\ node[x].key = k /\ node'[x].value = v
          /\ \A y \in Held : node'[y].key = node[y].key
          /\ \A y \in Held \ {x} : node'[y].value = node[y].value
      BY <2>1, OverwriteDoes
    <3>2. \A y \in Held \ {x} : node[y].key # k
      BY <3>1, KeysAreApart
    <3> HIDE DEF x
    <3> QED
      BY <3>1, <3>2
  <2>2. CASE InsertNew(k, v)
    <3>1. PICK x : /\ x \notin Held /\ Held' = Held \cup {x}
                   /\ node'[x].key = k /\ node'[x].value = v
                   /\ \A y \in Held : /\ node'[y].key = node[y].key
                                      /\ node'[y].value = node[y].value
      BY <2>2, InsertDoes
    <3>2. \A y \in Held : node[y].key # k
      BY <2>2, Found DEF InsertNew
    <3> QED
      BY <3>1, <3>2
  <2> QED
    BY <2>1, <2>2 DEF hashmap_insert
<1>2. PICK x \in Held' : /\ node'[x].key = k /\ node'[x].value = v
                         /\ Held' = Held \cup {x}
                         /\ \A y \in Held \ {x} : /\ node'[y].key = node[y].key /\ node[y].key # k
                                                  /\ node'[y].value = node[y].value
                         /\ x \in Held => node[x].key = k
  BY <1>1
<1>3. /\ \A y \in Held : /\ node[y].key \in DOMAIN hashmap_get
                         /\ hashmap_get[node[y].key] = node[y].value
      /\ \A l \in DOMAIN hashmap_get : \E y \in Held : node[y].key = l
  BY DEF Answers
<1>4. /\ \A y \in Held' : /\ node'[y].key \in DOMAIN hashmap_get'
                          /\ hashmap_get'[node'[y].key] = node'[y].value
      /\ \A l \in DOMAIN hashmap_get' : \E y \in Held' : node'[y].key = l
      /\ hashmap_get' = [l \in DOMAIN hashmap_get' |-> hashmap_get'[l]]
  BY DEF Answers
<1>5. DOMAIN hashmap_get' = DOMAIN hashmap_get \cup {k}
  <2>1. ASSUME NEW l \in DOMAIN hashmap_get' PROVE l \in DOMAIN hashmap_get \cup {k}
    BY <1>2, <1>3, <1>4
  <2>2. ASSUME NEW l \in DOMAIN hashmap_get PROVE l \in DOMAIN hashmap_get'
    <3>1. PICK y \in Held : node[y].key = l
      BY <1>3
    <3> QED
      BY <1>2, <1>4, <3>1
  <2>3. k \in DOMAIN hashmap_get'
    BY <1>2, <1>4
  <2> QED
    BY <2>1, <2>2, <2>3
<1>6. hashmap_get'[k] = v
  BY <1>2, <1>4
<1>7. ASSUME NEW l \in DOMAIN hashmap_get, l # k
      PROVE  hashmap_get'[l] = hashmap_get[l]
  <2>1. PICK y \in Held : node[y].key = l
    BY <1>3
  <2>2. node'[y].key = l /\ node'[y].value = node[y].value /\ y \in Held'
    BY <1>2, <1>7, <2>1
  <2> QED
    BY <1>3, <1>4, <2>1, <2>2
<1>8. hashmap_get' = new
  BY <1>4, <1>5, <1>6, <1>7
<1> QED
  BY <1>8 DEF Map!Insert

LEMMA RemoveIsDelete ==
  ASSUME HInv, Answers, HInv', Answers', NEW k \in Keys, hashmap_remove(k)
  PROVE  Map!Delete(k)
<1>1. PICK x \in Held : /\ Held' = Held \ {x} /\ node[x].key = k
                        /\ \A y \in Held : /\ node'[y].key = node[y].key
                                           /\ node'[y].value = node[y].value
  BY RemoveDoes
<1>2. \A y \in Held' : node[y].key # k
  BY <1>1, KeysAreApart
<1>3. /\ \A y \in Held : /\ node[y].key \in DOMAIN hashmap_get
                         /\ hashmap_get[node[y].key] = node[y].value
      /\ \A l \in DOMAIN hashmap_get : \E y \in Held : node[y].key = l
  BY DEF Answers
<1>4. /\ \A y \in Held' : /\ node'[y].key \in DOMAIN hashmap_get'
                          /\ hashmap_get'[node'[y].key] = node'[y].value
      /\ \A l \in DOMAIN hashmap_get' : \E y \in Held' : node'[y].key = l
      /\ hashmap_get' = [l \in DOMAIN hashmap_get' |-> hashmap_get'[l]]
  BY DEF Answers
<1>5. DOMAIN hashmap_get' = DOMAIN hashmap_get \ {k}
  <2>1. ASSUME NEW l \in DOMAIN hashmap_get' PROVE l \in DOMAIN hashmap_get \ {k}
    <3>1. PICK y \in Held' : node'[y].key = l
      BY <1>4
    <3> QED
      BY <1>1, <1>2, <1>3, <3>1
  <2>2. ASSUME NEW l \in DOMAIN hashmap_get, l # k PROVE l \in DOMAIN hashmap_get'
    <3>1. PICK y \in Held : node[y].key = l
      BY <1>3
    <3> QED
      BY <1>1, <1>4, <2>2, <3>1
  <2> QED
    BY <2>1, <2>2
<1>6. ASSUME NEW l \in DOMAIN hashmap_get \ {k}
      PROVE  hashmap_get'[l] = hashmap_get[l]
  <2>1. PICK y \in Held : node[y].key = l
    BY <1>3
  <2> QED
    BY <1>1, <1>3, <1>4, <2>1
<1>7. hashmap_get' = [l \in DOMAIN hashmap_get \ {k} |-> hashmap_get[l]]
  BY <1>4, <1>5, <1>6
<1> QED
  BY <1>7 DEF Map!Delete

LEMMA ClearIsClear ==
  ASSUME HInv, Answers', hashmap_clear
  PROVE  Map!Clear
<1>1. Held' = {}
  BY ClearDoes
<1>2. DOMAIN hashmap_get' = {} /\ hashmap_get' = [l \in DOMAIN hashmap_get' |-> hashmap_get'[l]]
  BY <1>1 DEF Answers
<1>3. hashmap_get' = [k \in {} |-> k]
  BY <1>2
<1> QED
  BY <1>3 DEF Map!Clear

LEMMA StepIsStep ==
  ASSUME HInv, Answers, HInv', Answers', [HashMapNext]_hashmap_vars
  PROVE  [hashmap_vars' # hashmap_vars => OperationsAreThose /\ [Map!Next]_hashmap_get]_hashmap_vars
<1>1. OperationsAreThose
  BY InsertIsInsert, RemoveIsDelete, ClearIsClear DEF OperationsAreThose
<1>2. CASE HashMapNext
  <2>1. Map!Next
    BY <1>1, <1>2 DEF HashMapNext, OperationsAreThose, Map!Next
  <2> QED
    BY <1>1, <2>1
<1>3. CASE UNCHANGED hashmap_vars
  BY <1>3
<1> QED
  BY <1>2, <1>3

(* IsDictionary: the map implements the dictionary, for any keys, hashes,  *)
(* capacity and number of nodes: each operation changes what it can find   *)
(* as a dictionary's does, for the key it names alone, whatever keys share *)
(* its bucket or its hash (hashmap.c:108-210).                             *)
THEOREM IsDictionary == HashMapSpec => ImplementsDictionary
<1>1. HInv /\ HInv' /\ Answers /\ Answers' /\ [HashMapNext]_hashmap_vars
      => [hashmap_vars' # hashmap_vars => OperationsAreThose /\ [Map!Next]_hashmap_get]_hashmap_vars
  BY StepIsStep
<1>2. HashMapInit => Map!Init
  BY InitIsInit
<1> QED
  BY <1>1, <1>2, HashMapInv, InvAnswers, PTL DEF HashMapSpec, ImplementsDictionary

-----------------------------------------------------------------------------
(***************************************************************************)
(* Proofs about the string allocator, for any sizes: powers of two first,  *)
(* then the bucket that a length is given, then the blocks.                *)
(***************************************************************************)

(* The powers of two up to the k-th.                                       *)
Doubles(f, k) ==
  /\ f \in [0..k -> Nat] /\ f[0] = 1
  /\ \A i \in 0..k : i # 0 => f[i] = 2 * f[i - 1]

LEMMA DoublesAgree ==
  ASSUME NEW m \in Nat, NEW k \in Nat, m <= k, NEW f, NEW g, Doubles(f, m), Doubles(g, k)
  PROVE  \A i \in 0..m : f[i] = g[i]
<1> SUFFICES ASSUME {i \in 0..m : f[i] # g[i]} # {} PROVE FALSE
  OBVIOUS
<1>1. {i \in 0..m : f[i] # g[i]} \subseteq Nat
  OBVIOUS
<1>2. PICK i \in {x \in 0..m : f[x] # g[x]} : \A j \in {x \in 0..m : f[x] # g[x]} : i <= j
  BY <1>1, Least
<1>3. i # 0
  BY <1>2 DEF Doubles
<1>4. i - 1 \in 0..m /\ ~ (i <= i - 1)
  BY <1>3
<1>5. f[i - 1] = g[i - 1]
  BY <1>2, <1>4
<1>6. i \in 0..k /\ f[i] = 2 * f[i - 1] /\ g[i] = 2 * g[i - 1]
  BY <1>3 DEF Doubles
<1> QED
  BY <1>2, <1>5, <1>6

LEMMA DoublesExist == \A k \in Nat : \E f : Doubles(f, k)
<1> DEFINE B == {k \in Nat : ~ \E f : Doubles(f, k)}
<1> SUFFICES ASSUME B # {} PROVE FALSE
  OBVIOUS
<1>1. PICK k \in B : \A j \in B : k <= j
  BY Least
<1>2. k # 0
  <2>1. Doubles([i \in 0..0 |-> 1], 0)
    BY DEF Doubles
  <2> QED
    BY <1>1, <2>1
<1>3. k - 1 \in Nat /\ ~ (k <= k - 1)
  BY <1>2
<1>4. PICK f : Doubles(f, k - 1)
  BY <1>1, <1>3
<1> DEFINE g == [i \in 0..k |-> IF i = k THEN 2 * f[k - 1] ELSE f[i]]
<1>5. \A i \in 0..(k - 1) : f[i] \in Nat
  BY <1>4 DEF Doubles
<1>6. \A i \in 0..k : i # k => i \in 0..(k - 1)
  OBVIOUS
<1>7. k - 1 \in 0..(k - 1)
  BY <1>3
<1>8. g \in [0..k -> Nat] /\ g[0] = 1
  BY <1>2, <1>4, <1>5, <1>6, <1>7 DEF Doubles
<1>9. ASSUME NEW i \in 0..k, i # 0 PROVE g[i] = 2 * g[i - 1]
  <2>1. i - 1 \in 0..k /\ i - 1 # k /\ g[i - 1] = f[i - 1]
    BY <1>9
  <2>2. CASE i = k
    BY <2>1, <2>2
  <2>3. CASE i # k
    BY <1>4, <1>6, <1>9, <2>1, <2>3 DEF Doubles
  <2> QED
    BY <2>2, <2>3
<1>10. Doubles(g, k)
  BY <1>8, <1>9 DEF Doubles
<1> QED
  BY <1>1, <1>10

LEMMA PowerEquation == Power = [n \in Nat |-> IF n = 0 THEN 1 ELSE 2 * Power[n - 1]]
<1> DEFINE G(k) == CHOOSE f : Doubles(f, k)
           F == [n \in Nat |-> G(n)[n]]
<1>1. \A k \in Nat : Doubles(G(k), k)
  BY DoublesExist
<1>2. F[0] = 1
  BY <1>1 DEF Doubles
<1>3. ASSUME NEW n \in Nat, n # 0 PROVE F[n] = 2 * F[n - 1]
  <2>1. n - 1 \in Nat /\ n - 1 <= n /\ n - 1 \in 0..(n - 1) /\ n \in 0..n
    BY <1>3
  <2>2. Doubles(G(n), n) /\ Doubles(G(n - 1), n - 1)
    BY <1>1, <2>1
  <2> HIDE DEF G
  <2>3. G(n - 1)[n - 1] = G(n)[n - 1]
    BY <2>1, <2>2, DoublesAgree
  <2>4. G(n)[n] = 2 * G(n)[n - 1]
    BY <1>3, <2>1, <2>2 DEF Doubles
  <2> QED
    BY <2>1, <2>3, <2>4
<1> HIDE DEF F
<1>4. F = [n \in Nat |-> F[n]]
  BY DEF F
<1>5. F = [n \in Nat |-> IF n = 0 THEN 1 ELSE 2 * F[n - 1]]
  BY <1>2, <1>3, <1>4
<1>6. \E f : f = [n \in Nat |-> IF n = 0 THEN 1 ELSE 2 * f[n - 1]]
  BY <1>5
<1> QED
  BY <1>6 DEF Power

(* Powers of two double, and so outgrow their exponents.                   *)
LEMMA PowerGrows ==
  /\ Power[0] = 1
  /\ \A n \in Nat : Power[n] \in Nat /\ Power[n] > n /\ Power[n + 1] = 2 * Power[n]
<1>1. Power[0] = 1
  BY PowerEquation
<1>2. \A n \in Nat : n # 0 => Power[n] = 2 * Power[n - 1]
  BY PowerEquation
<1>3. ASSUME NEW n \in Nat PROVE Power[n + 1] = 2 * Power[n]
  <2>1. n + 1 \in Nat /\ n + 1 # 0 /\ (n + 1) - 1 = n
    OBVIOUS
  <2> QED
    BY <1>2, <2>1
<1>4. \A n \in Nat : Power[n] \in Nat /\ Power[n] > n
  <2> DEFINE B == {n \in Nat : ~ (Power[n] \in Nat /\ Power[n] > n)}
  <2> SUFFICES ASSUME B # {} PROVE FALSE
    OBVIOUS
  <2>1. PICK n \in B : \A j \in B : n <= j
    BY Least
  <2>2. n # 0
    BY <1>1, <2>1
  <2>3. n - 1 \in Nat /\ ~ (n <= n - 1)
    BY <2>2
  <2>4. Power[n - 1] \in Nat /\ Power[n - 1] > n - 1
    BY <2>1, <2>3
  <2>5. Power[n] = 2 * Power[n - 1]
    BY <1>2, <2>2
  <2> QED
    BY <2>1, <2>2, <2>4, <2>5
<1> QED
  BY <1>1, <1>3, <1>4

LEMMA PowerMonotone == ASSUME NEW m \in Nat, NEW n \in Nat, m <= n PROVE Power[m] <= Power[n]
<1> DEFINE B == {k \in Nat : m <= k /\ ~ (Power[m] <= Power[k])}
<1> SUFFICES ASSUME B # {} PROVE FALSE
  OBVIOUS
<1>1. PICK k \in B : \A j \in B : k <= j
  BY Least
<1>2. k # m
  BY <1>1, PowerGrows
<1>3. k - 1 \in Nat /\ m <= k - 1 /\ ~ (k <= k - 1)
  BY <1>1, <1>2
<1>4. Power[m] <= Power[k - 1]
  BY <1>1, <1>3
<1>5. Power[(k - 1) + 1] = 2 * Power[k - 1] /\ Power[k - 1] \in Nat /\ Power[m] \in Nat
  BY <1>3, PowerGrows
<1>6. (k - 1) + 1 = k
  OBVIOUS
<1> QED
  BY <1>1, <1>4, <1>5, <1>6

-----------------------------------------------------------------------------
(* A length goes to the first bucket whose blocks are large enough.        *)
LEMMA BucketFits ==
  ASSUME NEW size \in Nat
  PROVE  /\ get_bucket_for_size(size) \in Nat /\ AllocSize(get_bucket_for_size(size)) >= size
         /\ \A b \in Nat : AllocSize(b) >= size => get_bucket_for_size(size) <= b
<1> DEFINE low == STRING_ALLOCATOR_MIN_SIZE_LOG2
           S == {n \in low..low + size : Power[n] >= size}
<1>1. low \in Nat
  BY StringAllocatorAssumption
<1>2. CASE size = 0
  <2>1. get_bucket_for_size(size) = 0 /\ AllocSize(0) = Power[low]
    BY <1>1, <1>2 DEF get_bucket_for_size, AllocSize
  <2> QED
    BY <1>1, <1>2, <2>1, PowerGrows
<1>3. CASE size # 0
  <2>1. low + size \in S /\ S \subseteq Nat
    BY <1>1, PowerGrows
  <2>2. \E x \in S : \A y \in S : x <= y
    BY <2>1, Least
  <2>3. Min(S) \in S /\ \A y \in S : Min(S) <= y
    BY <2>2 DEF Min
  <2>4. get_bucket_for_size(size) = Min(S) - low
    BY <1>3 DEF get_bucket_for_size
  <2> HIDE DEF S
  <2>5. PICK x : x = Min(S)
    OBVIOUS
  <2>6. x \in low..low + size /\ Power[x] >= size
    BY <2>3, <2>5 DEF S
  <2>7. x - low \in Nat /\ AllocSize(x - low) >= size
    BY <1>1, <2>6 DEF AllocSize
  <2>8. ASSUME NEW b \in Nat, AllocSize(b) >= size PROVE x - low <= b
    <3>1. CASE b <= size
      <4>1. b + low \in S
        BY <1>1, <2>8, <3>1 DEF S, AllocSize
      <4>2. x <= b + low
        BY <2>3, <2>5, <4>1
      <4> QED
        BY <1>1, <2>6, <4>2
    <3>2. CASE b > size
      BY <1>1, <2>6, <3>2
    <3> QED
      BY <3>1, <3>2
  <2> QED
    BY <2>4, <2>5, <2>7, <2>8
<1> QED
  BY <1>2, <1>3

LEMMA AllocSizeMonotone ==
  ASSUME NEW a \in Nat, NEW b \in Nat, a <= b
  PROVE  AllocSize(a) \in Nat /\ AllocSize(b) \in Nat /\ AllocSize(a) <= AllocSize(b)
<1> DEFINE low == STRING_ALLOCATOR_MIN_SIZE_LOG2
<1>1. low \in Nat /\ a + low \in Nat /\ b + low \in Nat /\ a + low <= b + low
  BY StringAllocatorAssumption
<1> QED
  BY <1>1, PowerGrows, PowerMonotone DEF AllocSize

(* A string may say one byte less than was asked for its terminator.  The  *)
(* block that was chosen for more serves the list that less leads to.      *)
LEMMA SmallerBucket ==
  ASSUME NEW n \in Nat, NEW said \in Nat, said <= n, n <= said + 1
  PROVE  /\ get_bucket_for_size(said) <= get_bucket_for_size(n)
         /\ AllocSize(get_bucket_for_size(said)) <= AllocSize(get_bucket_for_size(n))
         /\ get_bucket_for_size(n) \notin FreeBuckets /\ get_bucket_for_size(said) \in FreeBuckets
              => AllocSize(get_bucket_for_size(said)) <= n
<1>1. PICK b \in Nat : b = get_bucket_for_size(n)
  BY BucketFits
<1>2. PICK c \in Nat : c = get_bucket_for_size(said)
  BY BucketFits
<1>3. AllocSize(b) >= n /\ AllocSize(b) \in Nat
  BY <1>1, BucketFits, AllocSizeMonotone
<1>4. c <= b
  BY <1>2, <1>3, BucketFits
<1>5. AllocSize(c) <= AllocSize(b) /\ AllocSize(c) \in Nat
  BY <1>4, AllocSizeMonotone
<1>6. ASSUME b \notin FreeBuckets, c \in FreeBuckets PROVE AllocSize(c) <= n
  <2>1. c < b
    BY <1>6, StringAllocatorAssumption DEF FreeBuckets
  <2>2. ~ (AllocSize(c) >= n)
    BY <1>1, <2>1, BucketFits
  <2> QED
    BY <1>5, <2>2
<1> QED
  BY <1>1, <1>2, <1>4, <1>5, <1>6
-----------------------------------------------------------------------------
IsFreeList(a) ==
  /\ a = [capacity |-> a.capacity, length |-> a.length, data |-> a.data]
  /\ a.capacity = STRING_ALLOCATOR_MAX_FREE_LIST_SIZE /\ a.length \in 0..STRING_ALLOCATOR_MAX_FREE_LIST_SIZE
  /\ DOMAIN a.data = 0..STRING_ALLOCATOR_MAX_FREE_LIST_SIZE - 1

(* Besides, a string's block is large enough for the list its length leads *)
(* to when it is freed.                                                    *)
StringsInv ==
  /\ bytes \in Seq(Nat) /\ strings \subseteq [data : 1..Len(bytes), length : Nat]
  /\ free_lists = [b \in FreeBuckets |-> free_lists[b]] /\ \A b \in FreeBuckets : IsFreeList(free_lists[b])
  /\ \A e \in ListedBlocks : Block(e) \in 1..Len(bytes)
  /\ StringsAreApart
  /\ \A s \in strings : s.length # 0 /\ get_bucket_for_size(s.length) \in FreeBuckets
                          => bytes[s.data] >= AllocSize(get_bucket_for_size(s.length))

LEMMA StringsStart == StringsInit => StringsInv
<1>. SUFFICES ASSUME StringsInit PROVE StringsInv
  OBVIOUS
<1>1. bytes = << >> /\ strings = {}
  BY DEF StringsInit
<1>2. \A b \in FreeBuckets : IsFreeList(free_lists[b]) /\ free_lists[b].length = 0
  BY StringAllocatorAssumption DEF StringsInit, fixed_array_init_raw, IsFreeList
<1>3. ListedBlocks = {}
  BY <1>2 DEF ListedBlocks
<1>4. free_lists = [b \in FreeBuckets |-> free_lists[b]]
  BY DEF StringsInit
<1> QED
  BY <1>1, <1>2, <1>3, <1>4 DEF StringsInv, StringsAreApart

(* What the invariant says, in terms of the blocks alone.                  *)
LEMMA StringsFacts ==
  ASSUME StringsInv
  PROVE  /\ \A s, t \in strings : s.data = t.data => s = t
         /\ \A d, e \in ListedBlocks : Block(d) = Block(e) => d = e
         /\ \A s \in strings : s.data \in 1..Len(bytes) /\ s.length \in Nat /\ bytes[s.data] >= s.length
         /\ \A s \in strings : \A e \in ListedBlocks : Block(e) # s.data
         /\ \A e \in ListedBlocks : bytes[Block(e)] >= AllocSize(e[1])
BY DEF StringsInv, StringsAreApart

(* A new block of n bytes or more, taken from the arena for one string.    *)
LEMMA NewBlockKeeps ==
  ASSUME StringsInv, NEW n \in Nat, NEW said \in Nat, NEW size \in Nat,
         size >= said,
         get_bucket_for_size(said) \in FreeBuckets => size >= AllocSize(get_bucket_for_size(said)),
         bytes' = Append(bytes, size),
         strings' = strings \cup {[data |-> Len(bytes) + 1, length |-> said]},
         free_lists' = free_lists
  PROVE  StringsInv'
<1> DEFINE s0 == [data |-> Len(bytes) + 1, length |-> said]
<1>1. bytes \in Seq(Nat) /\ Len(bytes) \in Nat
  BY DEF StringsInv
<1>2. /\ bytes' \in Seq(Nat) /\ Len(bytes') = Len(bytes) + 1 /\ bytes'[Len(bytes) + 1] = size
      /\ \A i \in 1..Len(bytes) : bytes'[i] = bytes[i] /\ i \in 1..Len(bytes') /\ i # Len(bytes) + 1
      /\ Len(bytes) + 1 \in 1..Len(bytes')
  BY <1>1
<1>3. ListedBlocks' = ListedBlocks /\ \A e \in ListedBlocks : (Block(e))' = Block(e)
  BY DEF ListedBlocks, Block
<1>4. strings' \subseteq [data : 1..Len(bytes'), length : Nat]
  BY <1>2 DEF StringsInv
<1>5. \A s \in strings : s.data # s0.data
  BY <1>2, StringsFacts
<1>6. \A e \in ListedBlocks : Block(e) \in 1..Len(bytes) /\ Block(e) # s0.data
  BY <1>2 DEF StringsInv
<1>7. s0.data = Len(bytes) + 1 /\ s0.length = said /\ strings' = strings \cup {s0}
  OBVIOUS
<1> HIDE DEF s0
<1>8. \A s, t \in strings' : s.data = t.data => s = t
  BY <1>5, <1>7, StringsFacts
<1>9. \A s \in strings' : bytes'[s.data] >= s.length
  BY <1>2, <1>7, StringsFacts
<1>10. \A s \in strings' : \A e \in ListedBlocks : Block(e) # s.data
  BY <1>6, <1>7, StringsFacts
<1>11. \A e \in ListedBlocks : bytes'[Block(e)] >= AllocSize(e[1])
  BY <1>2, <1>6, StringsFacts
<1>12. StringsAreApart'
  <2>1. \A d, e \in ListedBlocks : (Block(d))' = (Block(e))' => d = e
    BY <1>3, StringsFacts
  <2>2. \A s \in strings' : bytes'[s.data] >= s.length /\ \A e \in ListedBlocks : (Block(e))' # s.data
    BY <1>3, <1>9, <1>10
  <2>3. \A e \in ListedBlocks : bytes'[(Block(e))'] >= AllocSize(e[1])
    BY <1>3, <1>11
  <2> QED
    BY <1>3, <1>8, <2>1, <2>2, <2>3 DEF StringsAreApart
<1>13. \A s \in strings' : s.length # 0 /\ get_bucket_for_size(s.length) \in FreeBuckets
                             => bytes'[s.data] >= AllocSize(get_bucket_for_size(s.length))
  BY <1>2, <1>7, StringsFacts DEF StringsInv
<1>14. \A e \in ListedBlocks' : (Block(e))' \in 1..Len(bytes')
  BY <1>2, <1>3, <1>6
<1> QED
  BY <1>2, <1>4, <1>12, <1>13, <1>14 DEF StringsInv

LEMMA ReuseKeeps ==
  ASSUME StringsInv, NEW n \in Nat, NEW said \in Nat, said <= n, n <= said + 1, Reuse(n, said)
  PROVE  StringsInv'
<1>1. PICK b \in FreeBuckets : b = get_bucket_for_size(n)
  BY DEF Reuse
<1>2. PICK top : top = free_lists[b].length - 1
  OBVIOUS
<1> DEFINE e0 == <<b, top>>
           s0 == [data |-> Block(e0), length |-> said]
<1>3. /\ top >= 0 /\ strings' = strings \cup {s0} /\ bytes' = bytes
      /\ free_lists' = [free_lists EXCEPT ![b].length = top]
  BY <1>1, <1>2 DEF Reuse, Block
<1>4. IsFreeList(free_lists[b]) /\ free_lists[b].length \in 0..STRING_ALLOCATOR_MAX_FREE_LIST_SIZE
  BY DEF StringsInv, IsFreeList
<1>5. top \in 0..STRING_ALLOCATOR_MAX_FREE_LIST_SIZE - 1 /\ top < free_lists[b].length
  BY <1>2, <1>3, <1>4, StringAllocatorAssumption
<1>6. e0 \in ListedBlocks
  BY <1>5 DEF ListedBlocks
<1>7. /\ free_lists'[b].length = top /\ free_lists'[b].data = free_lists[b].data
      /\ free_lists'[b].capacity = free_lists[b].capacity
      /\ free_lists'[b] = [capacity |-> free_lists[b].capacity, length |-> top, data |-> free_lists[b].data]
      /\ \A c \in FreeBuckets : c # b => free_lists'[c] = free_lists[c]
      /\ free_lists' = [c \in FreeBuckets |-> free_lists'[c]]
  BY <1>3, <1>4 DEF StringsInv, IsFreeList
<1>8. \A c \in FreeBuckets : IsFreeList(free_lists'[c])
  <2>1. IsFreeList(free_lists'[b])
    <3>1. top \in 0..STRING_ALLOCATOR_MAX_FREE_LIST_SIZE
      BY <1>5, StringAllocatorAssumption
    <3> QED
      BY <1>4, <1>7, <3>1 DEF IsFreeList
  <2> QED
    BY <1>7, <2>1 DEF StringsInv
<1>9. ASSUME NEW e \in ListedBlocks' PROVE e \in ListedBlocks /\ e # e0 /\ (Block(e))' = Block(e)
  <2>1. PICK c \in FreeBuckets, i \in 0..STRING_ALLOCATOR_MAX_FREE_LIST_SIZE - 1 : e = <<c, i>> /\ i < free_lists'[c].length
    BY <1>9 DEF ListedBlocks
  <2>2. CASE c = b
    <3>1. i < top /\ i < free_lists[b].length
      <4>1. i \in Int /\ top \in Int /\ free_lists[b].length \in Int
        BY <1>4, <1>5, StringAllocatorAssumption
      <4>2. i < top
        BY <1>7, <2>1, <2>2
      <4> QED
        BY <1>5, <4>1, <4>2
    <3>2. e \in ListedBlocks
      BY <2>1, <2>2, <3>1 DEF ListedBlocks
    <3>3. e # e0
      BY <2>1, <3>1
    <3>4. (Block(e))' = Block(e)
      BY <1>7, <2>1, <2>2 DEF Block
    <3> QED
      BY <3>2, <3>3, <3>4
  <2>3. CASE c # b
    BY <1>7, <2>1, <2>3 DEF ListedBlocks, Block
  <2> QED
    BY <2>2, <2>3
<1> HIDE DEF e0
<1>10. Block(e0) \in 1..Len(bytes)
  BY <1>6 DEF StringsInv
<1>11. s0.data = Block(e0) /\ s0.length = said /\ s0 \in [data : 1..Len(bytes), length : Nat]
  BY <1>10
<1>12. bytes[Block(e0)] >= AllocSize(b) /\ bytes[Block(e0)] \in Nat
  <2>1. e0[1] = b
    BY DEF e0
  <2> QED
    BY <1>6, <1>10, <2>1, StringsFacts DEF StringsInv
<1>13. \A s \in strings : s.data # Block(e0)
  BY <1>6, StringsFacts
<1>14. \A e \in ListedBlocks' : Block(e) # Block(e0)
  BY <1>6, <1>9, StringsFacts
<1>15. AllocSize(b) \in Nat /\ AllocSize(b) >= said
  BY <1>1, BucketFits, AllocSizeMonotone
<1>16. AllocSize(b) >= AllocSize(get_bucket_for_size(said)) /\ AllocSize(get_bucket_for_size(said)) \in Nat
  BY <1>1, SmallerBucket, BucketFits, AllocSizeMonotone
<1> HIDE DEF s0
<1>17. bytes[s0.data] >= s0.length /\ bytes[s0.data] >= AllocSize(get_bucket_for_size(s0.length))
  BY <1>11, <1>12, <1>15, <1>16
<1>18. \A s, t \in strings' : s.data = t.data => s = t
  BY <1>3, <1>11, <1>13, StringsFacts
<1>19. \A s \in strings' : bytes[s.data] >= s.length /\ \A e \in ListedBlocks' : Block(e) # s.data
  BY <1>3, <1>9, <1>11, <1>14, <1>17, StringsFacts
<1>20. StringsAreApart'
  <2>1. \A d, e \in ListedBlocks' : Block(d) = Block(e) => d = e
    BY <1>9, StringsFacts
  <2>2. \A e \in ListedBlocks' : bytes[Block(e)] >= AllocSize(e[1])
    BY <1>9, StringsFacts
  <2> QED
    BY <1>3, <1>9, <1>18, <1>19, <2>1, <2>2 DEF StringsAreApart
<1>21. \A s \in strings' : s.length # 0 /\ get_bucket_for_size(s.length) \in FreeBuckets
                             => bytes[s.data] >= AllocSize(get_bucket_for_size(s.length))
  BY <1>3, <1>17 DEF StringsInv
<1>22. strings' \subseteq [data : 1..Len(bytes), length : Nat]
  BY <1>3, <1>11 DEF StringsInv
<1>23. \A e \in ListedBlocks' : (Block(e))' \in 1..Len(bytes)
  BY <1>9 DEF StringsInv
<1>24. bytes' \in Seq(Nat)
  BY <1>3 DEF StringsInv
<1> QED
  BY <1>3, <1>7, <1>8, <1>20, <1>21, <1>22, <1>23, <1>24 DEF StringsInv

LEMMA AllocKeeps ==
  ASSUME StringsInv, NEW n \in Nat, NEW said \in Nat, said <= n, n <= said + 1, Alloc(n, said)
  PROVE  StringsInv'
<1>1. CASE Huge(n, said)
  <2>1. get_bucket_for_size(said) \in FreeBuckets => n >= AllocSize(get_bucket_for_size(said))
    <3>1. get_bucket_for_size(n) \notin FreeBuckets
      BY <1>1 DEF Huge
    <3>2. get_bucket_for_size(said) \in Nat
      BY BucketFits
    <3>3. AllocSize(get_bucket_for_size(said)) \in Nat
      BY <3>2, AllocSizeMonotone
    <3> QED
      BY <3>1, <3>3, SmallerBucket
  <2> QED
    BY <1>1, <2>1, NewBlockKeeps DEF Huge
<1>2. CASE Fresh(n, said)
  <2>1. PICK b \in Nat : b = get_bucket_for_size(n)
    BY BucketFits
  <2>2. AllocSize(b) \in Nat /\ AllocSize(b) >= n
    BY <2>1, BucketFits, AllocSizeMonotone
  <2>3. get_bucket_for_size(said) \in Nat
    BY BucketFits
  <2>4. AllocSize(get_bucket_for_size(said)) \in Nat
    BY <2>3, AllocSizeMonotone
  <2>5. AllocSize(b) >= AllocSize(get_bucket_for_size(said))
    BY <2>1, <2>2, <2>4, SmallerBucket
  <2>6. AllocSize(b) >= said
    BY <2>2
  <2> QED
    BY <1>2, <2>1, <2>2, <2>5, <2>6, NewBlockKeeps DEF Fresh
<1> QED
  BY <1>1, <1>2, ReuseKeeps DEF Alloc

LEMMA AddedTo ==
  ASSUME NEW a, IsFreeList(a), a.length < a.capacity, NEW e
  PROVE  fixed_array_add_raw(a, e)
           = [capacity |-> a.capacity, length |-> a.length + 1, data |-> [a.data EXCEPT ![a.length] = e]]
<1>1. ~ (a.length >= a.capacity)
  BY StringAllocatorAssumption DEF IsFreeList
<1>2. fixed_array_add_raw(a, e) = [a EXCEPT !.data[a.length] = e, !.length = @ + 1]
  BY <1>1 DEF fixed_array_add_raw
<1> DEFINE q == [a EXCEPT !.data[a.length] = e, !.length = a.length + 1]
<1>3. PICK c, l, d : a = [capacity |-> c, length |-> l, data |-> d]
  BY DEF IsFreeList
<1>4. q.capacity = a.capacity /\ q.length = a.length + 1 /\ q.data = [a.data EXCEPT ![a.length] = e]
  BY <1>3
<1>5. DOMAIN q = {"capacity", "length", "data"} /\ q = [x \in DOMAIN q |-> q[x]]
  BY <1>3
<1> HIDE DEF q
<1>6. q = [capacity |-> q.capacity, length |-> q.length, data |-> q.data]
  BY <1>5
<1> QED
  BY <1>2, <1>4, <1>6 DEF q

LEMMA FreeKeeps == ASSUME StringsInv, NEW s0 \in strings, string_allocator_free(s0) PROVE StringsInv'
<1> DEFINE b == get_bucket_for_size(s0.length)
<1>1. strings' = strings \ {s0} /\ bytes' = bytes
  BY DEF string_allocator_free
<1>2. s0.data \in 1..Len(bytes) /\ s0.length \in Nat
  BY StringsFacts
<1>3. \A e \in ListedBlocks : e \in FreeBuckets \X (0..STRING_ALLOCATOR_MAX_FREE_LIST_SIZE - 1)
  BY DEF ListedBlocks
<1>4. CASE free_lists' = free_lists
  <2>1. ListedBlocks' = ListedBlocks /\ \A e \in ListedBlocks : (Block(e))' = Block(e)
    BY <1>4 DEF ListedBlocks, Block
  <2>2. StringsAreApart'
    BY <1>1, <2>1, StringsFacts DEF StringsAreApart
  <2> QED
    BY <1>1, <1>4, <2>1, <2>2 DEF StringsInv
<1>5. CASE free_lists' # free_lists
  <2>1. /\ s0.length # 0 /\ b \in FreeBuckets /\ free_lists[b].length < free_lists[b].capacity
        /\ free_lists' = [free_lists EXCEPT ![b] = fixed_array_add_raw(free_lists[b], s0.data)]
    <3>1. s0.length # 0 /\ b \in FreeBuckets
      BY <1>5 DEF string_allocator_free
    <3>2. free_lists' = [free_lists EXCEPT ![b] = fixed_array_add_raw(free_lists[b], s0.data)]
      BY <3>1 DEF string_allocator_free
    <3>3. IsFreeList(free_lists[b])
      BY <3>1 DEF StringsInv
    <3>4. CASE free_lists[b].length >= free_lists[b].capacity
      <4>1. fixed_array_add_raw(free_lists[b], s0.data) = free_lists[b]
        BY <3>4 DEF fixed_array_add_raw
      <4>2. free_lists' = free_lists
        BY <3>1, <3>2, <4>1 DEF StringsInv
      <4> QED
        BY <1>5, <4>2
    <3>5. free_lists[b].length \in Int /\ free_lists[b].capacity \in Int
      BY <3>3, StringAllocatorAssumption DEF IsFreeList
    <3> QED
      BY <3>1, <3>2, <3>4, <3>5
  <2>2. bytes[s0.data] >= AllocSize(b)
    BY <2>1 DEF StringsInv
  <2>3. PICK c \in FreeBuckets : c = b
    BY <2>1
  <2> HIDE DEF b
  <2>4. PICK top : top = free_lists[c].length
    OBVIOUS
  <2>5. IsFreeList(free_lists[c])
    BY DEF StringsInv
  <2>6. top \in 0..STRING_ALLOCATOR_MAX_FREE_LIST_SIZE - 1 /\ STRING_ALLOCATOR_MAX_FREE_LIST_SIZE \in Nat
    BY <2>1, <2>3, <2>4, <2>5, StringAllocatorAssumption DEF IsFreeList
  <2>7. PICK a : a = free_lists[c]
    OBVIOUS
  <2>8. fixed_array_add_raw(a, s0.data)
          = [capacity |-> a.capacity, length |-> top + 1, data |-> [a.data EXCEPT ![top] = s0.data]]
    BY <2>1, <2>3, <2>4, <2>5, <2>7, AddedTo
  <2>9. /\ free_lists'[c] = [capacity |-> a.capacity, length |-> top + 1, data |-> [a.data EXCEPT ![top] = s0.data]]
        /\ \A d \in FreeBuckets : d # c => free_lists'[d] = free_lists[d]
        /\ free_lists' = [d \in FreeBuckets |-> free_lists'[d]]
    BY <2>1, <2>3, <2>7, <2>8 DEF StringsInv
  <2>10. \A d \in FreeBuckets : IsFreeList(free_lists'[d])
    <3>1. top + 1 \in 0..STRING_ALLOCATOR_MAX_FREE_LIST_SIZE
      BY <2>6
    <3>2. IsFreeList(free_lists'[c])
      BY <2>5, <2>7, <2>9, <3>1 DEF IsFreeList
    <3> QED
      BY <2>9, <3>2 DEF StringsInv
  <2> DEFINE e0 == <<c, top>>
  <2>11. \A i \in 0..STRING_ALLOCATOR_MAX_FREE_LIST_SIZE - 1 :
           /\ i < top + 1 <=> i < top \/ i = top
           /\ i # top => free_lists'[c].data[i] = free_lists[c].data[i]
    BY <2>5, <2>6, <2>7, <2>9 DEF IsFreeList
  <2>12. free_lists'[c].data[top] = s0.data /\ free_lists'[c].length = top + 1
    BY <2>5, <2>6, <2>7, <2>9 DEF IsFreeList
  <2>13. (Block(e0))' = s0.data /\ e0 \notin ListedBlocks
    <3>1. ~ (top < top)
      BY <2>6
    <3> QED
      BY <2>4, <2>12, <3>1 DEF Block, ListedBlocks
  <2>14. ASSUME NEW e \in ListedBlocks', e # e0
         PROVE  e \in ListedBlocks /\ (Block(e))' = Block(e)
    <3>1. PICK d \in FreeBuckets, i \in 0..STRING_ALLOCATOR_MAX_FREE_LIST_SIZE - 1 : e = <<d, i>> /\ i < free_lists'[d].length
      BY <2>14 DEF ListedBlocks
    <3>2. CASE d = c
      <4>1. i # top /\ i < top
        BY <2>11, <2>12, <2>14, <3>1, <3>2
      <4> QED
        BY <2>4, <2>11, <3>1, <3>2, <4>1 DEF ListedBlocks, Block
    <3>3. CASE d # c
      BY <2>9, <3>1, <3>3 DEF ListedBlocks, Block
    <3> QED
      BY <3>2, <3>3
  <2>15. e0[1] = c
    OBVIOUS
  <2> HIDE DEF e0
  <2>16. \A e \in ListedBlocks : Block(e) # s0.data
    BY StringsFacts
  <2>17. \A d, e \in ListedBlocks' : (Block(d))' = (Block(e))' => d = e
    BY <2>13, <2>14, <2>16, StringsFacts
  <2>18. \A s \in strings' : s \in strings /\ s.data # s0.data
    BY <1>1, StringsFacts
  <2>19. \A s \in strings' : \A e \in ListedBlocks' : (Block(e))' # s.data
    BY <2>13, <2>14, <2>18, StringsFacts
  <2>20. \A e \in ListedBlocks' : bytes[(Block(e))'] >= AllocSize(e[1])
    BY <2>2, <2>3, <2>13, <2>14, <2>15, StringsFacts
  <2>21. \A e \in ListedBlocks' : (Block(e))' \in 1..Len(bytes)
    BY <1>2, <2>13, <2>14 DEF StringsInv
  <2>22. \A s, t \in strings' : s.data = t.data => s = t
    BY <2>18, StringsFacts
  <2>23. \A s \in strings' : bytes[s.data] >= s.length
    BY <2>18, StringsFacts
  <2>24. StringsAreApart'
    BY <1>1, <2>17, <2>19, <2>20, <2>22, <2>23 DEF StringsAreApart
  <2>25. bytes' \in Seq(Nat) /\ strings' \subseteq [data : 1..Len(bytes), length : Nat]
    BY <1>1 DEF StringsInv
  <2>26. \A s \in strings' : s.length # 0 /\ get_bucket_for_size(s.length) \in FreeBuckets
                               => bytes[s.data] >= AllocSize(get_bucket_for_size(s.length))
    BY <2>18 DEF StringsInv
  <2> QED
    BY <1>1, <2>9, <2>10, <2>21, <2>24, <2>25, <2>26 DEF StringsInv
<1> QED
  BY <1>4, <1>5

LEMMA ClearKeeps == ASSUME StringsInv, string_allocator_clear_free_lists PROVE StringsInv'
<1>1. strings' = strings /\ bytes' = bytes /\ free_lists' = [b \in FreeBuckets |-> fixed_array_clear_raw(free_lists[b])]
  BY DEF string_allocator_clear_free_lists
<1>2. ASSUME NEW b \in FreeBuckets PROVE IsFreeList(free_lists'[b]) /\ free_lists'[b].length = 0
  <2>1. PICK a : a = free_lists[b] /\ IsFreeList(a)
    BY DEF StringsInv
  <2>2. free_lists'[b] = [a EXCEPT !.length = 0]
    BY <1>1, <2>1 DEF fixed_array_clear_raw
  <2>3. free_lists'[b] = [capacity |-> a.capacity, length |-> 0, data |-> a.data]
    BY <2>1, <2>2 DEF IsFreeList
  <2> QED
    BY <2>1, <2>3, StringAllocatorAssumption DEF IsFreeList
<1>3. ListedBlocks' = {}
  BY <1>2 DEF ListedBlocks
<1>4. StringsAreApart'
  BY <1>1, <1>3, StringsFacts DEF StringsAreApart
<1>5. free_lists' = [b \in FreeBuckets |-> free_lists'[b]]
  BY <1>1
<1> QED
  BY <1>1, <1>2, <1>3, <1>4, <1>5 DEF StringsInv

(* Each block is held by one string or listed in one place, and is large   *)
(* enough for the string and for what its list serves, whatever lengths    *)
(* are asked for and freed (string_allocator.c:46-120).                    *)
THEOREM StringsAreApartAlways == StringsSpec => []StringsAreApart
<1>1. StringsInit => StringsInv
  BY StringsStart
<1>2. ASSUME StringsInv, [StringsNext]_strings_vars PROVE StringsInv'
  <2>1. CASE UNCHANGED strings_vars
    <3>1. free_lists' = free_lists /\ bytes' = bytes /\ strings' = strings
      BY <2>1 DEF strings_vars
    <3>2. ListedBlocks' = ListedBlocks /\ \A e : (Block(e))' = Block(e)
      BY <3>1 DEF ListedBlocks, Block
    <3>3. StringsAreApart'
      BY <1>2, <3>1, <3>2, StringsFacts DEF StringsAreApart
    <3> QED
      BY <1>2, <3>1, <3>2, <3>3 DEF StringsInv
  <2>2. ASSUME NEW n \in Lengths, Alloc(n, n) \/ Alloc(n + 1, n) PROVE StringsInv'
    <3>1. n \in Nat /\ n + 1 \in Nat /\ n <= n /\ n <= n + 1 /\ n + 1 <= n + 1
      BY StringAllocatorAssumption
    <3>2. CASE Alloc(n, n)
      BY <1>2, <3>1, <3>2, AllocKeeps
    <3>3. CASE Alloc(n + 1, n)
      BY <1>2, <3>1, <3>3, AllocKeeps
    <3> QED
      BY <2>2, <3>2, <3>3
  <2>3. ASSUME StringsNext PROVE StringsInv'
    BY <1>2, <2>2, <2>3, FreeKeeps, ClearKeeps
       DEF StringsNext, string_allocator_alloc, string_allocator_copy, string_allocator_cstr
  <2> QED
    BY <1>2, <2>1, <2>3
<1>3. StringsInv => StringsAreApart
  BY DEF StringsInv
<1> QED
  BY <1>1, <1>2, <1>3, PTL DEF StringsSpec

-----------------------------------------------------------------------------
(***************************************************************************)
(* Proofs about the pool, for any number of items and whatever their       *)
(* owners write: the free list has just the items that nobody owns.        *)
(***************************************************************************)

FreeItems == Items \ held

(* The links of free items, which never meet, lead from the head to all    *)
(* of them: a part that has the head and what its members lead to is all.  *)
LinksOK ==
  /\ free_list \in FreeItems \cup {no_item}
  /\ \A i \in FreeItems : word[i] \in FreeItems \cup {no_item}
  /\ \A i \in FreeItems : word[i] # no_item => word[i] # free_list
  /\ \A i, j \in FreeItems : word[i] = word[j] /\ word[i] # no_item => i = j
LeadsToAll ==
  \A S \in SUBSET FreeItems :
    (free_list # no_item => free_list \in S) /\ (\A i \in S : word[i] # no_item => word[i] \in S) => FreeItems \subseteq S

PoolInv ==
  /\ \E n \in Nat : Items = 1..n
  /\ word = [i \in Items |-> word[i]] /\ held \subseteq Items
  /\ LinksOK /\ LeadsToAll

LEMMA PoolStart == PoolInit => PoolInv
<1>. SUFFICES ASSUME PoolInit PROVE PoolInv
  OBVIOUS
<1>1. Items = {} /\ held = {} /\ free_list = no_item /\ FreeItems = {} /\ word = [i \in Items |-> word[i]]
  BY DEF PoolInit, pool_init_raw, Items, FreeItems
<1>2. 1..0 = {}
  OBVIOUS
<1> QED
  BY <1>1, <1>2 DEF PoolInv, LinksOK, LeadsToAll

LEMMA PopKeeps == ASSUME PoolInv, PopFree PROVE PoolInv'
<1> DEFINE f == free_list
           g == word[f]
<1>1. /\ f # no_item /\ f \in FreeItems /\ f \in Items /\ f \notin held
      /\ free_list' = g /\ word' = [word EXCEPT ![f] = 0] /\ held' = held \cup {f}
  BY DEF PopFree, PoolInv, LinksOK, FreeItems
<1>2. Items' = Items /\ (\A i \in Items : i # f => word'[i] = word[i]) /\ word' = [i \in Items |-> word'[i]]
  BY <1>1 DEF Items, PoolInv
<1>3. FreeItems' = FreeItems \ {f}
  BY <1>1, <1>2 DEF FreeItems
<1>4. g \in FreeItems \cup {no_item} /\ g # f
  BY <1>1 DEF PoolInv, LinksOK
<1> HIDE DEF f, g
<1>5. \A i \in FreeItems \ {f} : word'[i] = word[i]
  BY <1>2 DEF FreeItems
<1>6. \A i \in FreeItems \ {f} : word[i] \in (FreeItems \ {f}) \cup {no_item}
  BY <1>1 DEF PoolInv, LinksOK, f
<1>7. \A i \in FreeItems \ {f} : word[i] # no_item => word[i] # g
  BY <1>1 DEF PoolInv, LinksOK, g
<1>8. LinksOK'
  <2>1. g \in (FreeItems \ {f}) \cup {no_item}
    BY <1>4
  <2>2. \A i \in FreeItems \ {f} : word'[i] \in (FreeItems \ {f}) \cup {no_item}
    BY <1>5, <1>6
  <2>3. \A i \in FreeItems \ {f} : word'[i] # no_item => word'[i] # g
    BY <1>5, <1>7
  <2>4. \A i, j \in FreeItems : word[i] = word[j] /\ word[i] # no_item => i = j
    BY DEF PoolInv, LinksOK
  <2>5. \A i, j \in FreeItems \ {f} : word'[i] = word'[j] /\ word'[i] # no_item => i = j
    BY <1>5, <2>4
  <2> QED
    BY <1>1, <1>3, <2>1, <2>2, <2>3, <2>5 DEF LinksOK, no_item
<1>9. ASSUME NEW S \in SUBSET (FreeItems \ {f}), g # no_item => g \in S,
             \A i \in S : word'[i] # no_item => word'[i] \in S
      PROVE  FreeItems \ {f} \subseteq S
  <2> DEFINE T == S \cup {f}
  <2>1. T \in SUBSET FreeItems /\ f \in T
    BY <1>1
  <2>2. ASSUME NEW i \in T, word[i] # no_item PROVE word[i] \in T
    BY <1>5, <1>9, <2>2 DEF g
  <2>3. FreeItems \subseteq T
    BY <2>1, <2>2 DEF PoolInv, LeadsToAll, f
  <2> QED
    BY <2>3
<1>10. LeadsToAll'
  BY <1>1, <1>3, <1>9 DEF LeadsToAll
<1> QED
  BY <1>1, <1>2, <1>8, <1>10 DEF PoolInv

LEMMA TakeKeeps == ASSUME PoolInv, TakeNew PROVE PoolInv'
<1>1. PICK n \in Nat : Items = 1..n
  BY DEF PoolInv
<1>2. Cardinality(Items) = n
  BY <1>1, FS_Interval
<1>3. /\ free_list = no_item /\ free_list' = no_item
      /\ word' = [x \in Items \cup {n + 1} |-> IF x = n + 1 THEN 0 ELSE word[x]] /\ held' = held \cup {n + 1}
  BY <1>2 DEF TakeNew
<1>4. FreeItems = {}
  BY <1>3 DEF PoolInv, LeadsToAll
<1>5. Items' = 1..(n + 1) /\ Items' = Items \cup {n + 1} /\ word' = [i \in Items' |-> word'[i]]
  <2>1. 1..(n + 1) = (1..n) \cup {n + 1}
    OBVIOUS
  <2>2. Items' = Items \cup {n + 1}
    BY <1>3 DEF Items
  <2> QED
    BY <2>1, <2>2, <1>1, <1>3
<1>6. held' \subseteq Items' /\ FreeItems' = {}
  BY <1>3, <1>4, <1>5 DEF PoolInv, FreeItems
<1>7. n + 1 \in Nat
  OBVIOUS
<1> QED
  BY <1>3, <1>5, <1>6, <1>7 DEF PoolInv, LinksOK, LeadsToAll

LEMMA GiveKeeps == ASSUME PoolInv, NEW f \in held, pool_free_raw(f) PROVE PoolInv'
<1>1. /\ f \in Items /\ f \notin FreeItems /\ f # no_item
      /\ free_list' = f /\ word' = [word EXCEPT ![f] = free_list] /\ held' = held \ {f}
  BY DEF pool_free_raw, PoolInv, FreeItems, no_item
<1>2. /\ Items' = Items /\ word'[f] = free_list /\ (\A i \in Items : i # f => word'[i] = word[i])
      /\ word' = [i \in Items |-> word'[i]]
  BY <1>1 DEF Items, PoolInv
<1>3. FreeItems' = FreeItems \cup {f}
  BY <1>1, <1>2 DEF FreeItems
<1>4. \A i \in FreeItems : word'[i] = word[i]
  BY <1>1, <1>2 DEF FreeItems
<1>5. /\ free_list \in FreeItems \cup {no_item}
      /\ \A i \in FreeItems : word[i] \in FreeItems \cup {no_item} /\ (word[i] # no_item => word[i] # free_list)
      /\ \A i, j \in FreeItems : word[i] = word[j] /\ word[i] # no_item => i = j
  BY DEF PoolInv, LinksOK
<1>6. LinksOK'
  <2>1. \A i \in FreeItems \cup {f} : word'[i] \in FreeItems \cup {no_item}
    BY <1>2, <1>4, <1>5
  <2>2. \A i, j \in FreeItems \cup {f} : word'[i] = word'[j] /\ word'[i] # no_item => i = j
    BY <1>2, <1>4, <1>5
  <2> QED
    BY <1>1, <1>3, <2>1, <2>2 DEF LinksOK
<1>7. ASSUME NEW S \in SUBSET (FreeItems \cup {f}), f \in S, \A i \in S : word'[i] # no_item => word'[i] \in S
      PROVE  FreeItems \cup {f} \subseteq S
  <2> DEFINE T == S \ {f}
  <2>1. T \in SUBSET FreeItems
    OBVIOUS
  <2>2. free_list # no_item => free_list \in T
    BY <1>1, <1>2, <1>5, <1>7
  <2>3. ASSUME NEW i \in T, word[i] # no_item PROVE word[i] \in T
    BY <1>1, <1>4, <1>5, <1>7, <2>1, <2>3
  <2>4. FreeItems \subseteq T
    BY <2>1, <2>2, <2>3 DEF PoolInv, LeadsToAll
  <2> QED
    BY <2>4, <1>7
<1>8. LeadsToAll'
  BY <1>1, <1>3, <1>7 DEF LeadsToAll
<1>9. held' \subseteq Items'
  BY <1>1, <1>2 DEF PoolInv
<1> QED
  BY <1>2, <1>6, <1>8, <1>9 DEF PoolInv

LEMMA WriteKeeps == ASSUME PoolInv, NEW o \in held, NEW w \in Words, OwnerWrites(o, w) PROVE PoolInv'
<1>1. word' = [word EXCEPT ![o] = w] /\ free_list' = free_list /\ held' = held /\ o \in Items /\ o \notin FreeItems
  BY DEF OwnerWrites, PoolInv, FreeItems
<1>2. Items' = Items /\ word' = [i \in Items |-> word'[i]] /\ \A i \in Items : i # o => word'[i] = word[i]
  BY <1>1 DEF Items, PoolInv
<1>3. FreeItems' = FreeItems /\ \A i \in FreeItems : word'[i] = word[i]
  BY <1>1, <1>2 DEF FreeItems
<1>4. /\ free_list \in FreeItems \cup {no_item}
      /\ \A i \in FreeItems : word[i] \in FreeItems \cup {no_item} /\ (word[i] # no_item => word[i] # free_list)
      /\ \A i, j \in FreeItems : word[i] = word[j] /\ word[i] # no_item => i = j
  BY DEF PoolInv, LinksOK
<1>5. /\ \A i \in FreeItems : word'[i] \in FreeItems \cup {no_item} /\ (word'[i] # no_item => word'[i] # free_list)
      /\ \A i, j \in FreeItems : word'[i] = word'[j] /\ word'[i] # no_item => i = j
  BY <1>3, <1>4
<1>6. LinksOK'
  BY <1>1, <1>3, <1>4, <1>5 DEF LinksOK, no_item
<1>7. ASSUME NEW S \in SUBSET FreeItems, free_list # no_item => free_list \in S,
             \A i \in S : word'[i] # no_item => word'[i] \in S
      PROVE  FreeItems \subseteq S
  <2>1. \A i \in S : word[i] # no_item => word[i] \in S
    BY <1>3, <1>7
  <2> QED
    BY <1>7, <2>1 DEF PoolInv, LeadsToAll
<1>8. LeadsToAll'
  BY <1>1, <1>3, <1>7 DEF LeadsToAll
<1> QED
  BY <1>1, <1>2, <1>6, <1>8 DEF PoolInv

LEMMA PoolMeans == PoolInv => PoolIsSound
<1>. SUFFICES ASSUME PoolInv PROVE PoolIsSound
  OBVIOUS
<1> DEFINE pointers == (Items \cup Words) \ {no_item}
<1>1. no_item \notin Items /\ FreeItems \subseteq Items
  BY DEF PoolInv, no_item, FreeItems
<1>2. FreeItems \in SUBSET pointers /\ (free_list # no_item => free_list \in FreeItems)
  BY <1>1 DEF PoolInv, LinksOK
<1>3. \A j \in FreeItems \cap Items : word[j] # no_item => word[j] \in FreeItems
  BY DEF PoolInv, LinksOK
<1>4. Linked \subseteq FreeItems
  BY <1>2, <1>3 DEF Linked
<1>5. ASSUME NEW i \in FreeItems, NEW S \in SUBSET pointers, free_list # no_item => free_list \in S,
             \A j \in S \cap Items : word[j] # no_item => word[j] \in S
      PROVE  i \in S
  <2> DEFINE T == S \cap FreeItems
  <2>1. T \in SUBSET FreeItems /\ (free_list # no_item => free_list \in T)
    BY <1>2, <1>5
  <2>2. \A j \in T : word[j] # no_item => word[j] \in T
    BY <1>1, <1>3, <1>5
  <2>3. FreeItems \subseteq T
    BY <2>1, <2>2 DEF PoolInv, LeadsToAll
  <2> QED
    BY <2>3
<1>6. FreeItems \subseteq Linked
  BY <1>2, <1>5 DEF Linked
<1> QED
  BY <1>4, <1>6 DEF PoolIsSound, FreeItems

(* Following the links from free_list reaches exactly the items nobody     *)
(* owns: none is handed out twice, none is lost, and what owners write is  *)
(* never taken for a link (pool_allocator.c:38-67).                        *)
THEOREM PoolIsSoundAlways == PoolSpec => []PoolIsSound
<1>1. ASSUME PoolInv, [PoolNext]_pool_vars PROVE PoolInv'
  <2>1. CASE UNCHANGED pool_vars
    <3>1. word' = word /\ held' = held /\ free_list' = free_list
      BY <2>1 DEF pool_vars
    <3>2. Items' = Items /\ FreeItems' = FreeItems
      BY <3>1 DEF Items, FreeItems
    <3> QED
      BY <1>1, <3>1, <3>2 DEF PoolInv, LinksOK, LeadsToAll
  <2> QED
    BY <1>1, <2>1, PopKeeps, TakeKeeps, GiveKeeps, WriteKeeps DEF PoolNext, pool_alloc_raw
<1> QED
  BY <1>1, PoolStart, PoolMeans, PTL DEF PoolSpec

-----------------------------------------------------------------------------
(***************************************************************************)
(* Proofs about the scratch arenas, for any depth and any size: what a     *)
(* call leaves for its callers is not overwritten before they return.      *)
(***************************************************************************)

Frame == [temp : {1, 2}, pos : 0..MaxUnits, out : {Own, 1, 2}, keeper : Nat]

(* The frames between a result's keeper and the call that leaves it there  *)
(* work in the other scratch arena.                                        *)
FrameOK(i) ==
  /\ frames[i].out # Own => frames[i].keeper \in 1..(i - 1)
  /\ frames[i].out # Own => \A j \in (frames[i].keeper + 1)..i : frames[j].temp # frames[i].out

(* A block lies below the mark of every later frame on its arena.          *)
BlockKept(b) ==
  /\ b.at \in Nat /\ b.at < pos[b.arena]
  /\ \A i \in (b.keeper + 1)..Depth : frames[i].temp = b.arena => b.at < frames[i].pos

ScratchInv ==
  /\ pos \in [{1, 2} -> 0..MaxUnits] /\ frames \in Seq(Frame)
  /\ blocks \subseteq [arena : {1, 2}, at : Nat, keeper : 1..Depth]
  /\ \A i \in 1..Depth : FrameOK(i)
  /\ \A b \in blocks : BlockKept(b)
  /\ \A b, c \in blocks : b.arena = c.arena /\ b.at = c.at => b = c

LEMMA ScratchStart == ScratchInit => ScratchInv
<1>. SUFFICES ASSUME ScratchInit PROVE ScratchInv
  OBVIOUS
<1>1. pos \in [{1, 2} -> 0..MaxUnits]
  <2>1. pos = [i \in 1..2 |-> 0]
    BY DEF ScratchInit
  <2>2. 1..2 = {1, 2}
    OBVIOUS
  <2> QED
    BY <2>1, <2>2, ScratchAssumption
<1>2. frames \in Seq(Frame) /\ Depth = 0 /\ blocks = {}
  BY DEF ScratchInit, Depth
<1> QED
  BY <1>1, <1>2 DEF ScratchInv

(* A call marks the position of the arena it works in, which is not the    *)
(* one its result goes to.                                                 *)
LEMMA CallKeeps ==
  ASSUME ScratchInv, NEW out \in {Own, 1, 2}, NEW keeper \in Nat, NEW temp \in {1, 2},
         Call(out, keeper, temp),
         out # Own => /\ keeper \in 1..Depth /\ temp # out
                      /\ \A j \in (keeper + 1)..Depth : frames[j].temp # out
  PROVE  ScratchInv'
<1> DEFINE new == [temp |-> temp, pos |-> pos[temp], out |-> out, keeper |-> keeper]
<1>1. frames \in Seq(Frame) /\ Depth \in Nat /\ pos' = pos /\ blocks' = blocks
  BY DEF ScratchInv, Call, Depth
<1>2. new \in Frame
  BY DEF ScratchInv, Frame
<1>3. frames' = Append(frames, new)
  BY DEF Call
<1> HIDE DEF new
<1>4. /\ frames' \in Seq(Frame) /\ Depth' = Depth + 1
      /\ \A i \in 1..Depth : frames'[i] = frames[i]
      /\ frames'[Depth + 1] = new
  BY <1>1, <1>2, <1>3 DEF Depth
<1>5. new.temp = temp /\ new.pos = pos[temp] /\ new.out = out /\ new.keeper = keeper
  BY DEF new
<1>6. ASSUME NEW i \in 1..(Depth + 1) PROVE FrameOK(i)'
  <2>1. CASE i = Depth + 1
    <3>1. frames'[i] = new
      BY <1>4, <2>1
    <3>2. ASSUME out # Own, NEW j \in (keeper + 1)..i PROVE frames'[j].temp # out
      <4>1. CASE j = Depth + 1
        BY <1>4, <1>5, <4>1, <3>2
      <4>2. CASE j # Depth + 1
        <5>1. j \in (keeper + 1)..Depth /\ j \in 1..Depth
          BY <4>2, <2>1, <1>1
        <5> QED
          BY <5>1, <1>4, <3>2
      <4> QED
        BY <4>1, <4>2
    <3> QED
      BY <3>1, <3>2, <1>1, <1>5, <2>1 DEF FrameOK
  <2>2. CASE i # Depth + 1
    <3>1. i \in 1..Depth /\ FrameOK(i) /\ frames'[i] = frames[i] /\ frames[i] \in Frame
      BY <2>2, <1>1, <1>4 DEF ScratchInv, Depth
    <3>2. \A j \in (frames[i].keeper + 1)..i : j \in 1..Depth
      BY <3>1, <1>1 DEF Frame
    <3>3. \A j \in (frames[i].keeper + 1)..i : frames'[j] = frames[j]
      BY <3>2, <1>4
    <3> QED
      BY <3>1, <3>3 DEF FrameOK
  <2> QED
    BY <2>1, <2>2
<1>7. ASSUME NEW b \in blocks PROVE BlockKept(b)'
  <2>1. /\ b.arena \in {1, 2} /\ b.keeper \in 1..Depth /\ b.at \in Nat /\ b.at < pos[b.arena]
        /\ \A i \in (b.keeper + 1)..Depth : frames[i].temp = b.arena => b.at < frames[i].pos
    BY DEF ScratchInv, BlockKept
  <2>2. ASSUME NEW i \in (b.keeper + 1)..(Depth + 1), frames'[i].temp = b.arena PROVE b.at < frames'[i].pos
    <3>1. CASE i = Depth + 1
      BY <3>1, <2>1, <2>2, <1>4, <1>5
    <3>2. CASE i # Depth + 1
      <4>1. i \in 1..Depth /\ i \in (b.keeper + 1)..Depth
        BY <3>2, <2>1, <1>1
      <4> QED
        BY <4>1, <2>1, <2>2, <1>4
    <3> QED
      BY <3>1, <3>2
  <2> QED
    BY <2>1, <2>2, <1>1, <1>4 DEF BlockKept
<1>8. blocks' \subseteq [arena : {1, 2}, at : Nat, keeper : 1..Depth']
  <2>1. 1..Depth \subseteq 1..(Depth + 1)
    BY <1>1
  <2> QED
    BY <2>1, <1>1, <1>4 DEF ScratchInv
<1> QED
  BY <1>1, <1>4, <1>6, <1>7, <1>8 DEF ScratchInv

(* A block is put above all others of its arena, and no frame after its    *)
(* keeper works there.                                                     *)
LEMMA PutKeeps ==
  ASSUME ScratchInv, NEW arena \in {1, 2}, NEW keeper \in 1..Depth, Put(arena, keeper),
         \A j \in (keeper + 1)..Depth : frames[j].temp # arena
  PROVE  ScratchInv'
<1> DEFINE new == [arena |-> arena, at |-> pos[arena], keeper |-> keeper]
<1>1. frames \in Seq(Frame) /\ Depth \in Nat /\ frames' = frames /\ Depth' = Depth
  BY DEF ScratchInv, Put, Depth
<1>2. pos \in [{1, 2} -> 0..MaxUnits] /\ pos[arena] < MaxUnits /\ MaxUnits \in Nat
  BY ScratchAssumption DEF ScratchInv, Put
<1>3. pos' = [pos EXCEPT ![arena] = pos[arena] + 1] /\ blocks' = blocks \cup {new}
  BY DEF Put
<1> HIDE DEF new
<1>4. pos' \in [{1, 2} -> 0..MaxUnits] /\ \A a \in {1, 2} : pos[a] <= pos'[a] /\ pos[a] \in Nat /\ pos'[a] \in Nat
  BY <1>2, <1>3
<1>5. new.arena = arena /\ new.at = pos[arena] /\ new.keeper = keeper
  BY DEF new
<1>6. new \in [arena : {1, 2}, at : Nat, keeper : 1..Depth]
  BY <1>4 DEF new
<1>7. ASSUME NEW b \in blocks' PROVE BlockKept(b)'
  <2>1. CASE b = new
    <3>1. new.at < pos'[arena] /\ new.at \in Nat
      BY <1>2, <1>3, <1>4, <1>5
    <3> QED
      BY <3>1, <1>1, <1>5, <2>1 DEF BlockKept
  <2>2. CASE b \in blocks
    <3>1. BlockKept(b) /\ b.arena \in {1, 2} /\ b.at \in Nat
      BY <2>2 DEF ScratchInv
    <3>2. b.at < pos'[b.arena]
      BY <3>1, <1>4 DEF BlockKept
    <3> QED
      BY <3>1, <3>2, <1>1 DEF BlockKept
  <2> QED
    BY <2>1, <2>2, <1>3
<1>8. \A b \in blocks : b.arena \in {1, 2} /\ b.at \in Nat /\ b.at < pos[b.arena]
  BY DEF ScratchInv, BlockKept
<1>9. ASSUME NEW b \in blocks', NEW c \in blocks', b.arena = c.arena, b.at = c.at PROVE b = c
  BY <1>3, <1>4, <1>5, <1>8, <1>9 DEF ScratchInv
<1>10. \A i \in 1..Depth : FrameOK(i)'
  BY <1>1 DEF ScratchInv, FrameOK
<1>11. blocks' \subseteq [arena : {1, 2}, at : Nat, keeper : 1..Depth]
  BY <1>3, <1>6 DEF ScratchInv
<1> QED
  BY <1>1, <1>4, <1>7, <1>9, <1>10, <1>11 DEF ScratchInv

(* What a call's callers keep lies below the mark it goes back to.         *)
LEMMA EndKeeps == ASSUME ScratchInv, arena_scratch_end PROVE ScratchInv'
<1> DEFINE d == Depth
           top == frames[d]
<1>1. frames \in Seq(Frame) /\ d \in Nat /\ d > 0 /\ d = Len(frames) /\ Innermost = top
  BY DEF ScratchInv, arena_scratch_end, Depth, Innermost, Last
<1>2. top \in Frame
  BY <1>1
<1>3. pos' = [pos EXCEPT ![top.temp] = top.pos] /\ blocks' = {b \in blocks : b.keeper < d} /\ frames' = SubSeq(frames, 1, d - 1)
  BY <1>1 DEF arena_scratch_end, Front
<1>4. /\ frames' \in Seq(Frame) /\ Depth' = d - 1
      /\ \A i \in 1..(d - 1) : frames'[i] = frames[i]
  <2>1. /\ SubSeq(frames, 1, d - 1) \in Seq(Frame) /\ Len(SubSeq(frames, 1, d - 1)) = d - 1
        /\ \A i \in 1..(d - 1) : SubSeq(frames, 1, d - 1)[i] = frames[i]
    BY <1>1, SubSeqProperties
  <2> QED
    BY <2>1, <1>3 DEF Depth
<1>5. pos' \in [{1, 2} -> 0..MaxUnits]
  BY <1>2, <1>3 DEF ScratchInv, Frame
<1>6. ASSUME NEW i \in 1..(d - 1) PROVE FrameOK(i)'
  <2>1. i \in 1..d /\ FrameOK(i) /\ frames'[i] = frames[i] /\ frames[i] \in Frame
    BY <1>1, <1>4 DEF ScratchInv
  <2>2. \A j \in (frames[i].keeper + 1)..i : j \in 1..(d - 1)
    BY <2>1, <1>1 DEF Frame
  <2>3. \A j \in (frames[i].keeper + 1)..i : frames'[j] = frames[j]
    BY <2>2, <1>4
  <2> QED
    BY <2>1, <2>3 DEF FrameOK
<1>7. ASSUME NEW b \in blocks' PROVE BlockKept(b)'
  <2>1. b \in blocks /\ b.keeper < d /\ b.keeper \in Nat /\ b.keeper >= 1 /\ b.arena \in {1, 2} /\ b.at \in Nat /\ BlockKept(b)
    BY <1>1, <1>3 DEF ScratchInv
  <2>2. b.at < pos'[b.arena]
    <3>1. CASE b.arena = top.temp
      <4>1. d \in (b.keeper + 1)..Depth
        BY <1>1, <2>1
      <4>2. b.at < top.pos
        BY <4>1, <3>1, <2>1 DEF BlockKept
      <4> QED
        BY <4>2, <3>1, <2>1, <1>3 DEF ScratchInv
    <3>2. CASE b.arena # top.temp
      BY <3>2, <2>1, <1>3 DEF ScratchInv, BlockKept
    <3> QED
      BY <3>1, <3>2
  <2>3. ASSUME NEW i \in (b.keeper + 1)..(d - 1), frames'[i].temp = b.arena PROVE b.at < frames'[i].pos
    <3>1. i \in 1..(d - 1) /\ i \in (b.keeper + 1)..Depth
      BY <1>1, <2>1
    <3> QED
      BY <3>1, <2>1, <2>3, <1>4 DEF BlockKept
  <2> QED
    BY <2>1, <2>2, <2>3, <1>4 DEF BlockKept
<1>8. blocks' \subseteq [arena : {1, 2}, at : Nat, keeper : 1..(d - 1)]
  <2>1. ASSUME NEW b \in blocks' PROVE b \in [arena : {1, 2}, at : Nat, keeper : 1..(d - 1)]
    <3>1. b \in [arena : {1, 2}, at : Nat, keeper : 1..d] /\ b.keeper < d
      BY <1>3 DEF ScratchInv
    <3>2. b.keeper \in 1..(d - 1)
      BY <3>1, <1>1
    <3> QED
      BY <3>1, <3>2
  <2> QED
    BY <2>1
<1>9. \A b, c \in blocks' : b.arena = c.arena /\ b.at = c.at => b = c
  BY <1>3 DEF ScratchInv
<1> QED
  BY <1>4, <1>5, <1>6, <1>7, <1>8, <1>9 DEF ScratchInv

LEMMA ScratchStep == ASSUME ScratchInv, [ScratchNext]_scratch_vars PROVE ScratchInv'
<1>1. frames \in Seq(Frame) /\ Depth \in Nat /\ Depth = Len(frames)
  BY DEF ScratchInv, Depth
<1>2. ASSUME Depth > 0
      PROVE  /\ Innermost = frames[Depth] /\ Innermost \in Frame /\ Depth \in 1..Depth /\ FrameOK(Depth)
             /\ Innermost.temp \in {1, 2} /\ Innermost.out \in {Own, 1, 2} /\ Innermost.keeper \in Nat
  <2>1. Depth \in 1..Depth /\ Innermost = frames[Depth]
    BY <1>1, <1>2 DEF Innermost, Last
  <2>2. Innermost \in Frame
    BY <2>1, <1>1
  <2> QED
    BY <2>1, <2>2 DEF ScratchInv, Frame
<1>3. \A self \in {Own, 1, 2} : arena_scratch_begin_conflict(self) \in {1, 2} /\ arena_scratch_begin_conflict(self) # self
  BY DEF arena_scratch_begin_conflict, Own
<1>4. CASE Conflicting
  <2>1. CASE Call(Own, 0, arena_scratch_begin_conflict(Own))
    <3> DEFINE other == arena_scratch_begin_conflict(Own)
    <3>1. other \in {1, 2}
      BY <1>3
    <3> HIDE DEF other
    <3> QED
      BY <2>1, <3>1, CallKeeps DEF other
  <2>2. CASE Depth > 0 /\ Call(Innermost.temp, Depth, arena_scratch_begin_conflict(Innermost.temp))
    <3>1. PICK out \in {1, 2} : out = Innermost.temp
      BY <1>2, <2>2
    <3>2. PICK other \in {1, 2} : other = arena_scratch_begin_conflict(out) /\ other # out
      BY <1>3, <3>1
    <3>3. Call(out, Depth, other) /\ Depth \in 1..Depth /\ \A j \in (Depth + 1)..Depth : frames[j].temp # out
      BY <2>2, <3>1, <3>2, <1>1, <1>2
    <3> QED
      BY <3>2, <3>3, <1>1, CallKeeps
  <2>3. CASE Depth > 0 /\ Call(Innermost.out, Innermost.keeper, arena_scratch_begin_conflict(Innermost.out))
    <3>1. PICK out \in {Own, 1, 2}, keeper \in Nat : out = Innermost.out /\ keeper = Innermost.keeper
      BY <1>2, <2>3
    <3>2. PICK other \in {1, 2} : other = arena_scratch_begin_conflict(out) /\ other # out
      BY <1>3, <3>1
    <3>3. Call(out, keeper, other)
      BY <2>3, <3>1, <3>2
    <3>4. out # Own => keeper \in 1..Depth /\ \A j \in (keeper + 1)..Depth : frames[j].temp # out
      BY <2>3, <3>1, <1>1, <1>2 DEF FrameOK
    <3> QED
      BY <3>2, <3>3, <3>4, CallKeeps
  <2> QED
    BY <1>4, <2>1, <2>2, <2>3 DEF Conflicting
<1>5. CASE Plain
  BY <1>5, CallKeeps DEF Plain, arena_scratch_begin
<1>6. CASE Format
  <2>1. PICK arena \in {1, 2} : arena = Innermost.temp
    BY <1>2, <1>6 DEF Format
  <2>2. Put(arena, Depth) /\ Depth \in 1..Depth /\ \A j \in (Depth + 1)..Depth : frames[j].temp # arena
    BY <1>1, <1>2, <1>6, <2>1 DEF Format
  <2> QED
    BY <2>2, PutKeeps
<1>7. CASE Result
  <2>1. PICK arena \in {1, 2}, keeper \in 1..Depth :
          arena = Innermost.out /\ keeper = Innermost.keeper
    <3>1. Depth > 0 /\ Innermost.out # Own
      BY <1>7 DEF Result
    <3>2. Innermost.keeper \in 1..Depth
      BY <3>1, <1>1, <1>2 DEF FrameOK
    <3> QED
      BY <3>1, <3>2, <1>2
  <2>2. Put(arena, keeper) /\ Depth > 0 /\ arena # Own
    BY <1>7, <2>1 DEF Result
  <2>3. \A j \in (keeper + 1)..Depth : frames[j].temp # arena
    BY <2>1, <2>2, <1>2 DEF FrameOK
  <2> QED
    BY <2>2, <2>3, PutKeeps
<1>8. CASE arena_scratch_end
  BY <1>8, EndKeeps
<1>9. CASE UNCHANGED scratch_vars
  BY <1>9 DEF scratch_vars, ScratchInv, Depth, FrameOK, BlockKept
<1> QED
  BY <1>4, <1>5, <1>6, <1>7, <1>8, <1>9 DEF ScratchNext

LEMMA ScratchMeans == ScratchInv => ScratchTypeOK /\ ResultsSurvive
<1>. SUFFICES ASSUME ScratchInv PROVE ScratchTypeOK /\ ResultsSurvive
  OBVIOUS
<1>1. \A i \in DOMAIN frames : frames[i].temp \in {1, 2} /\ frames[i].out \in {Own, 1, 2}
  <2>1. \A i \in DOMAIN frames : frames[i] \in Frame
    BY DEF ScratchInv
  <2> QED
    BY <2>1 DEF Frame
<1> QED
  BY <1>1 DEF ScratchInv, ScratchTypeOK, ResultsSurvive, BlockKept

(* Whatever a call leaves for its callers stays below the position of its  *)
(* arena until the call it was made for returns, however calls nest and    *)
(* wherever their results go (arena.c:538-565, sprintf.c).                 *)
THEOREM ResultsSurviveAlways == ScratchSpec => [](ScratchTypeOK /\ ResultsSurvive)
<1>1. ScratchInv /\ [ScratchNext]_scratch_vars => ScratchInv'
  BY ScratchStep
<1> QED
  BY <1>1, ScratchStart, ScratchMeans, PTL DEF ScratchSpec

-----------------------------------------------------------------------------
(***************************************************************************)
(* The memory of a thread: its parts share no state, so what holds of each *)
(* holds of all of them side by side.                                      *)
(***************************************************************************)

(* MemoryIsApartAlways: what the string allocator, the pool, the hash map  *)
(* and the scratch arenas hand out again is no longer anyone else's, for   *)
(* any sizes, keys, hashes, writes and depths (string_allocator.c:46-120,  *)
(* pool_allocator.c:38-67, hashmap.c:86-210, arena.c:538-565).             *)
THEOREM MemoryIsApartAlways == MemorySpec => []MemoryIsApart
<1>1. StringsAreApart /\ PoolIsSound /\ NodesAreAccounted /\ ScratchTypeOK /\ ResultsSurvive => MemoryIsApart
  BY DEF MemoryIsApart
<1> QED
  BY <1>1, StringsAreApartAlways, PoolIsSoundAlways, NodesAccounted, ResultsSurviveAlways, PTL DEF MemorySpec

-----------------------------------------------------------------------------
(***************************************************************************)
(* Proofs about Tlsf, for every geometry of classes the static assertions  *)
(* of tlsf.c allow, and any pools, requests and alignments.                *)
(*                                                                         *)
(* The argument: seen as a function from header to size, a heap tiles its  *)
(* pools, and every step of a call rewrites that function in one of three  *)
(* ways: a block is cut in two, two neighbours become one, a pool comes or *)
(* goes.  Loose(h, P, S) is a heap in the middle of a call: sound, but for *)
(* the blocks of S, which are in no list and whose flags are their own     *)
(* caller's business.  Each function of the file takes one loose heap to   *)
(* another, and the heap a call leaves is Good: loose with no exception.   *)
(* That the search rounds a size up to a class whose every block is large  *)
(* enough is arithmetic about powers of two.                               *)
(***************************************************************************)

LEMMA BitIsPower == Bit = Power
BY DEF Bit, Power

(* Bits of two double, and so outgrow their exponents.                     *)
LEMMA BitGrows ==
  /\ Bit[0] = 1
  /\ \A n \in Nat : Bit[n] \in Nat /\ Bit[n] > n /\ Bit[n + 1] = 2 * Bit[n]
BY BitIsPower, PowerGrows

LEMMA BitMonotone == ASSUME NEW m \in Nat, NEW n \in Nat, m <= n PROVE Bit[m] <= Bit[n]
BY BitIsPower, PowerMonotone

-----------------------------------------------------------------------------
LEMMA Quotient ==
  ASSUME NEW x \in Int, NEW g \in Nat \ {0}
  PROVE  x \div g \in Int /\ x % g \in 0..g - 1 /\ x = (g * (x \div g)) + (x % g)
OBVIOUS

LEMMA Division ==
  ASSUME NEW x \in Int, NEW g \in Nat \ {0}
  PROVE  \E q \in Int, r \in 0..g - 1 : q = x \div g /\ x = (g * q) + r
<1>1. PICK q, r : q = x \div g /\ r = x % g
  OBVIOUS
<1>2. q \in Int /\ r \in 0..g - 1 /\ x = (g * q) + r
  BY <1>1, Quotient
<1> QED
  BY <1>1, <1>2

LEMMA QuotientIs ==
  ASSUME NEW q \in Int, NEW g \in Nat \ {0}, NEW r \in 0..g - 1
  PROVE  ((g * q) + r) \div g = q /\ ((g * q) + r) % g = r
OBVIOUS

LEMMA Multiple == ASSUME NEW q \in Int, NEW g \in Nat \ {0} PROVE (g * q) % g = 0
OBVIOUS

LEMMA Products ==
  ASSUME NEW g \in Int, NEW a \in Int, NEW b \in Int
  PROVE  /\ g * a \in Int /\ g * b \in Int /\ a * g = g * a
         /\ g * (a + b) = (g * a) + (g * b) /\ g * (a - b) = (g * a) - (g * b)
OBVIOUS

LEMMA ProductGrows ==
  ASSUME NEW g \in Nat, NEW a \in Int, NEW b \in Int, a <= b
  PROVE  g * a <= g * b
OBVIOUS

LEMMA QuotientGrows ==
  ASSUME NEW g \in Nat \ {0}, NEW a \in Int, NEW b \in Int, a <= b
  PROVE  a \div g <= b \div g
OBVIOUS

(* Multiples of a number: sums and differences.                            *)
LEMMA Multiples ==
  ASSUME NEW g \in Nat \ {0}, NEW a \in Int, NEW b \in Int, a % g = 0, b % g = 0
  PROVE  /\ (a + b) % g = 0 /\ (a - b) % g = 0
         /\ a > b => a >= b + g
<1>1. PICK k \in Int : k = a \div g /\ a = g * k
  BY Quotient
<1>2. PICK l \in Int : l = b \div g /\ b = g * l
  BY Quotient
<1>3. PICK s \in Int, d \in Int : s = k + l /\ d = k - l
  OBVIOUS
<1>4. a + b = g * s /\ a - b = g * d
  BY <1>1, <1>2, <1>3, Products
<1>5. (a + b) % g = 0 /\ (a - b) % g = 0
  BY <1>3, <1>4, Multiple
<1>6. ASSUME a > b PROVE a >= b + g
  <2>1. ~ (k <= l)
    BY <1>1, <1>2, <1>6, ProductGrows
  <2>2. l + 1 <= k /\ g * (l + 1) <= g * k /\ g * (l + 1) = (g * l) + (g * 1) /\ g * 1 = g
    BY <2>1, ProductGrows, Products
  <2> QED
    BY <1>1, <1>2, <2>2
<1> QED
  BY <1>5, <1>6

LEMMA Divides == ASSUME NEW m \in Nat \ {0}, NEW a \in Int, a % m = 0 PROVE \E k \in Int : a = m * k
<1>1. a \div m \in Int /\ a = (m * (a \div m)) + (a % m)
  BY Quotient
<1>2. a = m * (a \div m)
  BY <1>1
<1> QED
  BY <1>1, <1>2

LEMMA Associates == ASSUME NEW g \in Int, NEW q \in Int, NEW k \in Int PROVE (g * q) * k = g * (q * k)
OBVIOUS

(* What goes into a factor of a number goes into its multiples.            *)
LEMMA MultiplesOfMultiples ==
  ASSUME NEW g \in Nat \ {0}, NEW q \in Nat, NEW m \in Nat \ {0}, m = g * q, NEW a \in Int, a % m = 0
  PROVE  a % g = 0
<1>1. PICK k \in Int : a = m * k
  BY Divides
<1>2. PICK t \in Int : t = q * k
  OBVIOUS
<1>3. a = g * t
  BY <1>1, <1>2, Associates
<1> QED
  BY <1>3, Multiple

LEMMA BitAdds == ASSUME NEW m \in Nat, NEW n \in Nat PROVE Bit[m + n] = Bit[m] * Bit[n]
<1> DEFINE B == {k \in Nat : Bit[m + k] # Bit[m] * Bit[k]}
<1> SUFFICES ASSUME B # {} PROVE FALSE
  OBVIOUS
<1>1. PICK k \in B : \A j \in B : k <= j
  BY Least
<1>2. k # 0
  BY <1>1, BitGrows
<1>3. k - 1 \in Nat /\ ~ (k <= k - 1) /\ m + (k - 1) \in Nat /\ (m + (k - 1)) + 1 = m + k /\ (k - 1) + 1 = k
  BY <1>2
<1>4. Bit[m + (k - 1)] = Bit[m] * Bit[k - 1]
  BY <1>1, <1>3
<1>5. Bit[m + k] = 2 * Bit[m + (k - 1)] /\ Bit[k] = 2 * Bit[k - 1]
  BY <1>3, BitGrows
<1>6. PICK a \in Nat, b \in Nat : a = Bit[m] /\ b = Bit[k - 1]
  BY <1>3, BitGrows
<1>7. 2 * (a * b) = a * (2 * b)
  OBVIOUS
<1> QED
  BY <1>1, <1>4, <1>5, <1>6, <1>7

(* A smaller power of two goes into a larger one.                          *)
LEMMA BitDivides ==
  ASSUME NEW m \in Nat, NEW n \in Nat, m <= n, NEW a \in Int, a % Bit[n] = 0
  PROVE  Bit[n] % Bit[m] = 0 /\ a % Bit[m] = 0
<1>1. n - m \in Nat /\ m + (n - m) = n
  OBVIOUS
<1>2. Bit[n] = Bit[m] * Bit[n - m]
  BY <1>1, BitAdds
<1>3. PICK g, q, t : g = Bit[m] /\ q = Bit[n - m] /\ t = Bit[n]
  OBVIOUS
<1>5. g \in Nat \ {0} /\ q \in Nat /\ t \in Nat \ {0}
  BY <1>1, <1>3, BitGrows
<1>4. t % t = 0
  BY <1>5
<1> QED
  BY <1>2, <1>3, <1>4, <1>5, MultiplesOfMultiples

-----------------------------------------------------------------------------
(* The constants of the file.                                              *)
LEMMA ConstantsAre ==
  /\ SL_INDEX_COUNT_LOG2 \in Nat /\ ALIGN_SIZE_LOG2 \in Nat /\ FL_INDEX_MAX \in Nat /\ SizeBits \in Nat
  /\ FL_INDEX_SHIFT \in Nat /\ FL_INDEX_SHIFT = SL_INDEX_COUNT_LOG2 + ALIGN_SIZE_LOG2
  /\ FL_INDEX_COUNT \in Nat /\ FL_INDEX_COUNT = FL_INDEX_MAX - FL_INDEX_SHIFT + 1 /\ FL_INDEX_SHIFT < FL_INDEX_MAX
  /\ ALIGN_SIZE \in Nat \ {0} /\ SL_INDEX_COUNT \in Nat \ {0} /\ SMALL_BLOCK_SIZE \in Nat
  /\ Overhead = ALIGN_SIZE /\ block_size_min = 3 * ALIGN_SIZE /\ HeaderSize = 4 * ALIGN_SIZE
  /\ PoolOverhead = 2 * ALIGN_SIZE
  /\ SMALL_BLOCK_SIZE = SL_INDEX_COUNT * ALIGN_SIZE /\ SMALL_BLOCK_SIZE \div SL_INDEX_COUNT = ALIGN_SIZE
  /\ block_size_max \in Nat /\ Bit[SizeBits] \in Nat /\ Bit[SizeBits] >= 4 * block_size_max
  /\ block_size_max >= 2 * ALIGN_SIZE
  /\ block_size_max % ALIGN_SIZE = 0 /\ SMALL_BLOCK_SIZE < block_size_max
<1>1. /\ SL_INDEX_COUNT_LOG2 \in Nat /\ ALIGN_SIZE_LOG2 \in Nat /\ FL_INDEX_MAX \in Nat /\ SizeBits \in Nat
      /\ FL_INDEX_SHIFT < FL_INDEX_MAX /\ FL_INDEX_MAX + 2 <= SizeBits
  BY TlsfAssumption DEF FL_INDEX_SHIFT
<1>2. FL_INDEX_SHIFT \in Nat /\ FL_INDEX_SHIFT = SL_INDEX_COUNT_LOG2 + ALIGN_SIZE_LOG2
  BY <1>1 DEF FL_INDEX_SHIFT
<1>3. FL_INDEX_COUNT \in Nat /\ FL_INDEX_COUNT = FL_INDEX_MAX - FL_INDEX_SHIFT + 1
  BY <1>1, <1>2 DEF FL_INDEX_COUNT
<1>4. ALIGN_SIZE \in Nat \ {0} /\ SL_INDEX_COUNT \in Nat \ {0} /\ SMALL_BLOCK_SIZE \in Nat /\ block_size_max \in Nat
  BY <1>1, <1>2, BitGrows DEF ALIGN_SIZE, SL_INDEX_COUNT, SMALL_BLOCK_SIZE, block_size_max
<1>5. SMALL_BLOCK_SIZE = SL_INDEX_COUNT * ALIGN_SIZE
  BY <1>1, <1>2, BitAdds DEF ALIGN_SIZE, SL_INDEX_COUNT, SMALL_BLOCK_SIZE
<1>6. SMALL_BLOCK_SIZE \div SL_INDEX_COUNT = ALIGN_SIZE
  <2>1. SMALL_BLOCK_SIZE = (SL_INDEX_COUNT * ALIGN_SIZE) + 0 /\ 0 \in 0..SL_INDEX_COUNT - 1
    BY <1>4, <1>5
  <2> QED
    BY <1>4, <2>1, QuotientIs
<1>7. Bit[SizeBits] \in Nat /\ Bit[SizeBits] >= 4 * block_size_max
  <2>1. Bit[FL_INDEX_MAX + 2] <= Bit[SizeBits]
    BY <1>1, BitMonotone
  <2>2. Bit[FL_INDEX_MAX + 1] = 2 * Bit[FL_INDEX_MAX] /\ (FL_INDEX_MAX + 1) + 1 = FL_INDEX_MAX + 2
    BY <1>1, BitGrows
  <2>3. Bit[FL_INDEX_MAX + 2] = 2 * Bit[FL_INDEX_MAX + 1]
    BY <1>1, <2>2, BitGrows
  <2> QED
    BY <1>1, <1>4, <2>1, <2>2, <2>3, BitGrows DEF block_size_max
<1>8. SMALL_BLOCK_SIZE < block_size_max /\ block_size_max >= 2 * ALIGN_SIZE
  <2>1. Bit[FL_INDEX_SHIFT + 1] <= Bit[FL_INDEX_MAX] /\ Bit[FL_INDEX_SHIFT + 1] = 2 * Bit[FL_INDEX_SHIFT]
    BY <1>1, <1>2, BitMonotone, BitGrows
  <2>2. Bit[ALIGN_SIZE_LOG2] <= Bit[FL_INDEX_SHIFT] /\ Bit[FL_INDEX_SHIFT] \in Nat /\ Bit[FL_INDEX_SHIFT] > 0
    BY <1>1, <1>2, BitMonotone, BitGrows
  <2> QED
    BY <1>4, <2>1, <2>2 DEF SMALL_BLOCK_SIZE, block_size_max, ALIGN_SIZE
<1>9. block_size_max % ALIGN_SIZE = 0
  <2>1. 0 % Bit[FL_INDEX_MAX] = 0
    BY <1>1, BitGrows
  <2> QED
    BY <1>1, <1>2, <2>1, BitDivides DEF block_size_max, ALIGN_SIZE
<1> QED
  BY <1>1, <1>2, <1>3, <1>4, <1>5, <1>6, <1>7, <1>8, <1>9
  DEF Overhead, block_size_min, HeaderSize, PoolOverhead

-----------------------------------------------------------------------------
(* The last bit that is set.                                               *)
LEMMA FlsIs ==
  ASSUME NEW x \in Nat \ {0}, x < Bit[SizeBits]
  PROVE  /\ fls(x) \in Nat /\ fls(x) < SizeBits /\ Bit[fls(x)] <= x /\ x < Bit[fls(x) + 1]
         /\ \A k \in Nat : Bit[k] <= x => k <= fls(x)
         /\ \A k \in Nat : x < Bit[k + 1] => fls(x) <= k
<1> DEFINE N == SizeBits
           T == {k \in Nat : x < Bit[k]}
<1>1. N \in Nat
  BY ConstantsAre
<1>2. PICK t \in T : \A k \in T : t <= k
  BY <1>1, Least
<1>3. t <= N /\ t # 0
  BY <1>1, <1>2, BitGrows
<1>4. t - 1 \in Nat /\ ~ (t <= t - 1) /\ (t - 1) + 1 = t
  BY <1>3
<1>5. Bit[t - 1] <= x
  BY <1>2, <1>4, BitGrows
<1>6. t - 1 \in 0..SizeBits /\ Bit[t - 1] <= x /\ x < Bit[(t - 1) + 1]
  BY <1>1, <1>2, <1>3, <1>4, <1>5
<1>7. PICK f : f = fls(x)
  OBVIOUS
<1>8. f \in 0..SizeBits /\ Bit[f] <= x /\ x < Bit[f + 1]
  BY <1>6, <1>7 DEF fls
<1>9. f \in Nat /\ Bit[f] \in Nat /\ Bit[f + 1] \in Nat
  BY <1>1, <1>8, BitGrows
<1>10. f < SizeBits
  <2>1. SUFFICES ASSUME ~ (f < SizeBits) PROVE FALSE
    OBVIOUS
  <2>2. Bit[SizeBits] <= Bit[f]
    BY <1>1, <1>9, <2>1, BitMonotone
  <2> QED
    BY <1>1, <1>8, <1>9, <2>2, BitGrows
<1>11. ASSUME NEW k \in Nat, Bit[k] <= x PROVE k <= f
  <2>1. SUFFICES ASSUME ~ (k <= f) PROVE FALSE
    OBVIOUS
  <2>2. Bit[f + 1] <= Bit[k]
    BY <1>9, <2>1, BitMonotone
  <2> QED
    BY <1>8, <1>9, <1>11, <2>2, BitGrows
<1>12. ASSUME NEW k \in Nat, x < Bit[k + 1] PROVE f <= k
  <2>1. SUFFICES ASSUME ~ (f <= k) PROVE FALSE
    OBVIOUS
  <2>2. Bit[k + 1] <= Bit[f]
    BY <1>9, <2>1, BitMonotone
  <2>3. Bit[k + 1] \in Nat
    BY BitGrows
  <2> QED
    BY <1>8, <1>9, <1>12, <2>2, <2>3
<1> QED
  BY <1>7, <1>8, <1>9, <1>10, <1>11, <1>12
-----------------------------------------------------------------------------
(* The class of a size.                                                    *)

LEMMA SmallClass ==
  ASSUME NEW x \in Nat, x < SMALL_BLOCK_SIZE
  PROVE  /\ mapping_insert(x) = <<0, x \div ALIGN_SIZE>>
         /\ x \div ALIGN_SIZE \in 0..SL_INDEX_COUNT - 1
<1>1. PICK W \in Nat \ {0}, S \in Nat \ {0} : W = ALIGN_SIZE /\ S = SL_INDEX_COUNT
  BY ConstantsAre
<1>2. mapping_insert(x) = <<0, x \div W>>
  BY <1>1, ConstantsAre DEF mapping_insert
<1>3. x < S * W
  BY <1>1, ConstantsAre
<1>4. PICK q \in Int, r \in 0..W - 1 : q = x \div W /\ x = (W * q) + r
  BY Division
<1>5. q >= 0
  <2>1. SUFFICES ASSUME q <= -1 PROVE FALSE
    OBVIOUS
  <2>2. W * q <= W * (-1) /\ W * (-1) = -W
    BY <2>1, ProductGrows
  <2> QED
    BY <1>4, <2>2
<1>6. q < S
  <2>1. SUFFICES ASSUME S <= q PROVE FALSE
    BY <1>4
  <2>2. W * S <= W * q /\ S * W = W * S
    BY <2>1, ProductGrows, Products
  <2> QED
    BY <1>3, <1>4, <2>2
<1> QED
  BY <1>1, <1>2, <1>4, <1>5, <1>6

(* g is the distance of two classes.                                       *)
IsLarge(x, f, g) ==
  /\ f \in Nat /\ f >= FL_INDEX_SHIFT /\ f < SizeBits /\ f = fls(x)
  /\ g \in Nat \ {0} /\ g = Bit[f - SL_INDEX_COUNT_LOG2] /\ Bit[f] = SL_INDEX_COUNT * g
  /\ Bit[f] <= x /\ x < 2 * Bit[f] /\ Bit[f + 1] = 2 * Bit[f] /\ Bit[f] \in Nat
  /\ mapping_insert(x) = <<f - FL_INDEX_SHIFT + 1, x \div g - SL_INDEX_COUNT>>
  /\ x \div g - SL_INDEX_COUNT \in 0..SL_INDEX_COUNT - 1

LEMMA LargeClass ==
  ASSUME NEW x \in Nat, x >= SMALL_BLOCK_SIZE, x < Bit[SizeBits]
  PROVE  \E f, g : IsLarge(x, f, g)
<1>1. PICK W, S, N, sl : W = ALIGN_SIZE /\ S = SL_INDEX_COUNT /\ N = FL_INDEX_SHIFT /\ sl = SL_INDEX_COUNT_LOG2
  OBVIOUS
<1>2. /\ W \in Nat \ {0} /\ S \in Nat \ {0} /\ N \in Nat /\ sl \in Nat /\ sl <= N /\ SMALL_BLOCK_SIZE = S * W
      /\ SMALL_BLOCK_SIZE \in Nat
  BY <1>1, ConstantsAre
<1>3. x # 0 /\ Bit[N] <= x
  <2>1. SMALL_BLOCK_SIZE = Bit[N] /\ Bit[N] > N
    BY <1>1, <1>2, BitGrows DEF SMALL_BLOCK_SIZE
  <2> QED
    BY <1>2, <2>1
<1>4. PICK f : f = fls(x)
  OBVIOUS
<1>5. f \in Nat /\ f < SizeBits /\ Bit[f] <= x /\ x < Bit[f + 1] /\ N <= f
  BY <1>2, <1>3, <1>4, FlsIs
<1>6. Bit[f + 1] = 2 * Bit[f] /\ Bit[f] \in Nat
  BY <1>5, BitGrows
<1>7. f - sl \in Nat /\ sl + (f - sl) = f
  BY <1>2, <1>5
<1>8. PICK g : g = Bit[f - sl]
  OBVIOUS
<1>9. g \in Nat \ {0} /\ Bit[f] = S * g
  <2>1. Bit[f - sl] \in Nat /\ Bit[f - sl] > f - sl
    BY <1>7, BitGrows
  <2>2. Bit[sl + (f - sl)] = Bit[sl] * Bit[f - sl]
    BY <1>2, <1>7, BitAdds
  <2> QED
    BY <1>1, <1>7, <1>8, <2>1, <2>2 DEF SL_INDEX_COUNT
<1>10. mapping_insert(x) = <<f - N + 1, x \div g - S>>
  <2>1. f - (N - 1) = f - N + 1 /\ ~ (x < SMALL_BLOCK_SIZE)
    BY <1>2, <1>5
  <2> QED
    BY <1>1, <1>4, <1>8, <2>1 DEF mapping_insert
<1>11. PICK q \in Int, r \in 0..g - 1 : q = x \div g /\ x = (g * q) + r
  BY <1>9, Division
<1>12. S <= q
  <2>1. SUFFICES ASSUME q <= S - 1 PROVE FALSE
    BY <1>2
  <2>2. g * q <= g * (S - 1) /\ g * (S - 1) = (g * S) - (g * 1) /\ S * g = g * S /\ g * 1 = g
    BY <1>2, <1>9, <2>1, ProductGrows, Products
  <2>3. g * q <= Bit[f] - g
    BY <1>9, <2>2
  <2> QED
    BY <1>5, <1>6, <1>9, <1>11, <2>3
<1>13. q < 2 * S
  <2>1. SUFFICES ASSUME 2 * S <= q PROVE FALSE
    BY <1>2, <1>11
  <2>2. g * (S + S) <= g * q /\ g * (S + S) = (g * S) + (g * S) /\ S * g = g * S
    BY <1>2, <1>9, <2>1, ProductGrows, Products
  <2> QED
    BY <1>5, <1>6, <1>9, <1>11, <2>2
<1>14. q - S \in 0..S - 1
  BY <1>2, <1>12, <1>13
<1>15. IsLarge(x, f, g)
  BY <1>1, <1>4, <1>5, <1>6, <1>8, <1>9, <1>10, <1>11, <1>14 DEF IsLarge
<1> QED
  BY <1>15

(* Every size of a block has a class.                                      *)
LEMMA SizeHasClass ==
  ASSUME NEW x \in Nat, x < block_size_max
  PROVE  mapping_insert(x) \in Classes
<1>1. CASE x < SMALL_BLOCK_SIZE
  <2>1. 0 \in 0..FL_INDEX_COUNT - 1
    BY ConstantsAre
  <2> QED
    BY <1>1, <2>1, SmallClass DEF Classes
<1>2. CASE x >= SMALL_BLOCK_SIZE
  <2>1. x < Bit[SizeBits]
    BY ConstantsAre
  <2>2. PICK f, g : IsLarge(x, f, g)
    BY <1>2, <2>1, LargeClass
  <2>3. f < FL_INDEX_MAX
    <3>1. SUFFICES ASSUME ~ (f < FL_INDEX_MAX) PROVE FALSE
      OBVIOUS
    <3>2. Bit[FL_INDEX_MAX] <= Bit[f]
      BY <2>2, <3>1, ConstantsAre, BitMonotone DEF IsLarge
    <3> QED
      BY <2>2, <3>2, ConstantsAre DEF IsLarge, block_size_max
  <2>4. f - FL_INDEX_SHIFT + 1 \in 0..FL_INDEX_COUNT - 1
    BY <2>2, <2>3, ConstantsAre DEF IsLarge
  <2> QED
    BY <2>2, <2>4 DEF IsLarge, Classes
<1> QED
  BY <1>1, <1>2, ConstantsAre

(* The classes a search may take, from its own on.                         *)
FromOn(m, d) == d[1] > m[1] \/ (d[1] = m[1] /\ d[2] >= m[2])

LEMMA SmallFit ==
  ASSUME NEW size \in Nat, size < SMALL_BLOCK_SIZE, size % ALIGN_SIZE = 0, NEW x \in Nat, x < Bit[SizeBits]
  PROVE  /\ mapping_search(size) = mapping_insert(size)
         /\ FromOn(mapping_insert(size), mapping_insert(x)) <=> x >= size
<1>1. PICK W \in Nat \ {0} : W = ALIGN_SIZE
  BY ConstantsAre
<1>2. SMALL_BLOCK_SIZE \in Nat
  BY ConstantsAre
<1>3. mapping_search(size) = mapping_insert(size)
  BY <1>2 DEF mapping_search
<1>4. mapping_insert(size) = <<0, size \div W>>
  BY <1>1, SmallClass
<1>5. PICK q \in Int : q = size \div W /\ size = W * q
  <2>1. size \div W \in Int /\ size = (W * (size \div W)) + (size % W)
    BY Quotient
  <2> QED
    BY <1>1, <2>1
<1>6. CASE x < SMALL_BLOCK_SIZE
  <2>1. mapping_insert(x) = <<0, x \div W>>
    BY <1>1, <1>6, SmallClass
  <2>2. PICK p \in Int, r \in 0..W - 1 : p = x \div W /\ x = (W * p) + r
    BY Division
  <2>3. p >= q => x >= size
    BY <1>5, <2>2, ProductGrows
  <2>4. x >= size => p >= q
    BY <1>1, <1>5, <2>2, QuotientGrows
  <2>5. FromOn(mapping_insert(size), mapping_insert(x)) <=> p >= q
    BY <1>4, <1>5, <2>1, <2>2 DEF FromOn
  <2> QED
    BY <1>3, <2>3, <2>4, <2>5
<1>7. CASE x >= SMALL_BLOCK_SIZE
  <2>1. PICK f, g : IsLarge(x, f, g)
    BY <1>7, LargeClass
  <2>2. PICK i \in Nat : mapping_insert(x)[1] = i /\ i > 0
    <3>1. f - FL_INDEX_SHIFT + 1 \in Nat /\ f - FL_INDEX_SHIFT + 1 > 0
      BY <2>1, ConstantsAre DEF IsLarge
    <3> QED
      BY <2>1, <3>1 DEF IsLarge
  <2>3. FromOn(mapping_insert(size), mapping_insert(x))
    <3>1. mapping_insert(size)[1] = 0
      BY <1>4
    <3> QED
      BY <2>2, <3>1 DEF FromOn
  <2> QED
    BY <1>2, <1>3, <1>7, <2>3
<1> QED
  BY <1>2, <1>6, <1>7

(* A search rounds up to the next class, whose blocks are large enough.    *)
LEMMA SearchRounds ==
  ASSUME NEW size \in Nat, size >= SMALL_BLOCK_SIZE, size < block_size_max
  PROVE  \E f, g, h, k, up : /\ IsLarge(size, f, g) /\ up = size + g - 1 /\ up \in Nat /\ up < Bit[SizeBits]
                             /\ IsLarge(up, h, k) /\ mapping_search(size) = mapping_insert(up)
                             /\ \/ h = f /\ k = g
                                \/ h = f + 1 /\ k = 2 * g /\ Bit[h] = 2 * Bit[f] /\ up < Bit[h] + g
<1>1. size < Bit[SizeBits] /\ SMALL_BLOCK_SIZE \in Nat /\ block_size_max \in Nat /\ Bit[SizeBits] \in Nat
  BY ConstantsAre
<1>2. PICK f, g : IsLarge(size, f, g)
  BY <1>1, LargeClass
<1>3. PICK S \in Nat \ {0}, sl \in Nat : S = SL_INDEX_COUNT /\ sl = SL_INDEX_COUNT_LOG2 /\ sl <= FL_INDEX_SHIFT
  BY ConstantsAre
<1>4. /\ f \in Nat /\ f >= FL_INDEX_SHIFT /\ f = fls(size) /\ g \in Nat \ {0} /\ g = Bit[f - sl]
      /\ Bit[f] = S * g /\ Bit[f] <= size /\ size < 2 * Bit[f] /\ Bit[f] \in Nat /\ Bit[f + 1] = 2 * Bit[f]
      /\ FL_INDEX_SHIFT \in Nat
  BY <1>2, <1>3, ConstantsAre DEF IsLarge
<1>5. g <= Bit[f]
  <2>1. g * 1 <= g * S /\ g * 1 = g /\ g * S = S * g
    BY <1>3, <1>4, ProductGrows, Products
  <2> QED
    BY <1>4, <2>1
<1>6. PICK up : up = size + g - 1
  OBVIOUS
<1>7. up \in Nat /\ size <= up /\ up < 2 * block_size_max /\ up >= SMALL_BLOCK_SIZE
  BY <1>1, <1>4, <1>5, <1>6
<1>8. up < Bit[SizeBits]
  BY <1>1, <1>7, ConstantsAre
<1>9. mapping_search(size) = mapping_insert(up)
  BY <1>1, <1>3, <1>4, <1>6 DEF mapping_search
<1>10. PICK h, k : IsLarge(up, h, k)
  BY <1>7, <1>8, LargeClass
<1>11. h \in Nat /\ h = fls(up) /\ k = Bit[h - sl] /\ h >= FL_INDEX_SHIFT
  BY <1>3, <1>10 DEF IsLarge
<1>12. f <= h /\ h <= f + 1
  <2>1. Bit[f] <= up /\ up # 0
    BY <1>1, <1>4, <1>7, BitGrows
  <2>2. Bit[(f + 1) + 1] = 2 * Bit[f + 1] /\ f + 1 \in Nat
    BY <1>4, BitGrows
  <2>3. up < Bit[(f + 1) + 1]
    BY <1>4, <1>5, <1>6, <2>2
  <2> QED
    BY <1>4, <1>7, <1>8, <1>11, <2>1, <2>2, <2>3, FlsIs
<1>13. CASE h = f
  BY <1>2, <1>4, <1>6, <1>7, <1>8, <1>9, <1>10, <1>11, <1>13
<1>14. CASE h = f + 1
  <2>1. h - sl = (f - sl) + 1 /\ f - sl \in Nat
    BY <1>3, <1>4, <1>14
  <2>2. k = 2 * g
    BY <1>4, <1>11, <2>1, BitGrows
  <2>3. Bit[h] = 2 * Bit[f] /\ up < Bit[h] + g
    BY <1>4, <1>6, <1>14
  <2> QED
    BY <1>2, <1>6, <1>7, <1>8, <1>9, <1>10, <1>14, <2>2, <2>3
<1>15. h = f \/ h = f + 1
  <2>1. f \in Nat /\ h \in Nat
    BY <1>4, <1>11
  <2> QED
    BY <1>12, <2>1
<1> QED
  BY <1>13, <1>14, <1>15

(* x is q times g and r more.                                              *)
Divided(x, g, q, r) == q \in Int /\ r \in 0..g - 1 /\ x = (g * q) + r

LEMMA DividedIs == ASSUME NEW x \in Nat, NEW g \in Nat \ {0} PROVE \E q, r : q = x \div g /\ Divided(x, g, q, r)
<1>1. PICK q, r : q = x \div g /\ r = x % g
  OBVIOUS
<1>2. q \in Int /\ r \in 0..g - 1 /\ x = (g * q) + r
  BY <1>1, Quotient
<1> QED
  BY <1>1, <1>2 DEF Divided

(* With one divisor, the quotients are in the order of the numbers.        *)
LEMMA DividedGrows ==
  ASSUME NEW g \in Nat \ {0}, NEW x \in Nat, NEW y \in Nat, NEW p, NEW r, NEW q, NEW t,
         Divided(x, g, p, r), Divided(y, g, q, t)
  PROVE  /\ p <= q => x < y + g
         /\ p < q => x < y /\ (x - r) + g <= y
         /\ p + 2 <= q => x + g < y
<1>1. p \in Int /\ q \in Int /\ r \in Int /\ t \in Int /\ 0 <= r /\ r < g /\ 0 <= t /\ t < g /\ x = (g * p) + r /\ y = (g * q) + t
  BY DEF Divided
<1>2. PICK P \in Int, Q \in Int : P = g * p /\ Q = g * q
  BY <1>1, Products
<1>3. x = P + r /\ y = Q + t
  BY <1>1, <1>2
<1>4. ASSUME p < q PROVE P + g <= Q
  <2>1. p + 1 <= q /\ p + 1 \in Int
    BY <1>1, <1>4
  <2>2. g * (p + 1) <= g * q
    BY <1>1, <2>1, ProductGrows
  <2>3. g * (p + 1) = (g * p) + (g * 1) /\ g * 1 = g
    BY <1>1, Products
  <2> QED
    BY <1>2, <2>2, <2>3
<1>5. ASSUME p + 2 <= q PROVE P + g + g <= Q
  <2>2. g * (p + 2) <= g * q
    BY <1>1, <1>5, ProductGrows
  <2>3. g * (p + 2) = (g * p) + (g * 2) /\ g * 2 = g + g
    BY <1>1, Products
  <2> QED
    BY <1>2, <2>2, <2>3
<1>6. ASSUME p = q PROVE P = Q
  BY <1>2, <1>6
<1>7. ASSUME p <= q PROVE x < y + g
  BY <1>1, <1>2, <1>3, <1>4, <1>6, <1>7
<1>8. ASSUME p < q PROVE x < y /\ (x - r) + g <= y
  BY <1>1, <1>2, <1>3, <1>4, <1>8
<1>9. ASSUME p + 2 <= q PROVE x + g < y
  BY <1>1, <1>2, <1>3, <1>5, <1>9
<1> QED
  BY <1>7, <1>8, <1>9

(* What the class of a large size is.                                      *)
ClassIs(x, f, g, F, q, r) ==
  /\ IsLarge(x, f, g) /\ f \in Nat /\ F = Bit[f] /\ F \in Nat /\ F <= x /\ x < 2 * F
  /\ g \in Nat \ {0} /\ q = x \div g /\ q \in Nat /\ Divided(x, g, q, r) /\ Divided(F, g, SL_INDEX_COUNT, 0)
  /\ SL_INDEX_COUNT <= q /\ q < 2 * SL_INDEX_COUNT
  /\ mapping_insert(x) = <<f - FL_INDEX_SHIFT + 1, q - SL_INDEX_COUNT>>

LEMMA LargeClassIs ==
  ASSUME NEW x \in Nat, NEW f, NEW g, IsLarge(x, f, g)
  PROVE  \E F, q, r : ClassIs(x, f, g, F, q, r)
<1>1. PICK S \in Nat \ {0} : S = SL_INDEX_COUNT
  BY ConstantsAre
<1>2. PICK F : F = Bit[f]
  OBVIOUS
<1>3. /\ f \in Nat /\ F \in Nat /\ F <= x /\ x < 2 * F /\ g \in Nat \ {0} /\ F = S * g
      /\ mapping_insert(x) = <<f - FL_INDEX_SHIFT + 1, x \div g - S>> /\ x \div g - S \in 0..S - 1
  BY <1>1, <1>2 DEF IsLarge
<1>4. g \in Nat \ {0} /\ F = S * g /\ F \in Nat
  BY <1>3
<1>5. PICK q, r : q = x \div g /\ Divided(x, g, q, r)
  BY <1>4, DividedIs
<1>6. q \in Int /\ q - S \in 0..S - 1
  BY <1>3, <1>5 DEF Divided
<1>7. q \in Nat /\ S <= q /\ q < 2 * S
  BY <1>1, <1>6
<1>8. Divided(F, g, S, 0)
  <2>1. S * g = g * S /\ g * S \in Int
    BY <1>1, <1>4, Products
  <2>2. F = (g * S) + 0 /\ 0 \in 0..g - 1
    BY <1>4, <2>1
  <2> QED
    BY <1>1, <2>2 DEF Divided
<1>9. F <= x /\ x < 2 * F
  BY <1>3
<1>10. mapping_insert(x) = <<f - FL_INDEX_SHIFT + 1, q - S>>
  BY <1>3, <1>5
<1>11. f \in Nat
  BY <1>3
<1> QED
  BY <1>1, <1>2, <1>4, <1>5, <1>7, <1>8, <1>9, <1>10, <1>11 DEF ClassIs

LEMMA RowsAre ==
  ASSUME NEW x, NEW f, NEW g, NEW F, NEW q, NEW r, ClassIs(x, f, g, F, q, r),
         NEW y, NEW e, NEW c, NEW E, NEW p, NEW t, ClassIs(y, e, c, E, p, t)
  PROVE  /\ f < e => 2 * F <= E
         /\ f = e => g = c /\ F = E
         /\ FromOn(mapping_insert(x), mapping_insert(y)) <=> (e > f \/ (e = f /\ p >= q))
<1>1. f \in Nat /\ e \in Nat /\ F = Bit[f] /\ E = Bit[e]
  BY DEF ClassIs
<1>2. ASSUME f < e PROVE 2 * F <= E
  <2>1. f + 1 \in Nat /\ f + 1 <= e
    BY <1>1, <1>2
  <2>2. Bit[f + 1] <= Bit[e] /\ Bit[f + 1] = 2 * Bit[f]
    BY <1>1, <2>1, BitMonotone, BitGrows
  <2> QED
    BY <1>1, <2>2
<1>3. ASSUME f = e PROVE g = c /\ F = E
  BY <1>1, <1>3 DEF ClassIs, IsLarge
<1>4. PICK N \in Nat, S \in Nat : N = FL_INDEX_SHIFT /\ S = SL_INDEX_COUNT
  BY ConstantsAre
<1>5. /\ mapping_insert(x)[1] = f - N + 1 /\ mapping_insert(x)[2] = q - S
      /\ mapping_insert(y)[1] = e - N + 1 /\ mapping_insert(y)[2] = p - S
  BY <1>4 DEF ClassIs
<1>6. p \in Nat /\ q \in Nat
  BY DEF ClassIs
<1>7. e - N + 1 > f - N + 1 <=> e > f
  BY <1>1, <1>4
<1>8. e - N + 1 = f - N + 1 <=> e = f
  BY <1>1, <1>4
<1>9. p - S >= q - S <=> p >= q
  BY <1>4, <1>6
<1> QED
  BY <1>2, <1>3, <1>5, <1>7, <1>8, <1>9 DEF FromOn

LEMMA LargeFit ==
  ASSUME NEW size \in Nat, size >= SMALL_BLOCK_SIZE, size < block_size_max, NEW x \in Nat, x < Bit[SizeBits]
  PROVE  /\ FromOn(mapping_search(size), mapping_insert(x)) => x >= size
         /\ ~ FromOn(mapping_search(size), mapping_insert(x)) /\ x >= size
              => mapping_insert(x) = mapping_insert(size)
<1>1. PICK f, g, h, k, up : /\ IsLarge(size, f, g) /\ up = size + g - 1 /\ up \in Nat /\ up < Bit[SizeBits]
                            /\ IsLarge(up, h, k) /\ mapping_search(size) = mapping_insert(up)
                            /\ \/ h = f /\ k = g
                               \/ h = f + 1 /\ k = 2 * g /\ Bit[h] = 2 * Bit[f] /\ up < Bit[h] + g
  BY SearchRounds
<1>2. PICK F, qs, rs : ClassIs(size, f, g, F, qs, rs)
  BY <1>1, LargeClassIs
<1>3. up \in Nat /\ IsLarge(up, h, k)
  BY <1>1
<1>4. PICK H, qu, ru : ClassIs(up, h, k, H, qu, ru)
  BY <1>3, LargeClassIs
<1>5. PICK S \in Nat \ {0} : S = SL_INDEX_COUNT
  BY ConstantsAre
<1>6. /\ f \in Nat /\ F \in Nat /\ F <= size /\ size < 2 * F /\ g \in Nat \ {0} /\ qs \in Nat
      /\ Divided(size, g, qs, rs) /\ Divided(F, g, S, 0) /\ S <= qs /\ qs < 2 * S
  BY <1>2, <1>5 DEF ClassIs
<1>7. /\ h \in Nat /\ H \in Nat /\ H <= up /\ up < 2 * H /\ k \in Nat \ {0} /\ qu \in Nat
      /\ Divided(up, k, qu, ru) /\ Divided(H, k, S, 0) /\ S <= qu /\ qu < 2 * S
  BY <1>4, <1>5 DEF ClassIs
<1>8. /\ up = size + g - 1 /\ (h = f => k = g)
      /\ h = f \/ h = f + 1
      /\ h = f + 1 => k = 2 * g /\ H = 2 * F /\ up < H + g
  <2>1. F = Bit[f] /\ H = Bit[h]
    BY <1>2, <1>4 DEF ClassIs
  <2>2. f # f + 1
    BY <1>6
  <2> QED
    BY <1>1, <2>1, <2>2
<1>9. CASE x < SMALL_BLOCK_SIZE
  <2>1. mapping_insert(x)[1] = 0
    BY <1>9, SmallClass
  <2>2. PICK N \in Nat : N = FL_INDEX_SHIFT
    BY ConstantsAre
  <2>3. mapping_search(size)[1] = h - N + 1 /\ h >= N
    BY <1>1, <2>2 DEF IsLarge
  <2>4. ~ FromOn(mapping_search(size), mapping_insert(x))
    <3>1. PICK i \in Nat : i = h - N + 1 /\ i > 0
      BY <1>7, <2>3
    <3>2. ~ (0 > i) /\ 0 # i
      BY <3>1
    <3>3. mapping_search(size)[1] = i
      BY <2>3, <3>1
    <3> QED
      BY <2>1, <3>2, <3>3 DEF FromOn
  <2>5. ~ (x >= size)
    BY <1>9, ConstantsAre
  <2> QED
    BY <2>4, <2>5
<1>10. CASE x >= SMALL_BLOCK_SIZE
  <2>1. PICK e, c : IsLarge(x, e, c)
    BY <1>10, LargeClass
  <2>2. PICK E, qx, rx : ClassIs(x, e, c, E, qx, rx)
    BY <2>1, LargeClassIs
  <2>3. /\ e \in Nat /\ E \in Nat /\ E <= x /\ x < 2 * E /\ c \in Nat \ {0} /\ qx \in Nat
        /\ Divided(x, c, qx, rx) /\ S <= qx /\ qx < 2 * S
    BY <1>5, <2>2 DEF ClassIs
  <2>4. /\ h < e => 2 * H <= E
        /\ h = e => k = c /\ H = E
        /\ FromOn(mapping_search(size), mapping_insert(x)) <=> (e > h \/ (e = h /\ qx >= qu))
    BY <1>1, <1>4, <2>2, RowsAre
  <2>5. e < f => 2 * E <= F
    BY <1>2, <2>2, RowsAre
  <2>6. e = f => g = c /\ F = E
    BY <1>2, <2>2, RowsAre
  <2>7. ASSUME FromOn(mapping_search(size), mapping_insert(x)) PROVE x >= size
    <3>1. CASE e > h
      BY <1>6, <1>7, <1>8, <2>3, <2>4, <3>1
    <3>2. CASE e = h /\ qx >= qu /\ h = f
      <4>1. Divided(up, g, qu, ru) /\ Divided(x, g, qx, rx)
        BY <1>7, <1>8, <2>3, <2>4, <3>2
      <4>2. qu <= qx
        BY <1>7, <2>3, <3>2
      <4>3. up < x + g
        BY <1>3, <1>6, <4>1, <4>2, DividedGrows
      <4> QED
        BY <1>6, <1>8, <4>3
    <3>3. CASE e = h /\ h = f + 1
      BY <1>6, <1>8, <2>3, <2>4, <3>3
    <3> QED
      BY <1>8, <2>4, <2>7, <3>1, <3>2, <3>3
  <2>8. ASSUME ~ FromOn(mapping_search(size), mapping_insert(x)), x >= size
        PROVE  mapping_insert(x) = mapping_insert(size)
    <3>1. e <= h /\ (e = h => qx < qu)
      BY <1>7, <2>3, <2>4, <2>8
    <3>2. e = f
      <4>1. ~ (e < f)
        BY <1>6, <2>3, <2>5, <2>8
      <4>2. CASE h = f
        BY <1>6, <2>3, <3>1, <4>1, <4>2
      <4>3. CASE h = f + 1
        <5>1. SUFFICES ASSUME e # f PROVE FALSE
          OBVIOUS
        <5>2. e = h /\ qx < qu
          BY <1>6, <2>3, <3>1, <4>1, <4>3, <5>1
        <5>3. S < qu
          BY <2>3, <1>7, <5>2
        <5>4. up \in Nat /\ H \in Nat /\ k \in Nat \ {0} /\ Divided(H, k, S, 0) /\ Divided(up, k, qu, ru)
          BY <1>3, <1>7
        <5>5. (H - 0) + k <= up
          BY <5>3, <5>4, DividedGrows, ZenonT(60)
        <5> QED
          BY <1>6, <1>7, <1>8, <4>3, <5>5
      <4> QED
        BY <1>8, <4>2, <4>3
    <3>3. Divided(x, g, qx, rx) /\ Divided(size, g, qs, rs)
      BY <1>6, <2>3, <2>6, <3>2
    <3>4. ~ (qx < qs)
      <4>1. SUFFICES ASSUME qx < qs PROVE FALSE
        OBVIOUS
      <4>2. x < size
        BY <1>6, <3>3, <4>1, DividedGrows
      <4> QED
        BY <2>8, <4>2
    <3>5. ~ (qs < qx)
      <4>1. SUFFICES ASSUME qs < qx PROVE FALSE
        OBVIOUS
      <4>2. CASE h = f
        <5>1. qx < qu /\ Divided(up, g, qu, ru)
          BY <1>7, <1>8, <3>1, <3>2, <4>2
        <5>2. qs + 2 <= qu
          BY <1>6, <1>7, <2>3, <4>1, <5>1
        <5>3. size + g < up
          BY <1>3, <1>6, <5>1, <5>2, DividedGrows
        <5> QED
          BY <1>6, <1>8, <5>3
      <4>3. CASE h = f + 1
        (* size is in the last class but one of its row, and so too small. *)
        <5>1. qs + 2 <= 2 * S
          BY <1>5, <1>6, <2>3, <4>1
        <5>2. PICK D \in Nat, T \in Nat : D = 2 * F /\ T = 2 * S
          BY <1>5, <1>6
        <5>3. Divided(D, g, T, 0)
          <6>1. F = (g * S) + 0 /\ g * S \in Int /\ g * (S + S) = (g * S) + (g * S) /\ 0 \in 0..g - 1
            BY <1>5, <1>6, Products DEF Divided
          <6>2. D = g * (S + S) /\ T = S + S
            BY <1>5, <1>6, <5>2, <6>1
          <6>3. D = g * T /\ D \in Int
            BY <5>2, <6>2
          <6>4. D = (g * T) + 0
            BY <6>3
          <6> QED
            BY <5>2, <6>1, <6>4 DEF Divided
        <5>4. qs + 2 <= T
          BY <5>1, <5>2
        <5>5. D \in Nat /\ g \in Nat \ {0} /\ Divided(size, g, qs, rs)
          BY <1>6, <5>2
        <5>6. size + g < D
          BY <5>3, <5>4, <5>5, DividedGrows, Zenon
        <5> QED
          BY <1>6, <1>7, <1>8, <4>3, <5>2, <5>6
      <4> QED
        BY <1>8, <4>2, <4>3
    <3>6. qx = qs
      BY <1>6, <2>3, <3>4, <3>5
    <3> QED
      BY <1>2, <2>2, <3>2, <3>6 DEF ClassIs
  <2> QED
    BY <2>7, <2>8
<1> QED
  BY <1>9, <1>10, ConstantsAre

LEMMA SearchFits ==
  ASSUME NEW size \in Nat, size < block_size_max, size % ALIGN_SIZE = 0, NEW x \in Nat, x < block_size_max
  PROVE  /\ FromOn(mapping_search(size), mapping_insert(x)) => x >= size
         /\ ~ FromOn(mapping_search(size), mapping_insert(x)) /\ x >= size
              => mapping_insert(x) = mapping_insert(size)
<1>1. x < Bit[SizeBits] /\ SMALL_BLOCK_SIZE \in Nat
  BY ConstantsAre
<1>2. CASE size < SMALL_BLOCK_SIZE
  BY <1>1, <1>2, SmallFit
<1>3. CASE size >= SMALL_BLOCK_SIZE
  BY <1>1, <1>3, LargeFit
<1> QED
  BY <1>1, <1>2, <1>3

(* The class a search begins with has a column.                            *)
LEMMA SearchHasColumn ==
  ASSUME NEW size \in Nat, size < block_size_max
  PROVE  \E i \in Nat, j \in 0..SL_INDEX_COUNT - 1 : mapping_search(size) = <<i, j>>
<1>1. CASE size < SMALL_BLOCK_SIZE
  <2>1. mapping_search(size) = mapping_insert(size)
    BY <1>1, ConstantsAre DEF mapping_search
  <2> QED
    BY <1>1, <2>1, SmallClass
<1>2. CASE size >= SMALL_BLOCK_SIZE
  <2>1. PICK f, g, h, k, up : IsLarge(up, h, k) /\ mapping_search(size) = mapping_insert(up)
    BY <1>2, SearchRounds
  <2>2. h - FL_INDEX_SHIFT + 1 \in Nat
    BY <2>1, ConstantsAre DEF IsLarge
  <2> QED
    BY <2>1, <2>2 DEF IsLarge
<1> QED
  BY <1>1, <1>2, ConstantsAre

-----------------------------------------------------------------------------
(* The tiling of the pools, as a function from header to size.             *)

Aligned(x)   == x % ALIGN_SIZE = 0
TopOf(p)     == p.mem + align_down(p.bytes - PoolOverhead, ALIGN_SIZE)
Fitting(P)   == P \subseteq {p \in Pools : PoolFits(p)}
After(z, x)  == x + ALIGN_SIZE + z[x]

Tiled(z, P) ==
  /\ z \in [DOMAIN z -> Nat] /\ DOMAIN z \subseteq Nat
  /\ \A x \in DOMAIN z : Aligned(x) /\ Aligned(z[x])
  /\ \A p \in P : FirstBlock(p) \in DOMAIN z /\ TopOf(p) \in DOMAIN z
  /\ \A x \in DOMAIN z : \E p \in P :
       /\ FirstBlock(p) <= x
       /\ \/ x = TopOf(p) /\ z[x] = 0
          \/ z[x] >= 3 * ALIGN_SIZE /\ After(z, x) \in DOMAIN z /\ After(z, x) <= TopOf(p)
  /\ \A x, y \in DOMAIN z : z[x] # 0 => y <= x \/ After(z, x) <= y
  /\ \A y \in DOMAIN z : \/ \E p \in P : y = FirstBlock(p)
                         \/ \E x \in DOMAIN z : z[x] # 0 /\ After(z, x) = y

LEMMA AlignedSums ==
  /\ Aligned(ALIGN_SIZE) /\ Aligned(0)
  /\ \A x, y \in Int : Aligned(x) /\ Aligned(y) => Aligned(x + y) /\ Aligned(x - y) /\ (x > y => x >= y + ALIGN_SIZE)
<1>1. PICK W \in Nat \ {0} : W = ALIGN_SIZE
  BY ConstantsAre
<1>2. W % W = 0 /\ 0 % W = 0
  OBVIOUS
<1>3. ASSUME NEW x \in Int, NEW y \in Int, Aligned(x), Aligned(y)
      PROVE  Aligned(x + y) /\ Aligned(x - y) /\ (x > y => x >= y + ALIGN_SIZE)
  BY <1>1, <1>3, Multiples DEF Aligned
<1> QED
  BY <1>1, <1>2, <1>3 DEF Aligned

LEMMA AlignsDown ==
  ASSUME NEW x \in Int, NEW a \in Nat \ {0}
  PROVE  /\ align_down(x, a) \in Int /\ align_down(x, a) <= x /\ x < align_down(x, a) + a
         /\ align_down(x, a) % a = 0
<1>1. PICK q \in Int, r \in 0..a - 1 : q = x \div a /\ x = (a * q) + r
  BY Division
<1>2. x % a = r
  <2>1. x \div a \in Int /\ x = (a * (x \div a)) + (x % a)
    BY Quotient
  <2> QED
    BY <1>1, <2>1
<1>3. align_down(x, a) = a * q
  BY <1>1, <1>2 DEF align_down
<1>4. (a * q) % a = 0 /\ a * q \in Int
  BY Multiple
<1> QED
  BY <1>1, <1>3, <1>4

LEMMA PoolIs ==
  ASSUME NEW P, Fitting(P), NEW p \in P
  PROVE  /\ FirstBlock(p) \in Nat /\ TopOf(p) \in Nat /\ Aligned(FirstBlock(p)) /\ Aligned(TopOf(p))
         /\ TopOf(p) >= FirstBlock(p) + 4 * ALIGN_SIZE
         /\ TopOf(p) < FirstBlock(p) + ALIGN_SIZE + block_size_max
         /\ FirstBlock(p) = p.mem - ALIGN_SIZE /\ p.mem \in Nat /\ p.bytes \in Nat
         /\ TopOf(p) + 2 * ALIGN_SIZE <= p.mem + p.bytes /\ p.mem + p.bytes <= Bit[SizeBits]
         /\ align_down(p.bytes - PoolOverhead, ALIGN_SIZE) = TopOf(p) - p.mem
<1>1. p \in Pools /\ PoolFits(p)
  BY DEF Fitting
<1>2. p.mem \in Nat /\ p.bytes \in Nat /\ p.mem >= Overhead /\ p.mem + p.bytes <= Bit[SizeBits]
      /\ align_down(p.bytes - PoolOverhead, ALIGN_SIZE) # block_size_max
  BY <1>1, TlsfAssumption
<1>3. PICK W \in Nat \ {0} : W = ALIGN_SIZE
  BY ConstantsAre
<1>4. PICK d : d = align_down(p.bytes - PoolOverhead, ALIGN_SIZE)
  OBVIOUS
<1>5. d \in Int /\ d <= p.bytes - 2 * W /\ Aligned(d)
  <2>1. p.bytes - PoolOverhead = p.bytes - 2 * W /\ p.bytes - 2 * W \in Int
    BY <1>2, <1>3, ConstantsAre
  <2> QED
    BY <1>3, <1>4, <2>1, AlignsDown DEF Aligned
<1>6. d >= 3 * W /\ d < block_size_max /\ Aligned(p.mem)
  BY <1>1, <1>2, <1>3, <1>4, <1>5, ConstantsAre DEF PoolFits, Aligned
<1>7. FirstBlock(p) = p.mem - W /\ TopOf(p) = p.mem + d
  BY <1>3, <1>4, ConstantsAre DEF FirstBlock, TopOf
<1>8. p.mem >= W
  BY <1>2, <1>3, ConstantsAre
<1>9. Aligned(p.mem - W) /\ Aligned(p.mem + d)
  <2>1. PICK m \in Int : m = p.mem
    BY <1>2
  <2>2. W \in Int /\ d \in Int /\ Aligned(W) /\ Aligned(d) /\ Aligned(m)
    BY <1>3, <1>5, <1>6, <2>1, AlignedSums
  <2>3. Aligned(m - W) /\ Aligned(m + d)
    BY <2>1, <2>2, AlignedSums, Zenon
  <2> QED
    BY <2>1, <2>3
<1>10. p.mem - W \in Nat /\ p.mem + d \in Nat
  BY <1>2, <1>5, <1>6, <1>8
<1>11. /\ p.mem + d >= (p.mem - W) + 4 * W
       /\ p.mem + d < (p.mem - W) + W + block_size_max
       /\ (p.mem + d) + 2 * W <= p.mem + p.bytes /\ d = (p.mem + d) - p.mem
  BY <1>2, <1>5, <1>6, ConstantsAre
<1> QED
  BY <1>2, <1>3, <1>4, <1>7, <1>9, <1>10, <1>11

LEMMA PoolsApart ==
  ASSUME NEW P, Fitting(P), NEW p \in P, NEW q \in P, p # q
  PROVE  TopOf(p) < FirstBlock(q) \/ TopOf(q) < FirstBlock(p)
<1>1. p.mem + p.bytes <= q.mem \/ q.mem + q.bytes <= p.mem
  BY TlsfAssumption DEF Fitting
<1>2. /\ TopOf(p) \in Nat /\ TopOf(p) + 2 * ALIGN_SIZE <= p.mem + p.bytes /\ FirstBlock(p) = p.mem - ALIGN_SIZE
      /\ p.mem \in Nat /\ p.bytes \in Nat
  BY PoolIs
<1>3. /\ TopOf(q) \in Nat /\ TopOf(q) + 2 * ALIGN_SIZE <= q.mem + q.bytes /\ FirstBlock(q) = q.mem - ALIGN_SIZE
      /\ q.mem \in Nat /\ q.bytes \in Nat
  BY PoolIs
<1> QED
  BY <1>1, <1>2, <1>3, ConstantsAre

(* What the tiling says of a block.                                        *)
LEMMA TileOf ==
  ASSUME NEW P, Fitting(P), NEW z, Tiled(z, P), NEW x \in DOMAIN z, z[x] # 0
  PROVE  /\ x \in Nat /\ z[x] \in Nat /\ Aligned(x) /\ Aligned(z[x])
         /\ z[x] >= 3 * ALIGN_SIZE /\ z[x] < block_size_max
         /\ After(z, x) \in DOMAIN z /\ After(z, x) \in Nat /\ After(z, x) > x
         /\ After(z, x) = x + ALIGN_SIZE + z[x]
         /\ \A p \in P : After(z, x) # FirstBlock(p)
         /\ \A y \in DOMAIN z : z[y] # 0 /\ After(z, y) = After(z, x) => y = x
         /\ After(z, x) + 2 * ALIGN_SIZE <= Bit[SizeBits]
         /\ \E p \in P : FirstBlock(p) <= x /\ After(z, x) <= TopOf(p)
<1>1. PICK W \in Nat \ {0} : W = ALIGN_SIZE
  BY ConstantsAre
<1>2. x \in Nat /\ z[x] \in Nat /\ Aligned(x) /\ Aligned(z[x])
  BY DEF Tiled
<1>3. PICK p \in P : /\ FirstBlock(p) <= x /\ z[x] >= 3 * ALIGN_SIZE
                     /\ After(z, x) \in DOMAIN z /\ After(z, x) <= TopOf(p)
  BY DEF Tiled
<1>4. After(z, x) = x + W + z[x] /\ After(z, x) \in Nat
  BY <1>1, <1>2 DEF After
<1>5. /\ FirstBlock(p) \in Nat /\ TopOf(p) \in Nat /\ TopOf(p) < FirstBlock(p) + W + block_size_max
      /\ TopOf(p) + 2 * W <= Bit[SizeBits] /\ Bit[SizeBits] \in Nat
  <2>1. /\ FirstBlock(p) \in Nat /\ TopOf(p) \in Nat /\ TopOf(p) < FirstBlock(p) + W + block_size_max
        /\ TopOf(p) + 2 * W <= p.mem + p.bytes /\ p.mem + p.bytes <= Bit[SizeBits]
        /\ p.mem \in Nat /\ p.bytes \in Nat
    BY <1>1, PoolIs
  <2> QED
    BY <1>1, <2>1, ConstantsAre
<1>6. z[x] < block_size_max
  BY <1>2, <1>3, <1>4, <1>5, ConstantsAre
<1>7. ASSUME NEW q \in P PROVE After(z, x) # FirstBlock(q)
  <2>1. CASE q = p
    BY <1>1, <1>2, <1>3, <1>4, <1>5, <2>1
  <2>2. CASE q # p
    <3>1. /\ FirstBlock(q) \in Nat /\ TopOf(q) \in Nat /\ TopOf(q) >= FirstBlock(q) + 4 * W
      BY <1>1, PoolIs
    <3>2. TopOf(p) < FirstBlock(q) \/ TopOf(q) < FirstBlock(p)
      BY <2>2, PoolsApart
    <3> QED
      BY <1>1, <1>2, <1>3, <1>4, <1>5, <3>1, <3>2
  <2> QED
    BY <2>1, <2>2
<1>8. ASSUME NEW y \in DOMAIN z, z[y] # 0, After(z, y) = After(z, x) PROVE y = x
  <2>1. y \in Nat /\ z[y] \in Nat /\ After(z, y) = y + W + z[y]
    BY <1>1 DEF Tiled, After
  <2>2. (y <= x \/ After(z, x) <= y) /\ (x <= y \/ After(z, y) <= x)
    BY <1>8 DEF Tiled
  <2> QED
    BY <1>1, <1>2, <1>4, <1>8, <2>1, <2>2
<1>9. After(z, x) > x /\ After(z, x) + 2 * W <= Bit[SizeBits]
  BY <1>1, <1>2, <1>3, <1>4, <1>5
<1> QED
  BY <1>1, <1>2, <1>3, <1>4, <1>5, <1>6, <1>7, <1>8, <1>9

(* A block's size is cut in two, the second part with a header of its own. *)
Cut(z, b, s) ==
  [x \in DOMAIN z \cup {Rest(b, s)} |->
     IF x = Rest(b, s) THEN z[b] - (s + ALIGN_SIZE) ELSE IF x = b THEN s ELSE z[x]]

LEMMA CutTiles ==
  ASSUME NEW P, Fitting(P), NEW z, Tiled(z, P), NEW b \in DOMAIN z, z[b] # 0,
         NEW s \in Nat, Aligned(s), s >= 3 * ALIGN_SIZE, z[b] >= 4 * ALIGN_SIZE + s
  PROVE  /\ Tiled(Cut(z, b, s), P) /\ Rest(b, s) \notin DOMAIN z /\ Rest(b, s) \in Nat
         /\ Rest(b, s) = b + ALIGN_SIZE + s
         /\ After(Cut(z, b, s), b) = Rest(b, s) /\ After(Cut(z, b, s), Rest(b, s)) = After(z, b)
<1>1. PICK W \in Nat \ {0} : W = ALIGN_SIZE /\ Overhead = W
  BY ConstantsAre
<1>2. PICK r, n, y : r = Rest(b, s) /\ n = After(z, b) /\ y = Cut(z, b, s)
  OBVIOUS
<1>3. /\ b \in Nat /\ z[b] \in Nat /\ Aligned(b) /\ Aligned(z[b]) /\ n \in DOMAIN z /\ n \in Nat
      /\ n = b + W + z[b]
  BY <1>1, <1>2, TileOf
<1>4. r = b + W + s /\ r \in Nat /\ r > b /\ n = r + W + (z[b] - (s + W))
  BY <1>1, <1>2, <1>3 DEF Rest
<1>5. \A x \in DOMAIN z : z[x] # 0 => x \in Nat /\ z[x] \in Nat /\ After(z, x) \in Nat /\ After(z, x) = x + W + z[x]
  BY <1>1 DEF Tiled, After
<1>6. \A x, w \in DOMAIN z : z[x] # 0 => w <= x \/ After(z, x) <= w
  BY DEF Tiled
<1>7. r \notin DOMAIN z
  <2>1. SUFFICES ASSUME r \in DOMAIN z PROVE FALSE
    OBVIOUS
  <2>2. r <= b \/ n <= r
    BY <1>2, <1>6, <2>1
  <2> QED
    BY <1>1, <1>3, <1>4, <2>2
<1>8. /\ DOMAIN y = DOMAIN z \cup {r} /\ y[r] = z[b] - (s + W) /\ y[b] = s
      /\ \A x \in DOMAIN z : x # b => y[x] = z[x]
  BY <1>1, <1>2, <1>4, <1>7 DEF Cut
<1>9. y[r] \in Nat /\ y[r] >= 3 * W /\ After(y, r) = n /\ After(y, b) = r
  BY <1>1, <1>3, <1>4, <1>8 DEF After
<1>10. \A x \in DOMAIN z : x # b => After(y, x) = After(z, x)
  BY <1>8 DEF After
<1>11. y \in [DOMAIN y -> Nat] /\ DOMAIN y \subseteq Nat
  <2>1. \A x \in DOMAIN y : y[x] \in Nat /\ x \in Nat
    BY <1>4, <1>8, <1>9 DEF Tiled
  <2>2. y = [x \in DOMAIN y |-> y[x]]
    BY <1>2 DEF Cut
  <2> QED
    BY <2>1, <2>2
<1>12. ASSUME NEW x \in DOMAIN y PROVE Aligned(x) /\ Aligned(y[x])
  <2>1. CASE x = r
    <3>1. Aligned(W)
      BY <1>1, AlignedSums
    <3>2. b + W \in Int /\ s + W \in Int /\ z[b] \in Int /\ b \in Int /\ W \in Int /\ s \in Int
      BY <1>3
    <3>3. Aligned(b + W) /\ Aligned(s + W)
      BY <1>3, <3>1, <3>2, AlignedSums, Zenon
    <3>4. Aligned((b + W) + s) /\ Aligned(z[b] - (s + W))
      BY <1>3, <3>2, <3>3, AlignedSums, Zenon
    <3>5. (b + W) + s = r
      BY <1>4
    <3> QED
      BY <1>8, <2>1, <3>4, <3>5
  <2>2. CASE x # r
    BY <1>8, <2>2 DEF Tiled
  <2> QED
    BY <2>1, <2>2
<1>13. \A p \in P : FirstBlock(p) \in DOMAIN y /\ TopOf(p) \in DOMAIN y
  BY <1>8 DEF Tiled
<1>14. ASSUME NEW x \in DOMAIN y
       PROVE  \E p \in P : /\ FirstBlock(p) <= x
                           /\ \/ x = TopOf(p) /\ y[x] = 0
                              \/ y[x] >= 3 * ALIGN_SIZE /\ After(y, x) \in DOMAIN y /\ After(y, x) <= TopOf(p)
  <2>1. CASE x # r /\ x # b
    <3>1. x \in DOMAIN z /\ y[x] = z[x] /\ After(y, x) = After(z, x)
      BY <1>8, <1>10, <2>1
    <3>2. PICK p \in P : /\ FirstBlock(p) <= x
                         /\ \/ x = TopOf(p) /\ z[x] = 0
                            \/ z[x] >= 3 * ALIGN_SIZE /\ After(z, x) \in DOMAIN z /\ After(z, x) <= TopOf(p)
      BY <3>1 DEF Tiled
    <3> QED
      BY <1>8, <3>1, <3>2
  <2>2. CASE x = r \/ x = b
    <3>1. PICK p \in P : FirstBlock(p) <= b /\ n <= TopOf(p)
      BY <1>2, TileOf
    <3>2. FirstBlock(p) \in Nat /\ TopOf(p) \in Nat
      BY PoolIs
    <3>3. r <= n
      BY <1>1, <1>3, <1>4
    <3>4. FirstBlock(p) <= r /\ r <= TopOf(p)
      BY <1>3, <1>4, <3>1, <3>2, <3>3
    <3> QED
      BY <1>1, <1>3, <1>8, <1>9, <2>2, <3>1, <3>4
  <2> QED
    BY <2>1, <2>2
<1>15. ASSUME NEW x \in DOMAIN y, NEW w \in DOMAIN y, y[x] # 0 PROVE w <= x \/ After(y, x) <= w
  <2>1. CASE x = b
    <3>1. w = r \/ w <= b \/ n <= w
      BY <1>2, <1>6, <1>8
    <3>2. w \in Nat
      BY <1>11
    <3> QED
      BY <1>1, <1>3, <1>4, <1>9, <2>1, <3>1, <3>2
  <2>2. CASE x = r
    <3>1. w = r \/ w <= b \/ n <= w
      BY <1>2, <1>6, <1>8
    <3>2. w \in Nat
      BY <1>11
    <3> QED
      BY <1>3, <1>4, <1>9, <2>2, <3>1, <3>2
  <2>3. CASE x # b /\ x # r
    <3>1. x \in DOMAIN z /\ y[x] = z[x] /\ After(y, x) = After(z, x) /\ z[x] # 0 /\ x \in Nat /\ After(z, x) \in Nat
      BY <1>5, <1>8, <1>10, <1>15, <2>3
    <3>2. CASE w = r
      <4>1. b <= x \/ After(z, x) <= b
        BY <1>6, <3>1
      <4>2. x <= b \/ n <= x
        BY <1>2, <1>6, <3>1
      <4> QED
        BY <1>1, <1>3, <1>4, <2>3, <3>1, <3>2, <4>1, <4>2
    <3>3. CASE w # r
      BY <1>6, <1>8, <3>1, <3>3
    <3> QED
      BY <3>2, <3>3
  <2> QED
    BY <2>1, <2>2, <2>3
<1>16. ASSUME NEW w \in DOMAIN y
       PROVE  \/ \E p \in P : w = FirstBlock(p)
              \/ \E x \in DOMAIN y : y[x] # 0 /\ After(y, x) = w
  <2>1. CASE w = r
    BY <1>1, <1>8, <1>9, <2>1
  <2>2. CASE w # r /\ w # n
    <3>1. w \in DOMAIN z
      BY <1>8, <2>2
    <3>2. CASE \E p \in P : w = FirstBlock(p)
      BY <3>2
    <3>3. CASE \E x \in DOMAIN z : z[x] # 0 /\ After(z, x) = w
      BY <1>2, <1>8, <1>10, <2>2, <3>3
    <3> QED
      BY <3>1, <3>2, <3>3 DEF Tiled
  <2>3. CASE w = n
    BY <1>1, <1>8, <1>9, <2>3
  <2> QED
    BY <2>1, <2>2, <2>3
<1>17. Tiled(y, P)
  BY <1>11, <1>12, <1>13, <1>14, <1>15, <1>16 DEF Tiled
<1> QED
  BY <1>1, <1>2, <1>4, <1>7, <1>9, <1>17

(* A block and the one after it become one.                                *)
Joined(z, a, b) ==
  [x \in DOMAIN z \ {b} |-> IF x = a THEN z[a] + z[b] + ALIGN_SIZE ELSE z[x]]

LEMMA JoinTiles ==
  ASSUME NEW P, Fitting(P), NEW z, Tiled(z, P), NEW a \in DOMAIN z, z[a] # 0,
         NEW b \in DOMAIN z, z[b] # 0, After(z, a) = b
  PROVE  /\ Tiled(Joined(z, a, b), P) /\ a # b
         /\ After(Joined(z, a, b), a) = After(z, b) /\ After(z, b) \in DOMAIN z \ {a, b}
<1>1. PICK W \in Nat \ {0} : W = ALIGN_SIZE
  BY ConstantsAre
<1>2. PICK n, y, t : n = After(z, b) /\ y = Joined(z, a, b) /\ t = z[a] + z[b] + W
  OBVIOUS
<1>3. /\ a \in Nat /\ z[a] \in Nat /\ Aligned(a) /\ Aligned(z[a]) /\ b = a + W + z[a] /\ z[a] >= 3 * W
      /\ \A p \in P : b # FirstBlock(p)
      /\ \A x \in DOMAIN z : z[x] # 0 /\ After(z, x) = b => x = a
  BY <1>1, TileOf
<1>4. /\ b \in Nat /\ z[b] \in Nat /\ Aligned(b) /\ Aligned(z[b]) /\ n \in DOMAIN z /\ n \in Nat
      /\ n = b + W + z[b] /\ z[b] >= 3 * W
      /\ \A x \in DOMAIN z : z[x] # 0 /\ After(z, x) = n => x = b
  BY <1>1, <1>2, TileOf
<1>5. \A x \in DOMAIN z : z[x] # 0 => x \in Nat /\ z[x] \in Nat /\ After(z, x) \in Nat /\ After(z, x) = x + W + z[x]
  BY <1>1 DEF Tiled, After
<1>6. \A x, w \in DOMAIN z : z[x] # 0 => w <= x \/ After(z, x) <= w
  BY DEF Tiled
<1>7. a < b /\ b < n /\ t \in Nat /\ t >= 3 * W /\ n = a + W + t
  BY <1>1, <1>2, <1>3, <1>4
<1>8. /\ DOMAIN y = DOMAIN z \ {b} /\ y[a] = t
      /\ \A x \in DOMAIN z \ {b} : x # a => y[x] = z[x] /\ After(y, x) = After(z, x)
  BY <1>1, <1>2, <1>3, <1>7 DEF Joined, After
<1>9. After(y, a) = n /\ n \in DOMAIN y
  BY <1>1, <1>4, <1>7, <1>8 DEF After
<1>10. y \in [DOMAIN y -> Nat] /\ DOMAIN y \subseteq Nat
  <2>1. \A x \in DOMAIN y : y[x] \in Nat /\ x \in Nat
    BY <1>7, <1>8 DEF Tiled
  <2>2. y = [x \in DOMAIN y |-> y[x]]
    BY <1>2 DEF Joined
  <2> QED
    BY <2>1, <2>2
<1>11. ASSUME NEW x \in DOMAIN y PROVE Aligned(x) /\ Aligned(y[x])
  <2>1. CASE x = a
    <3>1. Aligned(W) /\ z[a] \in Int /\ z[b] \in Int /\ W \in Int /\ z[a] + z[b] \in Int
      BY <1>1, <1>3, <1>4, AlignedSums
    <3>2. Aligned(z[a] + z[b])
      BY <1>3, <1>4, <3>1, AlignedSums, Zenon
    <3>3. Aligned((z[a] + z[b]) + W)
      BY <3>1, <3>2, AlignedSums, Zenon
    <3> QED
      BY <1>2, <1>3, <1>8, <2>1, <3>3
  <2>2. CASE x # a
    BY <1>8, <2>2 DEF Tiled
  <2> QED
    BY <2>1, <2>2
<1>12. ASSUME NEW p \in P PROVE FirstBlock(p) \in DOMAIN y /\ TopOf(p) \in DOMAIN y
  <2>1. FirstBlock(p) \in DOMAIN z /\ TopOf(p) \in DOMAIN z /\ FirstBlock(p) # b
    BY <1>3 DEF Tiled
  <2>2. TopOf(p) # b
    <3>1. SUFFICES ASSUME TopOf(p) = b PROVE FALSE
      OBVIOUS
    <3>2. PICK q \in P : FirstBlock(q) <= b /\ n <= TopOf(q)
      BY <1>2, TileOf
    <3>3. FirstBlock(q) \in Nat /\ TopOf(q) \in Nat /\ FirstBlock(p) \in Nat /\ FirstBlock(p) <= TopOf(p)
      BY <1>1, PoolIs
    <3>4. CASE p = q
      BY <1>4, <1>7, <3>1, <3>2, <3>3, <3>4
    <3>5. CASE p # q
      <4>1. TopOf(p) < FirstBlock(q) \/ TopOf(q) < FirstBlock(p)
        BY <3>5, PoolsApart
      <4> QED
        BY <1>4, <1>7, <3>1, <3>2, <3>3, <4>1
    <3> QED
      BY <3>4, <3>5
  <2> QED
    BY <1>8, <2>1, <2>2
<1>13. ASSUME NEW x \in DOMAIN y
       PROVE  \E p \in P : /\ FirstBlock(p) <= x
                           /\ \/ x = TopOf(p) /\ y[x] = 0
                              \/ y[x] >= 3 * ALIGN_SIZE /\ After(y, x) \in DOMAIN y /\ After(y, x) <= TopOf(p)
  <2>1. CASE x # a
    <3>1. x \in DOMAIN z /\ y[x] = z[x] /\ After(y, x) = After(z, x) /\ x # b
      BY <1>8, <2>1
    <3>2. PICK p \in P : /\ FirstBlock(p) <= x
                         /\ \/ x = TopOf(p) /\ z[x] = 0
                            \/ z[x] >= 3 * ALIGN_SIZE /\ After(z, x) \in DOMAIN z /\ After(z, x) <= TopOf(p)
      BY <3>1 DEF Tiled
    <3>3. z[x] # 0 => After(z, x) # b
      BY <1>3, <2>1, <3>1
    <3>4. z[x] >= 3 * ALIGN_SIZE => z[x] # 0
      BY <1>1
    <3> QED
      BY <1>8, <3>1, <3>2, <3>3, <3>4
  <2>2. CASE x = a
    <3>1. PICK p \in P : FirstBlock(p) <= b /\ n <= TopOf(p)
      BY <1>2, TileOf
    <3>2. PICK q \in P : FirstBlock(q) <= a /\ b <= TopOf(q)
      BY TileOf
    <3>3. FirstBlock(q) \in Nat /\ TopOf(q) \in Nat /\ FirstBlock(p) \in Nat /\ TopOf(p) \in Nat
      BY PoolIs
    <3>4. p = q
      <4>1. SUFFICES ASSUME p # q PROVE FALSE
        OBVIOUS
      <4>2. TopOf(p) < FirstBlock(q) \/ TopOf(q) < FirstBlock(p)
        BY <4>1, PoolsApart
      <4> QED
        BY <1>3, <1>4, <1>7, <3>1, <3>2, <3>3, <4>2
    <3> QED
      BY <1>1, <1>7, <1>8, <1>9, <2>2, <3>1, <3>2, <3>4
  <2> QED
    BY <2>1, <2>2
<1>14. ASSUME NEW x \in DOMAIN y, NEW w \in DOMAIN y, y[x] # 0 PROVE w <= x \/ After(y, x) <= w
  <2>1. w \in DOMAIN z /\ x \in DOMAIN z /\ w # b /\ x # b /\ w \in Nat /\ x \in Nat
    BY <1>8, <1>10
  <2>2. CASE x = a
    <3>1. w <= a \/ b <= w
      BY <1>6, <2>1
    <3>2. w <= b \/ n <= w
      BY <1>2, <1>4, <1>6, <2>1
    <3> QED
      BY <1>3, <1>4, <1>9, <2>1, <2>2, <3>1, <3>2
  <2>3. CASE x # a
    BY <1>6, <1>8, <1>14, <2>1, <2>3
  <2> QED
    BY <2>2, <2>3
<1>15. ASSUME NEW w \in DOMAIN y
       PROVE  \/ \E p \in P : w = FirstBlock(p)
              \/ \E x \in DOMAIN y : y[x] # 0 /\ After(y, x) = w
  <2>1. w \in DOMAIN z /\ w # b /\ a \in DOMAIN y /\ t # 0
    BY <1>1, <1>3, <1>7, <1>8
  <2>2. CASE \E p \in P : w = FirstBlock(p)
    BY <2>2
  <2>3. CASE \E x \in DOMAIN z : z[x] # 0 /\ After(z, x) = w
    <3>1. PICK x \in DOMAIN z : z[x] # 0 /\ After(z, x) = w
      BY <2>3
    <3>2. CASE x = b
      BY <1>2, <1>8, <1>9, <2>1, <3>1, <3>2
    <3>3. CASE x # b
      BY <1>8, <2>1, <3>1, <3>3
    <3> QED
      BY <3>2, <3>3
  <2> QED
    BY <2>1, <2>2, <2>3 DEF Tiled
<1>16. Tiled(y, P)
  BY <1>10, <1>11, <1>12, <1>13, <1>14, <1>15 DEF Tiled
<1>17. n \in DOMAIN z \ {a, b}
  BY <1>3, <1>4, <1>7
<1> QED
  BY <1>2, <1>7, <1>9, <1>16, <1>17

(* A header lies in one pool only, and ends in the pool it begins in.      *)
LEMMA OwnPool ==
  ASSUME NEW P, Fitting(P), NEW z, Tiled(z, P), NEW x \in DOMAIN z
  PROVE  /\ x \in Nat
         /\ \E p \in P : /\ FirstBlock(p) <= x /\ x <= TopOf(p) /\ (z[x] = 0 <=> x = TopOf(p))
                         /\ z[x] # 0 => After(z, x) <= TopOf(p)
                         /\ \A q \in P : FirstBlock(q) <= x /\ x <= TopOf(q) => q = p
<1>1. PICK W \in Nat \ {0} : W = ALIGN_SIZE
  BY ConstantsAre
<1>2. PICK p \in P : /\ FirstBlock(p) <= x
                     /\ \/ x = TopOf(p) /\ z[x] = 0
                        \/ z[x] >= 3 * ALIGN_SIZE /\ After(z, x) \in DOMAIN z /\ After(z, x) <= TopOf(p)
  BY DEF Tiled
<1>3. x \in Nat /\ z[x] \in Nat /\ FirstBlock(p) \in Nat /\ TopOf(p) \in Nat
  BY PoolIs DEF Tiled
<1>4. After(z, x) = x + W + z[x] /\ After(z, x) \in Nat
  BY <1>1, <1>3 DEF After
<1>5. x <= TopOf(p) /\ (z[x] = 0 <=> x = TopOf(p)) /\ (z[x] # 0 => After(z, x) <= TopOf(p))
  BY <1>1, <1>2, <1>3, <1>4
<1>6. ASSUME NEW q \in P, FirstBlock(q) <= x, x <= TopOf(q) PROVE q = p
  <2>1. SUFFICES ASSUME q # p PROVE FALSE
    OBVIOUS
  <2>2. TopOf(p) < FirstBlock(q) \/ TopOf(q) < FirstBlock(p)
    BY <2>1, PoolsApart
  <2>3. FirstBlock(q) \in Nat /\ TopOf(q) \in Nat
    BY PoolIs
  <2> QED
    BY <1>2, <1>3, <1>5, <1>6, <2>2, <2>3
<1> QED
  BY <1>2, <1>3, <1>5, <1>6

LEMMA NothingTiled == ASSUME NEW z, DOMAIN z = {}, z = [x \in DOMAIN z |-> z[x]] PROVE Tiled(z, {})
BY DEF Tiled

Added(z, p) ==
  [x \in DOMAIN z \cup {FirstBlock(p), TopOf(p)} |->
     IF x = FirstBlock(p) THEN (TopOf(p) - FirstBlock(p)) - ALIGN_SIZE
     ELSE IF x = TopOf(p) THEN 0 ELSE z[x]]

LEMMA AddTiles ==
  ASSUME NEW P, NEW pool, Fitting(P \cup {pool}), pool \notin P, NEW z, Tiled(z, P)
  PROVE  /\ Tiled(Added(z, pool), P \cup {pool})
         /\ FirstBlock(pool) \notin DOMAIN z /\ TopOf(pool) \notin DOMAIN z /\ FirstBlock(pool) # TopOf(pool)
         /\ After(Added(z, pool), FirstBlock(pool)) = TopOf(pool)
<1>1. PICK W \in Nat \ {0} : W = ALIGN_SIZE
  BY ConstantsAre
<1>2. PICK Q, b, s, y : Q = P \cup {pool} /\ b = FirstBlock(pool) /\ s = TopOf(pool) /\ y = Added(z, pool)
  OBVIOUS
<1>3. Fitting(Q) /\ Fitting(P) /\ pool \in Q
  BY <1>2 DEF Fitting
<1>4. b \in Nat /\ s \in Nat /\ Aligned(b) /\ Aligned(s) /\ s >= b + 4 * W
  BY <1>1, <1>2, <1>3, PoolIs
<1>5. ASSUME NEW x \in DOMAIN z PROVE x < b \/ s < x
  <2>1. PICK p \in P : FirstBlock(p) <= x /\ x <= TopOf(p) /\ x \in Nat
    BY <1>3, OwnPool
  <2>2. FirstBlock(p) \in Nat /\ TopOf(p) \in Nat
    BY <1>3, PoolIs
  <2>3. TopOf(p) < b \/ s < FirstBlock(p)
    <3>1. p \in Q /\ p # pool
      BY <1>2
    <3> QED
      BY <1>2, <1>3, <3>1, PoolsApart
  <2> QED
    BY <1>4, <2>1, <2>2, <2>3
<1>6. DOMAIN z \subseteq Nat
  BY DEF Tiled
<1>7. b \notin DOMAIN z /\ s \notin DOMAIN z /\ b # s
  BY <1>1, <1>4, <1>5, <1>6
<1>8. /\ DOMAIN y = DOMAIN z \cup {b, s} /\ y[b] = (s - b) - W /\ y[s] = 0
      /\ \A x \in DOMAIN z : y[x] = z[x] /\ After(y, x) = After(z, x)
  BY <1>1, <1>2, <1>7 DEF Added, After
<1>9. y[b] \in Nat /\ y[b] >= 3 * W /\ After(y, b) = s
  BY <1>1, <1>4, <1>8 DEF After
<1>10. y \in [DOMAIN y -> Nat] /\ DOMAIN y \subseteq Nat
  <2>1. \A x \in DOMAIN y : y[x] \in Nat /\ x \in Nat
    BY <1>4, <1>8, <1>9 DEF Tiled
  <2>2. y = [x \in DOMAIN y |-> y[x]]
    BY <1>2 DEF Added
  <2> QED
    BY <2>1, <2>2
<1>11. ASSUME NEW x \in DOMAIN y PROVE Aligned(x) /\ Aligned(y[x])
  <2>1. CASE x = b
    <3>1. Aligned(W) /\ W \in Int /\ s \in Int /\ b \in Int /\ s - b \in Int
      BY <1>1, <1>4, AlignedSums
    <3>2. Aligned(s - b)
      BY <1>4, <3>1, AlignedSums, Zenon
    <3>3. Aligned((s - b) - W)
      BY <3>1, <3>2, AlignedSums, Zenon
    <3> QED
      BY <1>4, <1>8, <2>1, <3>3
  <2>2. CASE x = s
    BY <1>4, <1>8, <2>2, AlignedSums
  <2>3. CASE x \in DOMAIN z
    BY <1>8, <2>3 DEF Tiled
  <2> QED
    BY <1>8, <2>1, <2>2, <2>3
<1>12. ASSUME NEW p \in Q PROVE FirstBlock(p) \in DOMAIN y /\ TopOf(p) \in DOMAIN y
  BY <1>2, <1>8 DEF Tiled
<1>13. ASSUME NEW x \in DOMAIN y
       PROVE  \E p \in Q : /\ FirstBlock(p) <= x
                           /\ \/ x = TopOf(p) /\ y[x] = 0
                              \/ y[x] >= 3 * ALIGN_SIZE /\ After(y, x) \in DOMAIN y /\ After(y, x) <= TopOf(p)
  <2>1. CASE x = b
    BY <1>1, <1>2, <1>3, <1>4, <1>8, <1>9, <2>1
  <2>2. CASE x = s
    <3>1. b <= s
      BY <1>4
    <3> QED
      BY <1>2, <1>3, <1>8, <2>2, <3>1
  <2>3. CASE x \in DOMAIN z
    <3>1. PICK p \in P : /\ FirstBlock(p) <= x
                         /\ \/ x = TopOf(p) /\ z[x] = 0
                            \/ z[x] >= 3 * ALIGN_SIZE /\ After(z, x) \in DOMAIN z /\ After(z, x) <= TopOf(p)
      BY <2>3 DEF Tiled
    <3> QED
      BY <1>2, <1>8, <2>3, <3>1
  <2> QED
    BY <1>8, <2>1, <2>2, <2>3
<1>14. ASSUME NEW x \in DOMAIN y, NEW w \in DOMAIN y, y[x] # 0 PROVE w <= x \/ After(y, x) <= w
  <2>1. x \in Nat /\ w \in Nat
    BY <1>10
  <2>2. CASE x \in DOMAIN z /\ w \in DOMAIN z
    BY <1>8, <1>14, <2>2 DEF Tiled
  <2>3. CASE x \in DOMAIN z /\ w \in {b, s}
    <3>1. CASE s < x
      BY <1>4, <2>1, <2>3, <3>1
    <3>2. CASE x < b
      <4>1. After(z, x) \in DOMAIN z /\ After(z, x) \in Nat
        BY <1>3, <1>8, <1>14, <2>3, TileOf
      <4>2. After(z, x) < b \/ s < After(z, x)
        BY <1>5, <4>1
      <4>3. PICK p \in P : FirstBlock(p) <= x /\ After(z, x) <= TopOf(p)
        BY <1>3, <1>8, <1>14, <2>3, TileOf
      <4>4. FirstBlock(p) \in Nat /\ TopOf(p) \in Nat /\ p \in Q /\ p # pool
        BY <1>2, <1>3, PoolIs
      <4>5. TopOf(p) < b \/ s < FirstBlock(p)
        BY <1>2, <1>3, <4>4, PoolsApart
      <4>6. After(z, x) <= b
        BY <1>4, <2>1, <3>2, <4>1, <4>2, <4>3, <4>4, <4>5
      <4> QED
        BY <1>4, <1>8, <2>3, <4>1, <4>6
    <3> QED
      BY <1>5, <2>3, <3>1, <3>2
  <2>4. CASE x = b /\ w \in DOMAIN z
    <3>1. w < b \/ s < w
      BY <1>5, <2>4
    <3> QED
      BY <1>4, <1>9, <2>1, <2>4, <3>1
  <2>5. CASE x = b /\ w \in {b, s}
    BY <1>4, <1>9, <2>5
  <2> QED
    BY <1>8, <1>14, <2>2, <2>3, <2>4, <2>5
<1>15. ASSUME NEW w \in DOMAIN y
       PROVE  \/ \E p \in Q : w = FirstBlock(p)
              \/ \E x \in DOMAIN y : y[x] # 0 /\ After(y, x) = w
  <2>1. CASE w = b
    BY <1>2, <2>1
  <2>2. CASE w = s
    <3>1. b \in DOMAIN y /\ y[b] # 0
      BY <1>1, <1>8, <1>9
    <3> QED
      BY <1>9, <2>2, <3>1
  <2>3. CASE w \in DOMAIN z
    <3>1. CASE \E p \in P : w = FirstBlock(p)
      BY <1>2, <3>1
    <3>2. CASE \E x \in DOMAIN z : z[x] # 0 /\ After(z, x) = w
      BY <1>8, <3>2
    <3> QED
      BY <2>3, <3>1, <3>2 DEF Tiled
  <2> QED
    BY <1>8, <2>1, <2>2, <2>3
<1>16. Tiled(y, Q)
  BY <1>10, <1>11, <1>12, <1>13, <1>14, <1>15 DEF Tiled
<1> QED
  BY <1>2, <1>7, <1>9, <1>16

LEMMA RemoveTiles ==
  ASSUME NEW P, Fitting(P), NEW pool \in P, NEW z, Tiled(z, P), NEW y, NEW n,
         z[FirstBlock(pool)] # 0, n = After(z, FirstBlock(pool)), z[n] = 0,
         y = [x \in DOMAIN z \ {FirstBlock(pool), n} |-> z[x]]
  PROVE  Tiled(y, P \ {pool}) /\ \A x \in DOMAIN y : z[x] # 0 => After(z, x) \notin {FirstBlock(pool), n}
<1>1. PICK W \in Nat \ {0} : W = ALIGN_SIZE
  BY ConstantsAre
<1>2. PICK Q, b : Q = P \ {pool} /\ b = FirstBlock(pool)
  OBVIOUS
<1>3. Fitting(Q) /\ Q \subseteq P
  BY <1>2 DEF Fitting
<1>4. b \in DOMAIN z /\ b \in Nat /\ n \in DOMAIN z /\ n \in Nat /\ TopOf(pool) \in Nat /\ b < n
      /\ \A x \in DOMAIN z : z[x] # 0 /\ After(z, x) = n => x = b
  <2>1. b \in DOMAIN z
    BY <1>2 DEF Tiled
  <2> QED
    BY <1>2, <2>1, TileOf, PoolIs
<1>5. n = TopOf(pool)
  <2>1. PICK p \in P : FirstBlock(p) <= b /\ n <= TopOf(p)
    BY <1>2, <1>4, TileOf
  <2>2. /\ FirstBlock(p) \in Nat /\ TopOf(p) \in Nat /\ b <= TopOf(pool)
    BY <1>1, <1>2, <1>4, PoolIs
  <2>3. p = pool
    <3>1. SUFFICES ASSUME p # pool PROVE FALSE
      OBVIOUS
    <3>2. TopOf(p) < b \/ TopOf(pool) < FirstBlock(p)
      BY <1>2, <3>1, PoolsApart
    <3> QED
      BY <1>4, <2>1, <2>2, <3>2
  <2>4. PICK q \in P : FirstBlock(q) <= n /\ n <= TopOf(q) /\ n = TopOf(q)
                       /\ \A r \in P : FirstBlock(r) <= n /\ n <= TopOf(r) => r = q
    BY <1>4, OwnPool
  <2>5. b <= n
    BY <1>4
  <2> QED
    BY <1>2, <2>1, <2>3, <2>4, <2>5
<1>6. ASSUME NEW x \in DOMAIN z PROVE x <= b \/ n <= x
  BY <1>2, <1>4 DEF Tiled
<1>7. DOMAIN y = DOMAIN z \ {b, n} /\ \A x \in DOMAIN y : y[x] = z[x] /\ After(y, x) = After(z, x)
  BY <1>2 DEF After
<1>8. ASSUME NEW x \in DOMAIN y
      PROVE  \E p \in Q : /\ FirstBlock(p) <= x
                          /\ \/ x = TopOf(p) /\ z[x] = 0
                             \/ z[x] >= 3 * ALIGN_SIZE /\ After(z, x) \in DOMAIN z /\ After(z, x) <= TopOf(p)
  <2>1. PICK p \in P : /\ FirstBlock(p) <= x
                       /\ \/ x = TopOf(p) /\ z[x] = 0
                          \/ z[x] >= 3 * ALIGN_SIZE /\ After(z, x) \in DOMAIN z /\ After(z, x) <= TopOf(p)
    BY <1>7 DEF Tiled
  <2>2. x \in Nat /\ z[x] \in Nat /\ x <= TopOf(p)
    <3>1. x \in Nat /\ z[x] \in Nat /\ After(z, x) = x + W + z[x]
      BY <1>1, <1>7 DEF Tiled, After
    <3>2. TopOf(p) \in Nat
      BY PoolIs
    <3> QED
      BY <1>1, <2>1, <3>1, <3>2
  <2>3. p # pool
    <3>1. SUFFICES ASSUME p = pool PROVE FALSE
      OBVIOUS
    <3>2. x \in DOMAIN z /\ x # b /\ x # n /\ b <= x /\ x <= n
      BY <1>2, <1>5, <1>7, <2>1, <2>2, <3>1
    <3>3. x <= b \/ n <= x
      BY <1>6, <3>2
    <3> QED
      BY <1>4, <2>2, <3>2, <3>3
  <2> QED
    BY <1>2, <2>1, <2>3
<1>9. ASSUME NEW x \in DOMAIN y, z[x] # 0 PROVE After(z, x) \in DOMAIN z /\ After(z, x) # b /\ After(z, x) # n
  BY <1>2, <1>4, <1>7, <1>9, TileOf
<1>10. y \in [DOMAIN y -> Nat] /\ DOMAIN y \subseteq Nat
  BY <1>7 DEF Tiled
<1>11. \A x \in DOMAIN y : Aligned(x) /\ Aligned(y[x])
  BY <1>7 DEF Tiled
<1>12. ASSUME NEW p \in Q PROVE FirstBlock(p) \in DOMAIN y /\ TopOf(p) \in DOMAIN y
  <2>1. FirstBlock(p) \in DOMAIN z /\ TopOf(p) \in DOMAIN z
    BY <1>2 DEF Tiled
  <2>2. FirstBlock(p) \in Nat /\ TopOf(p) \in Nat /\ FirstBlock(p) <= TopOf(p)
    BY <1>1, <1>3, PoolIs
  <2>3. TopOf(p) < b \/ n < FirstBlock(p)
    <3>1. p \in P /\ p # pool
      BY <1>2
    <3> QED
      BY <1>2, <1>5, <3>1, PoolsApart
  <2> QED
    BY <1>4, <1>7, <2>1, <2>2, <2>3
<1>13. \A x \in DOMAIN y : \E p \in Q : /\ FirstBlock(p) <= x
                           /\ \/ x = TopOf(p) /\ y[x] = 0
                              \/ y[x] >= 3 * ALIGN_SIZE /\ After(y, x) \in DOMAIN y /\ After(y, x) <= TopOf(p)
  <2> TAKE x \in DOMAIN y
  <2>1. PICK p \in Q : /\ FirstBlock(p) <= x
                       /\ \/ x = TopOf(p) /\ z[x] = 0
                          \/ z[x] >= 3 * ALIGN_SIZE /\ After(z, x) \in DOMAIN z /\ After(z, x) <= TopOf(p)
    BY <1>8
  <2>2. z[x] >= 3 * ALIGN_SIZE => z[x] # 0
    BY <1>1
  <2>3. z[x] # 0 => After(y, x) \notin {b, n}
    BY <1>7, <1>9
  <2> QED
    BY <1>7, <2>1, <2>2, <2>3
<1>14. \A x, w \in DOMAIN y : y[x] # 0 => w <= x \/ After(y, x) <= w
  BY <1>7 DEF Tiled
<1>15. ASSUME NEW w \in DOMAIN y
       PROVE  \/ \E p \in Q : w = FirstBlock(p)
              \/ \E x \in DOMAIN y : y[x] # 0 /\ After(y, x) = w
  <2>1. w \in DOMAIN z /\ w # b /\ w # n
    BY <1>7
  <2>2. CASE \E p \in P : w = FirstBlock(p)
    BY <1>2, <2>1, <2>2
  <2>3. CASE \E x \in DOMAIN z : z[x] # 0 /\ After(z, x) = w
    <3>1. PICK x \in DOMAIN z : z[x] # 0 /\ After(z, x) = w
      BY <2>3
    <3>2. x # b /\ x # n
      BY <1>2, <2>1, <3>1
    <3> QED
      BY <1>7, <3>1, <3>2
  <2> QED
    BY <2>1, <2>2, <2>3 DEF Tiled
<1>16. Tiled(y, Q)
  BY <1>10, <1>11, <1>12, <1>13, <1>14, <1>15 DEF Tiled
<1> QED
  BY <1>2, <1>7, <1>9, <1>16

-----------------------------------------------------------------------------
(* A heap, seen through its headers.                                       *)

Header == [size : Nat, free : BOOLEAN, prevFree : BOOLEAN, prevPhys : Int]

IsHeap(h) ==
  /\ h = [blk |-> h.blk, list |-> h.list, fl |-> h.fl, sl |-> h.sl]
  /\ h.blk \in [DOMAIN h.blk -> Header] /\ DOMAIN h.blk \subseteq Nat
  /\ h.list \in [Classes -> Seq(Int)]
  /\ h.fl \subseteq 0..FL_INDEX_COUNT - 1
  /\ h.sl \in [0..FL_INDEX_COUNT - 1 -> SUBSET (0..SL_INDEX_COUNT - 1)]

Heads(h)   == DOMAIN h.blk
Sz(h, x)   == h.blk[x].size
Fr(h, x)   == h.blk[x].free = TRUE
Pf(h, x)   == h.blk[x].prevFree = TRUE
Pp(h, x)   == h.blk[x].prevPhys
Sizes(h)   == [x \in DOMAIN h.blk |-> h.blk[x].size]
SameLists(h, g) == g.list = h.list /\ g.fl = h.fl /\ g.sl = h.sl

LEMMA HeaderIs ==
  ASSUME NEW h, IsHeap(h), NEW x \in Heads(h)
  PROVE  /\ Sz(h, x) \in Nat /\ Sizes(h)[x] = Sz(h, x) /\ x \in Nat /\ Pp(h, x) \in Int
         /\ NextOf(h, x) = After(Sizes(h), x) /\ DOMAIN Sizes(h) = Heads(h)
         /\ h.blk[x].free \in BOOLEAN /\ h.blk[x].prevFree \in BOOLEAN
         /\ (Fr(h, x) <=> h.blk[x].free) /\ (Pf(h, x) <=> h.blk[x].prevFree)
<1>1. h.blk[x] \in Header /\ x \in Nat
  BY DEF IsHeap, Heads
<1>2. h.blk[x].size \in Nat /\ h.blk[x].free \in BOOLEAN /\ h.blk[x].prevFree \in BOOLEAN /\ h.blk[x].prevPhys \in Int
  BY <1>1 DEF Header
<1>3. NextOf(h, x) = After(Sizes(h), x)
  BY ConstantsAre DEF NextOf, After, Sizes, Heads
<1> QED
  BY <1>1, <1>2, <1>3 DEF Heads, Sz, Fr, Pf, Pp, Sizes

(* A heap with other headers.                                              *)
LEMMA HeadersChange ==
  ASSUME NEW h, IsHeap(h), NEW B, B \in [DOMAIN B -> Header], DOMAIN B \subseteq Nat, NEW g, g = [h EXCEPT !.blk = B]
  PROVE  IsHeap(g) /\ g.blk = B /\ SameLists(h, g)
<1>1. h = [blk |-> h.blk, list |-> h.list, fl |-> h.fl, sl |-> h.sl]
  BY DEF IsHeap
<1>2. g = [blk |-> B, list |-> h.list, fl |-> h.fl, sl |-> h.sl]
  BY <1>1
<1>3. g.blk = B /\ g.list = h.list /\ g.fl = h.fl /\ g.sl = h.sl
  BY <1>2
<1>4. g = [blk |-> g.blk, list |-> g.list, fl |-> g.fl, sl |-> g.sl]
  BY <1>2, <1>3
<1> QED
  BY <1>3, <1>4 DEF IsHeap, SameLists

(* One header written, its size kept.                                      *)
Written(h, n, R) == [h EXCEPT !.blk[n] = R]
WithPrevPhys(h, n, v) == [h EXCEPT !.blk[n].prevPhys = v]
PrevFreeSet(h, n)  == [h EXCEPT !.blk[n].prevFree = TRUE]
PrevFreeCleared(h, n) == [h EXCEPT !.blk[n].prevFree = FALSE]
FreeSet(h, n)      == [h EXCEPT !.blk[n].free = TRUE]
FreeCleared(h, n)  == [h EXCEPT !.blk[n].free = FALSE]

LEMMA PutHeader ==
  ASSUME NEW h, IsHeap(h), NEW n \in Heads(h), NEW R, R \in Header, R.size = Sz(h, n), NEW g, g = Written(h, n, R)
  PROVE  /\ IsHeap(g) /\ SameLists(h, g) /\ Heads(g) = Heads(h) /\ Sizes(g) = Sizes(h)
         /\ g.blk[n] = R
         /\ \A x \in Heads(h) : x # n => g.blk[x] = h.blk[x]
<1> DEFINE B == [h.blk EXCEPT ![n] = R]
<1>1. g = [h EXCEPT !.blk = B]
  BY DEF Written
<1>2. DOMAIN B = DOMAIN h.blk /\ DOMAIN B \subseteq Nat /\ \A x \in DOMAIN h.blk : h.blk[x] \in Header
  BY DEF IsHeap
<1>3. B[n] = R /\ \A x \in Heads(h) : x # n => B[x] = h.blk[x]
  BY DEF Heads
<1>4. B = [x \in DOMAIN B |-> B[x]]
  OBVIOUS
<1> HIDE DEF B
<1>5. B \in [DOMAIN B -> Header]
  BY <1>2, <1>3, <1>4 DEF Heads
<1>6. IsHeap(g) /\ g.blk = B /\ SameLists(h, g)
  BY <1>1, <1>2, <1>5, HeadersChange
<1>7. Sizes(g) = Sizes(h)
  BY <1>2, <1>3, <1>6 DEF Sizes, Heads, Sz
<1> QED
  BY <1>2, <1>3, <1>6, <1>7 DEF Heads

LEMMA PutPrevPhys ==
  ASSUME NEW h, IsHeap(h), NEW n \in Heads(h), NEW v \in Int, NEW g, g = WithPrevPhys(h, n, v)
  PROVE  /\ IsHeap(g) /\ SameLists(h, g) /\ Heads(g) = Heads(h) /\ Sizes(g) = Sizes(h)
         /\ \A x \in Heads(h) : /\ Sz(g, x) = Sz(h, x)
                                /\ Fr(g, x) <=> Fr(h, x)
                                /\ Pf(g, x) <=> Pf(h, x)
                                /\ Pp(g, x) = IF x = n THEN v ELSE Pp(h, x)
<1>1. PICK R : R = [h.blk[n] EXCEPT !.prevPhys = v]
  OBVIOUS
<1>2. h.blk[n] \in Header
  BY DEF IsHeap, Heads
<1>3. /\ R \in Header /\ R.size = Sz(h, n) /\ R.prevPhys = v
      /\ R.free = h.blk[n].free /\ R.prevFree = h.blk[n].prevFree
  BY <1>1, <1>2 DEF Header, Sz
<1>4. g = Written(h, n, R) /\ R \in Header /\ R.size = Sz(h, n)
  BY <1>1, <1>3 DEF Written, WithPrevPhys, PrevFreeSet, PrevFreeCleared, FreeSet, FreeCleared
<1>5. /\ IsHeap(g) /\ SameLists(h, g) /\ Heads(g) = Heads(h) /\ Sizes(g) = Sizes(h)
      /\ g.blk[n] = R
      /\ \A x \in Heads(h) : x # n => g.blk[x] = h.blk[x]
  BY <1>4, PutHeader
<1>6. ASSUME NEW x \in Heads(h)
      PROVE  /\ Sz(g, x) = Sz(h, x)
             /\ Fr(g, x) <=> Fr(h, x)
             /\ Pf(g, x) <=> Pf(h, x)
             /\ Pp(g, x) = IF x = n THEN v ELSE Pp(h, x)
  <2>1. CASE x = n
    BY <1>3, <1>5, <2>1 DEF Sz, Fr, Pf, Pp
  <2>2. CASE x # n
    BY <1>5, <2>2 DEF Sz, Fr, Pf, Pp
  <2> QED
    BY <2>1, <2>2
<1> QED
  BY <1>5, <1>6

LEMMA SetsPrevFree ==
  ASSUME NEW h, IsHeap(h), NEW n \in Heads(h), NEW g, g = PrevFreeSet(h, n)
  PROVE  /\ IsHeap(g) /\ SameLists(h, g) /\ Heads(g) = Heads(h) /\ Sizes(g) = Sizes(h)
         /\ \A x \in Heads(h) : /\ Sz(g, x) = Sz(h, x)
                                /\ Fr(g, x) <=> Fr(h, x)
                                /\ Pf(g, x) <=> x = n \/ Pf(h, x)
                                /\ Pp(g, x) = Pp(h, x)
<1>1. PICK R : R = [h.blk[n] EXCEPT !.prevFree = TRUE]
  OBVIOUS
<1>2. h.blk[n] \in Header
  BY DEF IsHeap, Heads
<1>3. /\ R \in Header /\ R.size = Sz(h, n) /\ R.prevFree = TRUE
      /\ R.free = h.blk[n].free /\ R.prevPhys = h.blk[n].prevPhys
  BY <1>1, <1>2 DEF Header, Sz
<1>4. g = Written(h, n, R) /\ R \in Header /\ R.size = Sz(h, n)
  BY <1>1, <1>3 DEF Written, WithPrevPhys, PrevFreeSet, PrevFreeCleared, FreeSet, FreeCleared
<1>5. /\ IsHeap(g) /\ SameLists(h, g) /\ Heads(g) = Heads(h) /\ Sizes(g) = Sizes(h)
      /\ g.blk[n] = R
      /\ \A x \in Heads(h) : x # n => g.blk[x] = h.blk[x]
  BY <1>4, PutHeader
<1>6. ASSUME NEW x \in Heads(h)
      PROVE  /\ Sz(g, x) = Sz(h, x)
             /\ Fr(g, x) <=> Fr(h, x)
             /\ Pf(g, x) <=> x = n \/ Pf(h, x)
             /\ Pp(g, x) = Pp(h, x)
  <2>1. CASE x = n
    BY <1>3, <1>5, <2>1 DEF Sz, Fr, Pf, Pp
  <2>2. CASE x # n
    BY <1>5, <2>2 DEF Sz, Fr, Pf, Pp
  <2> QED
    BY <2>1, <2>2
<1> QED
  BY <1>5, <1>6

LEMMA ClearsPrevFree ==
  ASSUME NEW h, IsHeap(h), NEW n \in Heads(h), NEW g, g = PrevFreeCleared(h, n)
  PROVE  /\ IsHeap(g) /\ SameLists(h, g) /\ Heads(g) = Heads(h) /\ Sizes(g) = Sizes(h)
         /\ \A x \in Heads(h) : /\ Sz(g, x) = Sz(h, x)
                                /\ Fr(g, x) <=> Fr(h, x)
                                /\ Pf(g, x) <=> x # n /\ Pf(h, x)
                                /\ Pp(g, x) = Pp(h, x)
<1>1. PICK R : R = [h.blk[n] EXCEPT !.prevFree = FALSE]
  OBVIOUS
<1>2. h.blk[n] \in Header
  BY DEF IsHeap, Heads
<1>3. /\ R \in Header /\ R.size = Sz(h, n) /\ R.prevFree = FALSE
      /\ R.free = h.blk[n].free /\ R.prevPhys = h.blk[n].prevPhys
  BY <1>1, <1>2 DEF Header, Sz
<1>4. g = Written(h, n, R) /\ R \in Header /\ R.size = Sz(h, n)
  BY <1>1, <1>3 DEF Written, WithPrevPhys, PrevFreeSet, PrevFreeCleared, FreeSet, FreeCleared
<1>5. /\ IsHeap(g) /\ SameLists(h, g) /\ Heads(g) = Heads(h) /\ Sizes(g) = Sizes(h)
      /\ g.blk[n] = R
      /\ \A x \in Heads(h) : x # n => g.blk[x] = h.blk[x]
  BY <1>4, PutHeader
<1>6. ASSUME NEW x \in Heads(h)
      PROVE  /\ Sz(g, x) = Sz(h, x)
             /\ Fr(g, x) <=> Fr(h, x)
             /\ Pf(g, x) <=> x # n /\ Pf(h, x)
             /\ Pp(g, x) = Pp(h, x)
  <2>1. CASE x = n
    BY <1>3, <1>5, <2>1 DEF Sz, Fr, Pf, Pp
  <2>2. CASE x # n
    BY <1>5, <2>2 DEF Sz, Fr, Pf, Pp
  <2> QED
    BY <2>1, <2>2
<1> QED
  BY <1>5, <1>6

LEMMA SetsFree ==
  ASSUME NEW h, IsHeap(h), NEW n \in Heads(h), NEW g, g = FreeSet(h, n)
  PROVE  /\ IsHeap(g) /\ SameLists(h, g) /\ Heads(g) = Heads(h) /\ Sizes(g) = Sizes(h)
         /\ \A x \in Heads(h) : /\ Sz(g, x) = Sz(h, x)
                                /\ Fr(g, x) <=> x = n \/ Fr(h, x)
                                /\ Pf(g, x) <=> Pf(h, x)
                                /\ Pp(g, x) = Pp(h, x)
<1>1. PICK R : R = [h.blk[n] EXCEPT !.free = TRUE]
  OBVIOUS
<1>2. h.blk[n] \in Header
  BY DEF IsHeap, Heads
<1>3. /\ R \in Header /\ R.size = Sz(h, n) /\ R.free = TRUE
      /\ R.prevFree = h.blk[n].prevFree /\ R.prevPhys = h.blk[n].prevPhys
  BY <1>1, <1>2 DEF Header, Sz
<1>4. g = Written(h, n, R) /\ R \in Header /\ R.size = Sz(h, n)
  BY <1>1, <1>3 DEF Written, WithPrevPhys, PrevFreeSet, PrevFreeCleared, FreeSet, FreeCleared
<1>5. /\ IsHeap(g) /\ SameLists(h, g) /\ Heads(g) = Heads(h) /\ Sizes(g) = Sizes(h)
      /\ g.blk[n] = R
      /\ \A x \in Heads(h) : x # n => g.blk[x] = h.blk[x]
  BY <1>4, PutHeader
<1>6. ASSUME NEW x \in Heads(h)
      PROVE  /\ Sz(g, x) = Sz(h, x)
             /\ Fr(g, x) <=> x = n \/ Fr(h, x)
             /\ Pf(g, x) <=> Pf(h, x)
             /\ Pp(g, x) = Pp(h, x)
  <2>1. CASE x = n
    BY <1>3, <1>5, <2>1 DEF Sz, Fr, Pf, Pp
  <2>2. CASE x # n
    BY <1>5, <2>2 DEF Sz, Fr, Pf, Pp
  <2> QED
    BY <2>1, <2>2
<1> QED
  BY <1>5, <1>6

LEMMA ClearsFree ==
  ASSUME NEW h, IsHeap(h), NEW n \in Heads(h), NEW g, g = FreeCleared(h, n)
  PROVE  /\ IsHeap(g) /\ SameLists(h, g) /\ Heads(g) = Heads(h) /\ Sizes(g) = Sizes(h)
         /\ \A x \in Heads(h) : /\ Sz(g, x) = Sz(h, x)
                                /\ Fr(g, x) <=> x # n /\ Fr(h, x)
                                /\ Pf(g, x) <=> Pf(h, x)
                                /\ Pp(g, x) = Pp(h, x)
<1>1. PICK R : R = [h.blk[n] EXCEPT !.free = FALSE]
  OBVIOUS
<1>2. h.blk[n] \in Header
  BY DEF IsHeap, Heads
<1>3. /\ R \in Header /\ R.size = Sz(h, n) /\ R.free = FALSE
      /\ R.prevFree = h.blk[n].prevFree /\ R.prevPhys = h.blk[n].prevPhys
  BY <1>1, <1>2 DEF Header, Sz
<1>4. g = Written(h, n, R) /\ R \in Header /\ R.size = Sz(h, n)
  BY <1>1, <1>3 DEF Written, WithPrevPhys, PrevFreeSet, PrevFreeCleared, FreeSet, FreeCleared
<1>5. /\ IsHeap(g) /\ SameLists(h, g) /\ Heads(g) = Heads(h) /\ Sizes(g) = Sizes(h)
      /\ g.blk[n] = R
      /\ \A x \in Heads(h) : x # n => g.blk[x] = h.blk[x]
  BY <1>4, PutHeader
<1>6. ASSUME NEW x \in Heads(h)
      PROVE  /\ Sz(g, x) = Sz(h, x)
             /\ Fr(g, x) <=> x # n /\ Fr(h, x)
             /\ Pf(g, x) <=> Pf(h, x)
             /\ Pp(g, x) = Pp(h, x)
  <2>1. CASE x = n
    BY <1>3, <1>5, <2>1 DEF Sz, Fr, Pf, Pp
  <2>2. CASE x # n
    BY <1>5, <2>2 DEF Sz, Fr, Pf, Pp
  <2> QED
    BY <2>1, <2>2
<1> QED
  BY <1>5, <1>6


(* Whether a step writes the headers only, and not their sizes.            *)
SameRest(h, g) == IsHeap(g) /\ SameLists(h, g) /\ Heads(g) = Heads(h) /\ Sizes(g) = Sizes(h)

LEMMA SameNext ==
  ASSUME NEW h, NEW g, IsHeap(h), SameRest(h, g), NEW x \in Heads(h)
  PROVE  NextOf(g, x) = NextOf(h, x) /\ Sz(g, x) = Sz(h, x)
BY HeaderIs DEF SameRest

LEMMA LinkNextIs ==
  ASSUME NEW h, IsHeap(h), NEW b \in Heads(h), NEW n \in Heads(h), n = NextOf(h, b), NEW g, g = LinkNext(h, b)
  PROVE  /\ SameRest(h, g)
         /\ \A x \in Heads(h) : /\ Fr(g, x) <=> Fr(h, x)
                                /\ Pf(g, x) <=> Pf(h, x)
                                /\ Pp(g, x) = IF x = n THEN b ELSE Pp(h, x)
<1>1. b \in Int /\ g = WithPrevPhys(h, n, b)
  BY HeaderIs DEF LinkNext, WithPrevPhys
<1> QED
  BY <1>1, PutPrevPhys DEF SameRest

LEMMA ClobberIs ==
  ASSUME NEW h, IsHeap(h), NEW b \in Heads(h), NEW n \in Heads(h), n = NextOf(h, b), NEW g, g = Clobber(h, b)
  PROVE  /\ SameRest(h, g)
         /\ \A x \in Heads(h) : /\ Fr(g, x) <=> Fr(h, x)
                                /\ Pf(g, x) <=> Pf(h, x)
                                /\ x # n => Pp(g, x) = Pp(h, x)
<1>1. Null \in Int /\ g = WithPrevPhys(h, n, Null)
  BY DEF Clobber, Null, WithPrevPhys
<1> QED
  BY <1>1, PutPrevPhys DEF SameRest

LEMMA MarkFreeIs ==
  ASSUME NEW h, IsHeap(h), NEW b \in Heads(h), NEW n \in Heads(h), n = NextOf(h, b), NEW g, g = MarkFree(h, b)
  PROVE  /\ SameRest(h, g)
         /\ \A x \in Heads(h) : /\ Fr(g, x) <=> x = b \/ Fr(h, x)
                                /\ Pf(g, x) <=> x = n \/ Pf(h, x)
                                /\ Pp(g, x) = IF x = n THEN b ELSE Pp(h, x)
<1>1. PICK k : k = LinkNext(h, b)
  OBVIOUS
<1>2. PICK j : j = PrevFreeSet(k, n)
  OBVIOUS
<1>3. g = FreeSet(j, b)
  BY <1>1, <1>2 DEF MarkFree, PrevFreeSet, PrevFreeCleared, FreeSet, FreeCleared
<1>4. /\ SameRest(h, k)
      /\ \A x \in Heads(h) : /\ Fr(k, x) <=> Fr(h, x)
                             /\ Pf(k, x) <=> Pf(h, x)
                             /\ Pp(k, x) = IF x = n THEN b ELSE Pp(h, x)
  BY <1>1, LinkNextIs
<1>5. IsHeap(k) /\ Heads(k) = Heads(h)
  BY <1>4 DEF SameRest
<1>6. /\ IsHeap(j) /\ SameLists(k, j) /\ Heads(j) = Heads(k) /\ Sizes(j) = Sizes(k)
      /\ \A x \in Heads(k) : /\ Sz(j, x) = Sz(k, x) /\ (Fr(j, x) <=> Fr(k, x)) /\ Pp(j, x) = Pp(k, x)
                             /\ Pf(j, x) <=> x = n \/ Pf(k, x)
  BY <1>2, <1>5, SetsPrevFree
<1>7. /\ IsHeap(g) /\ SameLists(j, g) /\ Heads(g) = Heads(j) /\ Sizes(g) = Sizes(j)
      /\ \A x \in Heads(j) : /\ Sz(g, x) = Sz(j, x) /\ (Pf(g, x) <=> Pf(j, x)) /\ Pp(g, x) = Pp(j, x)
                             /\ Fr(g, x) <=> x = b \/ Fr(j, x)
  BY <1>3, <1>5, <1>6, SetsFree
<1> QED
  BY <1>4, <1>6, <1>7 DEF SameRest, SameLists

LEMMA MarkUsedIs ==
  ASSUME NEW h, IsHeap(h), NEW b \in Heads(h), NEW n \in Heads(h), n = NextOf(h, b), NEW g, g = MarkUsed(h, b)
  PROVE  /\ SameRest(h, g)
         /\ \A x \in Heads(h) : /\ Fr(g, x) <=> x # b /\ Fr(h, x)
                                /\ Pf(g, x) <=> x # n /\ Pf(h, x)
                                /\ x # n => Pp(g, x) = Pp(h, x)
<1>1. PICK j : j = PrevFreeCleared(h, n)
  OBVIOUS
<1>2. PICK k : k = FreeCleared(j, b)
  OBVIOUS
<1>3. g = Clobber(k, b)
  BY <1>1, <1>2 DEF MarkUsed, PrevFreeSet, PrevFreeCleared, FreeSet, FreeCleared
<1>6. /\ IsHeap(j) /\ SameLists(h, j) /\ Heads(j) = Heads(h) /\ Sizes(j) = Sizes(h)
      /\ \A x \in Heads(h) : /\ Sz(j, x) = Sz(h, x) /\ (Fr(j, x) <=> Fr(h, x)) /\ Pp(j, x) = Pp(h, x)
                             /\ Pf(j, x) <=> x # n /\ Pf(h, x)
  BY <1>1, ClearsPrevFree
<1>7. /\ IsHeap(k) /\ SameLists(j, k) /\ Heads(k) = Heads(j) /\ Sizes(k) = Sizes(j)
      /\ \A x \in Heads(j) : /\ Sz(k, x) = Sz(j, x) /\ (Pf(k, x) <=> Pf(j, x)) /\ Pp(k, x) = Pp(j, x)
                             /\ Fr(k, x) <=> x # b /\ Fr(j, x)
  BY <1>2, <1>6, ClearsFree
<1>8. SameRest(h, k)
  BY <1>6, <1>7 DEF SameRest, SameLists
<1>9. n = NextOf(k, b) /\ b \in Heads(k) /\ n \in Heads(k)
  BY <1>8, SameNext DEF SameRest
<1>10. /\ SameRest(k, g)
       /\ \A x \in Heads(k) : /\ Fr(g, x) <=> Fr(k, x)
                              /\ Pf(g, x) <=> Pf(k, x)
                              /\ x # n => Pp(g, x) = Pp(k, x)
  BY <1>3, <1>7, <1>9, ClobberIs
<1> QED
  BY <1>6, <1>7, <1>10 DEF SameRest, SameLists

-----------------------------------------------------------------------------
(* The free lists.                                                         *)

Listed(h, F) ==
  \A c \in Classes :
    /\ ToSet(h.list[c]) = {x \in F : mapping_insert(Sz(h, x)) = c}
    /\ IsInjective(h.list[c])
    /\ c[2] \in h.sl[c[1]] <=> h.list[c] # << >>
    /\ c[1] \in h.fl <=> h.sl[c[1]] # {}

LEMMA UnlinkIs ==
  ASSUME NEW s \in Seq(Int), IsInjective(s), NEW b \in ToSet(s)
  PROVE  /\ Unlink(s, b) \in Seq(Int) /\ IsInjective(Unlink(s, b)) /\ ToSet(Unlink(s, b)) = ToSet(s) \ {b}
         /\ Unlink(s, b) = << >> => Head(s) = b
<1>1. PICK i : i = CHOOSE j \in DOMAIN s : s[j] = b
  OBVIOUS
<1>2. \E j \in DOMAIN s : s[j] = b
  BY DEF ToSet
<1>3. i \in DOMAIN s /\ s[i] = b
  BY <1>1, <1>2
<1>4. i \in 1..Len(s) /\ Len(s) \in Nat /\ DOMAIN s = 1..Len(s)
  BY <1>3
<1>5. PICK u : u = SubSeq(s, 1, i - 1) \o SubSeq(s, i + 1, Len(s))
  OBVIOUS
<1>6. Unlink(s, b) = u
  BY <1>1, <1>5 DEF Unlink, RemoveAt
<1>7. SubSeq(s, 1, i - 1) \in Seq(Int) /\ SubSeq(s, i + 1, Len(s)) \in Seq(Int)
  BY <1>4
<1>8. /\ u \in Seq(Int) /\ Len(u) = Len(s) - 1
      /\ \A j \in 1..Len(u) : u[j] = IF j < i THEN s[j] ELSE s[j + 1]
  <2>1. PICK p, q : p = SubSeq(s, 1, i - 1) /\ q = SubSeq(s, i + 1, Len(s))
    OBVIOUS
  <2>2. p \in Seq(Int) /\ q \in Seq(Int) /\ u = p \o q
    BY <1>5, <1>7, <2>1
  <2>3. Len(p) = i - 1 /\ \A j \in 1..i - 1 : p[j] = s[j]
    BY <1>4, <2>1
  <2>4. Len(q) = Len(s) - i /\ \A j \in 1..Len(s) - i : q[j] = s[j + i]
    <3>1. PICK a, n : a = i + 1 /\ n = Len(s)
      OBVIOUS
    <3>2. a \in Int /\ n \in Int /\ \A j \in a..n : s[j] \in Int
      BY <1>4, <3>1
    <3>3. /\ Len(SubSeq(s, a, n)) = IF a <= n THEN n - a + 1 ELSE 0
          /\ \A j \in 1..n - a + 1 : SubSeq(s, a, n)[j] = s[a + j - 1]
      BY <3>2, SubSeqProperties
    <3>4. q = SubSeq(s, a, n)
      BY <2>1, <3>1
    <3>5. /\ Len(q) = IF a <= n THEN n - a + 1 ELSE 0
          /\ \A j \in 1..n - a + 1 : q[j] = s[a + j - 1]
      BY <3>3, <3>4, Zenon
    <3>6. i \in 1..n /\ n \in Nat
      BY <1>4, <3>1
    <3>7. n - a + 1 = n - i /\ (IF a <= n THEN n - a + 1 ELSE 0) = n - i /\ \A j \in 1..n - i : a + j - 1 = j + i
      BY <3>1, <3>6
    <3> QED
      BY <3>1, <3>5, <3>7
  <2>5. u \in Seq(Int) /\ Len(u) = Len(p) + Len(q)
    BY <2>2
  <2>6. \A j \in 1..Len(u) : u[j] = IF j <= Len(p) THEN p[j] ELSE q[j - Len(p)]
    BY <2>2, <2>5
  <2>7. ASSUME NEW j \in 1..Len(u) PROVE u[j] = IF j < i THEN s[j] ELSE s[j + 1]
    <3>1. CASE j < i
      BY <1>4, <2>3, <2>6, <3>1
    <3>2. CASE ~ (j < i)
      <4>1. j - Len(p) \in 1..Len(s) - i /\ (j - Len(p)) + i = j + 1 /\ ~ (j <= Len(p))
        BY <1>4, <2>3, <2>4, <2>5, <3>2
      <4> QED
        BY <2>4, <2>6, <3>2, <4>1
    <3> QED
      BY <3>1, <3>2
  <2> QED
    BY <1>4, <2>3, <2>4, <2>5, <2>7
<1>9. DOMAIN u = 1..Len(u) /\ Len(u) \in Nat
  BY <1>8
<1>10. \A j, k \in 1..Len(s) : s[j] = s[k] => j = k
  BY <1>4 DEF IsInjective
<1>11. \A j \in 1..Len(u) : j \in 1..Len(s) /\ j + 1 \in 1..Len(s)
  BY <1>4, <1>8
<1>12. IsInjective(u)
  <2>1. ASSUME NEW j \in 1..Len(u), NEW k \in 1..Len(u), u[j] = u[k] PROVE j = k
    <3>1. PICK l \in 1..Len(s), m \in 1..Len(s) :
            /\ l = (IF j < i THEN j ELSE j + 1) /\ m = (IF k < i THEN k ELSE k + 1)
      BY <1>11
    <3>2. u[j] = s[l] /\ u[k] = s[m]
      BY <1>8, <3>1
    <3>3. l = m
      BY <1>10, <2>1, <3>2
    <3> QED
      BY <1>4, <3>1, <3>3
  <2> QED
    BY <1>9, <2>1 DEF IsInjective
<1>13. ASSUME NEW x PROVE x \in ToSet(u) <=> x \in ToSet(s) /\ x # b
  <2>1. ASSUME x \in ToSet(u) PROVE x \in ToSet(s) /\ x # b
    <3>1. PICK j \in 1..Len(u) : x = u[j]
      BY <1>9, <2>1 DEF ToSet
    <3>2. PICK l \in 1..Len(s) : l = (IF j < i THEN j ELSE j + 1)
      BY <1>11
    <3>3. x = s[l] /\ l # i
      BY <1>4, <1>8, <3>1, <3>2
    <3>4. x # b
      BY <1>3, <1>4, <1>10, <3>3
    <3> QED
      BY <1>4, <3>3, <3>4 DEF ToSet
  <2>2. ASSUME x \in ToSet(s), x # b PROVE x \in ToSet(u)
    <3>1. PICK j \in 1..Len(s) : x = s[j]
      BY <1>4, <2>2 DEF ToSet
    <3>2. CASE j < i
      <4>1. j \in 1..Len(u) /\ u[j] = x
        BY <1>4, <1>8, <3>1, <3>2
      <4> QED
        BY <1>9, <4>1 DEF ToSet
    <3>3. CASE j > i
      <4>1. j - 1 \in 1..Len(u) /\ u[j - 1] = x
        <5>1. j - 1 \in 1..Len(u) /\ ~ (j - 1 < i) /\ (j - 1) + 1 = j
          BY <1>4, <1>8, <3>1, <3>3
        <5> QED
          BY <1>8, <3>1, <5>1
      <4> QED
        BY <1>9, <4>1 DEF ToSet
    <3> QED
      BY <1>3, <1>4, <2>2, <3>1, <3>2, <3>3
  <2> QED
    BY <2>1, <2>2
<1>14. u = << >> => Head(s) = b
  <2>1. HAVE u = << >>
  <2>2. Len(s) = 1 /\ i = 1
    <3>1. Len(u) = 0
      BY <2>1
    <3>2. Len(s) = Len(u) + 1
      BY <1>4, <1>8
    <3>3. Len(s) = 1
      BY <3>1, <3>2
    <3> QED
      BY <1>4, <3>3
  <2> QED
    BY <1>3, <2>2
<1>15. ToSet(u) = ToSet(s) \ {b}
  BY <1>13
<1> QED
  BY <1>6, <1>8, <1>12, <1>14, <1>15

(* Pushing on a list.                                                      *)
LEMMA PushIs ==
  ASSUME NEW s \in Seq(Int), IsInjective(s), NEW b \in Int, b \notin ToSet(s), NEW u, u = <<b>> \o s
  PROVE  u \in Seq(Int) /\ IsInjective(u) /\ ToSet(u) = ToSet(s) \cup {b} /\ u # << >> /\ Head(u) = b
<1>1. /\ u \in Seq(Int) /\ Len(u) = Len(s) + 1 /\ u[1] = b
      /\ \A j \in 1..Len(s) : u[j + 1] = s[j]
      /\ DOMAIN s = 1..Len(s) /\ DOMAIN u = 1..Len(u) /\ Len(s) \in Nat
  OBVIOUS
<1>2. \A j \in 1..Len(u) : j # 1 => j - 1 \in 1..Len(s) /\ u[j] = s[j - 1]
  <2>1. TAKE j \in 1..Len(u)
  <2>2. HAVE j # 1
  <2>3. j - 1 \in 1..Len(s) /\ (j - 1) + 1 = j
    BY <1>1, <2>2
  <2> QED
    BY <1>1, <2>3
<1>3. \A j \in 1..Len(s) : s[j] # b
  BY <1>1 DEF ToSet
<1>4. ASSUME NEW j \in 1..Len(u), NEW k \in 1..Len(u), u[j] = u[k] PROVE j = k
  <2>1. CASE j = 1 \/ k = 1
    BY <1>1, <1>2, <1>3, <1>4, <2>1
  <2>2. CASE j # 1 /\ k # 1
    <3>1. j - 1 \in DOMAIN s /\ k - 1 \in DOMAIN s /\ s[j - 1] = s[k - 1]
      BY <1>1, <1>2, <1>4, <2>2
    <3>2. j - 1 = k - 1
      BY <3>1 DEF IsInjective
    <3> QED
      BY <1>1, <3>2
  <2> QED
    BY <2>1, <2>2
<1>5. IsInjective(u)
  BY <1>1, <1>4 DEF IsInjective
<1>6. ASSUME NEW x PROVE x \in ToSet(u) <=> x \in ToSet(s) \/ x = b
  <2>1. ASSUME x \in ToSet(u) PROVE x \in ToSet(s) \/ x = b
    <3>1. PICK j \in 1..Len(u) : x = u[j]
      BY <1>1, <2>1 DEF ToSet
    <3> QED
      BY <1>1, <1>2, <3>1 DEF ToSet
  <2>2. ASSUME x \in ToSet(s) PROVE x \in ToSet(u)
    <3>1. PICK j \in 1..Len(s) : x = s[j]
      BY <1>1, <2>2 DEF ToSet
    <3>2. j + 1 \in 1..Len(u)
      BY <1>1
    <3> QED
      BY <1>1, <3>1, <3>2 DEF ToSet
  <2>3. b \in ToSet(u)
    <3>1. 1 \in DOMAIN u
      BY <1>1
    <3> QED
      BY <1>1, <3>1 DEF ToSet
  <2> QED
    BY <2>1, <2>2, <2>3
<1>7. ToSet(u) = ToSet(s) \cup {b}
  BY <1>6
<1> QED
  BY <1>1, <1>5, <1>7

(* A heap with other lists.                                                *)
LEMMA ListsChange ==
  ASSUME NEW h, IsHeap(h), NEW g, NEW l, NEW f, NEW s,
         l \in [Classes -> Seq(Int)], f \subseteq 0..FL_INDEX_COUNT - 1,
         s \in [0..FL_INDEX_COUNT - 1 -> SUBSET (0..SL_INDEX_COUNT - 1)],
         g = [blk |-> h.blk, list |-> l, fl |-> f, sl |-> s]
  PROVE  IsHeap(g) /\ g.blk = h.blk /\ g.list = l /\ g.fl = f /\ g.sl = s
<1>1. g.blk = h.blk /\ g.list = l /\ g.fl = f /\ g.sl = s
  OBVIOUS
<1>2. h.blk \in [DOMAIN h.blk -> Header] /\ DOMAIN h.blk \subseteq Nat
  BY DEF IsHeap
<1>3. g = [blk |-> g.blk, list |-> g.list, fl |-> g.fl, sl |-> g.sl]
  BY <1>1
<1> QED
  BY <1>1, <1>2, <1>3 DEF IsHeap

LEMMA ClassParts ==
  ASSUME NEW c \in Classes
  PROVE  c[1] \in 0..FL_INDEX_COUNT - 1 /\ c[2] \in 0..SL_INDEX_COUNT - 1 /\ c = <<c[1], c[2]>>
BY DEF Classes

LEMMA RemoveFreeIs ==
  ASSUME NEW h, IsHeap(h), NEW F, Listed(h, F), NEW b \in F, NEW c \in Classes, c = mapping_insert(Sz(h, b)),
         NEW g, g = RemoveFree(h, b, c)
  PROVE  IsHeap(g) /\ g.blk = h.blk /\ Listed(g, F \ {b})
<1>1. PICK rest, bits, f, l, s :
        /\ rest = Unlink(h.list[c], b)
        /\ bits = (IF rest = << >> THEN h.sl[c[1]] \ {c[2]} ELSE h.sl[c[1]])
        /\ f = (IF bits = {} THEN h.fl \ {c[1]} ELSE h.fl)
        /\ l = [h.list EXCEPT ![c] = rest] /\ s = [h.sl EXCEPT ![c[1]] = bits]
  OBVIOUS
<1>2. h.list[c] \in Seq(Int) /\ IsInjective(h.list[c]) /\ b \in ToSet(h.list[c])
  BY DEF IsHeap, Listed
<1>3. /\ rest \in Seq(Int) /\ IsInjective(rest) /\ ToSet(rest) = ToSet(h.list[c]) \ {b}
      /\ rest = << >> => Head(h.list[c]) = b
  BY <1>1, <1>2, UnlinkIs
<1>4. g = [h EXCEPT !.list[c] = rest, !.sl[c[1]] = bits, !.fl = f]
  BY <1>1, <1>3 DEF RemoveFree
<1>5. c[1] \in 0..FL_INDEX_COUNT - 1 /\ c[2] \in 0..SL_INDEX_COUNT - 1
  BY ClassParts
<1>6. h = [blk |-> h.blk, list |-> h.list, fl |-> h.fl, sl |-> h.sl]
  BY DEF IsHeap
<1>7. g = [blk |-> h.blk, list |-> l, fl |-> f, sl |-> s]
  BY <1>1, <1>4, <1>6
<1>8. /\ l \in [Classes -> Seq(Int)] /\ f \subseteq 0..FL_INDEX_COUNT - 1
      /\ s \in [0..FL_INDEX_COUNT - 1 -> SUBSET (0..SL_INDEX_COUNT - 1)]
  <2>1. /\ h.list \in [Classes -> Seq(Int)] /\ h.fl \subseteq 0..FL_INDEX_COUNT - 1
        /\ h.sl \in [0..FL_INDEX_COUNT - 1 -> SUBSET (0..SL_INDEX_COUNT - 1)]
    BY DEF IsHeap
  <2>2. bits \subseteq h.sl[c[1]]
    BY <1>1
  <2> QED
    BY <1>1, <1>3, <1>5, <2>1, <2>2
<1>9. IsHeap(g) /\ g.blk = h.blk /\ g.list = l /\ g.fl = f /\ g.sl = s
  BY <1>7, <1>8, ListsChange
<1>10. \A x : Sz(g, x) = Sz(h, x)
  BY <1>9 DEF Sz
<1>11. l[c] = rest /\ \A d \in Classes : d # c => l[d] = h.list[d]
  BY <1>1, <1>8 DEF IsHeap
<1>12. s[c[1]] = bits /\ \A i \in 0..FL_INDEX_COUNT - 1 : i # c[1] => s[i] = h.sl[i]
  BY <1>1, <1>5 DEF IsHeap
<1>13. ASSUME NEW d \in Classes
       PROVE  /\ ToSet(l[d]) = {x \in F \ {b} : mapping_insert(Sz(h, x)) = d}
              /\ IsInjective(l[d])
              /\ d[2] \in s[d[1]] <=> l[d] # << >>
              /\ d[1] \in f <=> s[d[1]] # {}
  <2>1. /\ ToSet(h.list[d]) = {x \in F : mapping_insert(Sz(h, x)) = d}
        /\ IsInjective(h.list[d])
        /\ d[2] \in h.sl[d[1]] <=> h.list[d] # << >>
        /\ d[1] \in h.fl <=> h.sl[d[1]] # {}
    BY DEF Listed
  <2>2. d[1] \in 0..FL_INDEX_COUNT - 1 /\ d[2] \in 0..SL_INDEX_COUNT - 1 /\ d = <<d[1], d[2]>> /\ c = <<c[1], c[2]>>
    BY ClassParts
  <2>3. CASE d = c
    <3>1. h.list[c] # << >>
      BY <1>2 DEF ToSet
    <3>2. d[2] \in s[d[1]] <=> l[d] # << >>
      BY <1>1, <1>11, <1>12, <2>1, <2>3, <3>1
    <3>3. d[1] \in f <=> s[d[1]] # {}
      BY <1>1, <1>12, <2>1, <2>3
    <3>4. ToSet(l[d]) = {x \in F \ {b} : mapping_insert(Sz(h, x)) = d}
      BY <1>3, <1>11, <2>1, <2>3
    <3> QED
      BY <1>3, <1>11, <2>3, <3>2, <3>3, <3>4
  <2>4. CASE d # c
    <3>1. ToSet(l[d]) = {x \in F \ {b} : mapping_insert(Sz(h, x)) = d}
      BY <1>11, <2>1, <2>4
    <3>2. CASE d[1] # c[1]
      BY <1>1, <1>11, <1>12, <2>1, <2>2, <2>4, <3>1, <3>2
    <3>3. CASE d[1] = c[1]
      <4>1. d[2] # c[2]
        BY <2>2, <2>4, <3>3
      <4>2. d[2] \in s[d[1]] <=> l[d] # << >>
        BY <1>1, <1>11, <1>12, <2>1, <2>4, <3>3, <4>1
      <4>3. d[1] \in f <=> s[d[1]] # {}
        BY <1>1, <1>12, <2>1, <3>3
      <4> QED
        BY <1>11, <2>1, <2>4, <3>1, <4>2, <4>3
    <3> QED
      BY <3>2, <3>3
  <2> QED
    BY <2>3, <2>4
<1>14. Listed(g, F \ {b})
  BY <1>9, <1>10, <1>13 DEF Listed
<1> QED
  BY <1>9, <1>14

LEMMA InsertFreeIs ==
  ASSUME NEW h, IsHeap(h), NEW F, Listed(h, F), NEW b \in Int, b \notin F, NEW c \in Classes,
         c = mapping_insert(Sz(h, b)), NEW g, g = InsertFree(h, b, c)
  PROVE  IsHeap(g) /\ g.blk = h.blk /\ Listed(g, F \cup {b})
<1>1. PICK more, bits, f, l, s :
        /\ more = <<b>> \o h.list[c] /\ bits = h.sl[c[1]] \cup {c[2]} /\ f = h.fl \cup {c[1]}
        /\ l = [h.list EXCEPT ![c] = more] /\ s = [h.sl EXCEPT ![c[1]] = bits]
  OBVIOUS
<1>2. h.list[c] \in Seq(Int) /\ IsInjective(h.list[c]) /\ b \notin ToSet(h.list[c])
  BY DEF IsHeap, Listed
<1>3. more \in Seq(Int) /\ IsInjective(more) /\ ToSet(more) = ToSet(h.list[c]) \cup {b} /\ more # << >>
  BY <1>1, <1>2, PushIs
<1>4. g = [h EXCEPT !.list[c] = more, !.fl = f, !.sl[c[1]] = bits]
  BY <1>1 DEF InsertFree
<1>5. c[1] \in 0..FL_INDEX_COUNT - 1 /\ c[2] \in 0..SL_INDEX_COUNT - 1
  BY ClassParts
<1>6. h = [blk |-> h.blk, list |-> h.list, fl |-> h.fl, sl |-> h.sl]
  BY DEF IsHeap
<1>7. g = [blk |-> h.blk, list |-> l, fl |-> f, sl |-> s]
  BY <1>1, <1>4, <1>6
<1>8. /\ l \in [Classes -> Seq(Int)] /\ f \subseteq 0..FL_INDEX_COUNT - 1
      /\ s \in [0..FL_INDEX_COUNT - 1 -> SUBSET (0..SL_INDEX_COUNT - 1)]
  <2>1. /\ h.list \in [Classes -> Seq(Int)] /\ h.fl \subseteq 0..FL_INDEX_COUNT - 1
        /\ h.sl \in [0..FL_INDEX_COUNT - 1 -> SUBSET (0..SL_INDEX_COUNT - 1)]
    BY DEF IsHeap
  <2>2. bits \subseteq 0..SL_INDEX_COUNT - 1
    BY <1>1, <1>5, <2>1
  <2> QED
    BY <1>1, <1>3, <1>5, <2>1, <2>2
<1>9. IsHeap(g) /\ g.blk = h.blk /\ g.list = l /\ g.fl = f /\ g.sl = s
  BY <1>7, <1>8, ListsChange
<1>10. \A x : Sz(g, x) = Sz(h, x)
  BY <1>9 DEF Sz
<1>11. l[c] = more /\ \A d \in Classes : d # c => l[d] = h.list[d]
  BY <1>1, <1>8 DEF IsHeap
<1>12. s[c[1]] = bits /\ \A i \in 0..FL_INDEX_COUNT - 1 : i # c[1] => s[i] = h.sl[i]
  BY <1>1, <1>5 DEF IsHeap
<1>13. ASSUME NEW d \in Classes
       PROVE  /\ ToSet(l[d]) = {x \in F \cup {b} : mapping_insert(Sz(h, x)) = d}
              /\ IsInjective(l[d])
              /\ d[2] \in s[d[1]] <=> l[d] # << >>
              /\ d[1] \in f <=> s[d[1]] # {}
  <2>1. /\ ToSet(h.list[d]) = {x \in F : mapping_insert(Sz(h, x)) = d}
        /\ IsInjective(h.list[d])
        /\ d[2] \in h.sl[d[1]] <=> h.list[d] # << >>
        /\ d[1] \in h.fl <=> h.sl[d[1]] # {}
    BY DEF Listed
  <2>2. d[1] \in 0..FL_INDEX_COUNT - 1 /\ d[2] \in 0..SL_INDEX_COUNT - 1 /\ d = <<d[1], d[2]>> /\ c = <<c[1], c[2]>>
    BY ClassParts
  <2>3. CASE d = c
    <3>1. ToSet(l[d]) = {x \in F \cup {b} : mapping_insert(Sz(h, x)) = d}
      BY <1>3, <1>11, <2>1, <2>3
    <3>2. d[2] \in s[d[1]] /\ d[1] \in f /\ s[d[1]] # {} /\ l[d] # << >>
      BY <1>1, <1>3, <1>11, <1>12, <2>3
    <3> QED
      BY <1>3, <1>11, <2>3, <3>1, <3>2
  <2>4. CASE d # c
    <3>1. ToSet(l[d]) = {x \in F \cup {b} : mapping_insert(Sz(h, x)) = d}
      BY <1>11, <2>1, <2>4
    <3>2. CASE d[1] # c[1]
      BY <1>1, <1>11, <1>12, <2>1, <2>2, <2>4, <3>1, <3>2
    <3>3. CASE d[1] = c[1]
      <4>1. d[2] # c[2]
        BY <2>2, <2>4, <3>3
      <4>2. d[2] \in s[d[1]] <=> l[d] # << >>
        BY <1>1, <1>11, <1>12, <2>1, <2>4, <3>3, <4>1
      <4>3. d[1] \in f /\ s[d[1]] # {}
        BY <1>1, <1>12, <3>3
      <4> QED
        BY <1>11, <2>1, <2>4, <3>1, <4>2, <4>3
    <3> QED
      BY <3>2, <3>3
  <2> QED
    BY <2>3, <2>4
<1>14. Listed(g, F \cup {b})
  BY <1>9, <1>10, <1>13 DEF Listed
<1> QED
  BY <1>9, <1>14

(* The lists stay right while the sizes of what they list do.              *)
LEMMA ListedStays ==
  ASSUME NEW h, NEW g, NEW F, Listed(h, F), SameLists(h, g), \A x \in F : Sz(g, x) = Sz(h, x)
  PROVE  Listed(g, F)
<1>1. \A c : {x \in F : mapping_insert(Sz(g, x)) = c} = {x \in F : mapping_insert(Sz(h, x)) = c}
  OBVIOUS
<1> QED
  BY <1>1 DEF Listed, SameLists

-----------------------------------------------------------------------------
(* A heap with the blocks S in hand: they are in no list, their flags and   *)
(* those of their neighbours may not agree, and neighbours of theirs may be *)
(* free as they are.  With none in hand the heap is as a client finds it.   *)

FreeOf(h) == {x \in Heads(h) : Sz(h, x) # 0 /\ Fr(h, x)}
UsedOf(h) == {x \in Heads(h) : Sz(h, x) # 0 /\ ~ Fr(h, x)}

OwnFlags(h, x) ==
  /\ Pf(h, NextOf(h, x)) <=> Fr(h, x)
  /\ Fr(h, x) => Pp(h, NextOf(h, x)) = x

Loose(h, P, S) ==
  /\ IsHeap(h) /\ Tiled(Sizes(h), P)
  /\ S \subseteq {x \in Heads(h) : Sz(h, x) # 0}
  /\ \A x \in Heads(h) : Sz(h, x) = 0 => ~ Fr(h, x)
  /\ \A p \in P : ~ Pf(h, FirstBlock(p))
  /\ \A x \in Heads(h) \ S :
       Sz(h, x) # 0 => OwnFlags(h, x) /\ (Fr(h, x) => NextOf(h, x) \in S \/ ~ Fr(h, NextOf(h, x)))
  /\ Listed(h, FreeOf(h) \ S)

LEMMA BlockIs ==
  ASSUME NEW P, Fitting(P), NEW h, IsHeap(h), Tiled(Sizes(h), P), NEW b \in Heads(h), Sz(h, b) # 0
  PROVE  /\ b \in Nat /\ Sz(h, b) \in Nat /\ Aligned(b) /\ Aligned(Sz(h, b))
         /\ Sz(h, b) >= 3 * ALIGN_SIZE /\ Sz(h, b) < block_size_max
         /\ NextOf(h, b) \in Heads(h) /\ NextOf(h, b) \in Nat /\ NextOf(h, b) > b /\ NextOf(h, b) # b
         /\ NextOf(h, b) = b + ALIGN_SIZE + Sz(h, b)
         /\ \A p \in P : NextOf(h, b) # FirstBlock(p)
         /\ \A y \in Heads(h) : Sz(h, y) # 0 /\ NextOf(h, y) = NextOf(h, b) => y = b
         /\ NextOf(h, b) + 2 * ALIGN_SIZE <= Bit[SizeBits]
         /\ mapping_insert(Sz(h, b)) \in Classes
<1>1. PICK z : z = Sizes(h)
  OBVIOUS
<1>2. DOMAIN z = Heads(h) /\ \A x \in Heads(h) : z[x] = Sz(h, x) /\ NextOf(h, x) = After(z, x)
  BY <1>1, HeaderIs
<1>3. Tiled(z, P) /\ b \in DOMAIN z /\ z[b] # 0
  BY <1>1, <1>2
<1>4. /\ b \in Nat /\ z[b] \in Nat /\ Aligned(b) /\ Aligned(z[b])
      /\ z[b] >= 3 * ALIGN_SIZE /\ z[b] < block_size_max
      /\ After(z, b) \in DOMAIN z /\ After(z, b) \in Nat /\ After(z, b) > b
      /\ After(z, b) = b + ALIGN_SIZE + z[b]
      /\ \A p \in P : After(z, b) # FirstBlock(p)
      /\ \A y \in DOMAIN z : z[y] # 0 /\ After(z, y) = After(z, b) => y = b
      /\ After(z, b) + 2 * ALIGN_SIZE <= Bit[SizeBits]
  BY <1>3, TileOf
<1>5. mapping_insert(z[b]) \in Classes
  BY <1>4, SizeHasClass
<1> QED
  BY <1>2, <1>4, <1>5

LEMMA LooseUsed ==
  ASSUME NEW P, Fitting(P), NEW S, NEW h, Loose(h, P, S), NEW b \in S, NEW g, g = MarkUsed(h, b)
  PROVE  /\ Loose(g, P, S \ {b}) /\ SameRest(h, g)
         /\ \A x \in Heads(h) : Sz(g, x) = Sz(h, x) /\ (Fr(g, x) <=> x # b /\ Fr(h, x))
<1>1. IsHeap(h) /\ Tiled(Sizes(h), P) /\ b \in Heads(h) /\ Sz(h, b) # 0
  BY DEF Loose
<1>2. PICK n : n = NextOf(h, b)
  OBVIOUS
<1>3. /\ n \in Heads(h) /\ n # b /\ \A p \in P : n # FirstBlock(p)
      /\ \A y \in Heads(h) : Sz(h, y) # 0 /\ NextOf(h, y) = n => y = b
  BY <1>1, <1>2, BlockIs
<1>4. /\ SameRest(h, g)
      /\ \A x \in Heads(h) : /\ Fr(g, x) <=> x # b /\ Fr(h, x)
                             /\ Pf(g, x) <=> x # n /\ Pf(h, x)
                             /\ x # n => Pp(g, x) = Pp(h, x)
  BY <1>1, <1>2, <1>3, MarkUsedIs
<1>5. /\ IsHeap(g) /\ SameLists(h, g) /\ Heads(g) = Heads(h) /\ Tiled(Sizes(g), P)
      /\ \A x \in Heads(h) : Sz(g, x) = Sz(h, x) /\ NextOf(g, x) = NextOf(h, x)
  BY <1>1, <1>4, SameNext DEF SameRest
<1>6. \A x \in Heads(g) : Sz(g, x) = 0 => ~ Fr(g, x)
  BY <1>4, <1>5 DEF Loose
<1>7. \A p \in P : ~ Pf(g, FirstBlock(p))
  <2>1. \A p \in P : FirstBlock(p) \in Heads(h)
    BY <1>1, HeaderIs DEF Tiled, Sizes, Heads
  <2> QED
    BY <1>4, <2>1 DEF Loose
<1>8. ASSUME NEW x \in Heads(g) \ (S \ {b}), Sz(g, x) # 0
      PROVE  OwnFlags(g, x) /\ (Fr(g, x) => NextOf(g, x) \in S \ {b} \/ ~ Fr(g, NextOf(g, x)))
  <2>1. x \in Heads(h) /\ Sz(h, x) # 0 /\ NextOf(g, x) = NextOf(h, x) /\ NextOf(h, x) \in Heads(h)
    BY <1>1, <1>5, <1>8, BlockIs
  <2>2. CASE x = b
    BY <1>2, <1>3, <1>4, <2>1, <2>2 DEF OwnFlags
  <2>3. CASE x # b
    <3>1. x \in Heads(h) \ S /\ NextOf(h, x) # n
      BY <1>3, <1>8, <2>1, <2>3
    <3>2. OwnFlags(h, x) /\ (Fr(h, x) => NextOf(h, x) \in S \/ ~ Fr(h, NextOf(h, x)))
      BY <2>1, <3>1 DEF Loose
    <3>3. OwnFlags(g, x)
      BY <1>4, <2>1, <2>3, <3>1, <3>2 DEF OwnFlags
    <3> QED
      BY <1>4, <2>1, <2>3, <3>2, <3>3
  <2> QED
    BY <2>2, <2>3
<1>9. FreeOf(g) \ (S \ {b}) = FreeOf(h) \ S
  BY <1>4, <1>5 DEF FreeOf
<1>10. Listed(g, FreeOf(g) \ (S \ {b}))
  <2>1. Listed(h, FreeOf(h) \ S)
    BY DEF Loose
  <2>2. \A x \in FreeOf(h) \ S : Sz(g, x) = Sz(h, x)
    BY <1>5 DEF FreeOf
  <2> QED
    BY <1>5, <1>9, <2>1, <2>2, ListedStays
<1>11. S \ {b} \subseteq {x \in Heads(g) : Sz(g, x) # 0}
  BY <1>5 DEF Loose
<1>12. Loose(g, P, S \ {b})
  BY <1>5, <1>6, <1>7, <1>8, <1>10, <1>11 DEF Loose
<1> QED
  BY <1>4, <1>5, <1>12

LEMMA FirstIsHead ==
  ASSUME NEW P, NEW h, IsHeap(h), Tiled(Sizes(h), P), NEW p \in P
  PROVE  FirstBlock(p) \in Heads(h) /\ TopOf(p) \in Heads(h)
<1>1. DOMAIN Sizes(h) = Heads(h)
  BY DEF Sizes, Heads
<1> QED
  BY <1>1 DEF Tiled

LEMMA LooseFree ==
  ASSUME NEW P, Fitting(P), NEW S, NEW h, Loose(h, P, S), NEW b \in S, NEW g, g = MarkFree(h, b)
  PROVE  /\ Loose(g, P, S) /\ SameRest(h, g) /\ OwnFlags(g, b) /\ Fr(g, b)
         /\ \A x \in Heads(h) : Sz(g, x) = Sz(h, x) /\ (Fr(g, x) <=> x = b \/ Fr(h, x)) /\ NextOf(g, x) = NextOf(h, x)
         /\ \A x \in Heads(h) : x # NextOf(h, b) => (Pf(g, x) <=> Pf(h, x)) /\ Pp(g, x) = Pp(h, x)
<1>1. IsHeap(h) /\ Tiled(Sizes(h), P) /\ b \in Heads(h) /\ Sz(h, b) # 0
  BY DEF Loose
<1>2. PICK n : n = NextOf(h, b)
  OBVIOUS
<1>3. /\ n \in Heads(h) /\ n # b /\ \A p \in P : n # FirstBlock(p)
      /\ \A y \in Heads(h) : Sz(h, y) # 0 /\ NextOf(h, y) = n => y = b
  BY <1>1, <1>2, BlockIs
<1>4. /\ SameRest(h, g)
      /\ \A x \in Heads(h) : /\ Fr(g, x) <=> x = b \/ Fr(h, x)
                             /\ Pf(g, x) <=> x = n \/ Pf(h, x)
                             /\ Pp(g, x) = IF x = n THEN b ELSE Pp(h, x)
  BY <1>1, <1>2, <1>3, MarkFreeIs
<1>5. /\ IsHeap(g) /\ SameLists(h, g) /\ Heads(g) = Heads(h) /\ Tiled(Sizes(g), P)
      /\ \A x \in Heads(h) : Sz(g, x) = Sz(h, x) /\ NextOf(g, x) = NextOf(h, x)
  BY <1>1, <1>4, SameNext DEF SameRest
<1>6. \A x \in Heads(g) : Sz(g, x) = 0 => ~ Fr(g, x)
  BY <1>1, <1>4, <1>5 DEF Loose
<1>7. \A p \in P : ~ Pf(g, FirstBlock(p))
  BY <1>1, <1>3, <1>4, FirstIsHead DEF Loose
<1>8. ASSUME NEW x \in Heads(g) \ S, Sz(g, x) # 0
      PROVE  OwnFlags(g, x) /\ (Fr(g, x) => NextOf(g, x) \in S \/ ~ Fr(g, NextOf(g, x)))
  <2>1. x \in Heads(h) \ S /\ Sz(h, x) # 0 /\ NextOf(g, x) = NextOf(h, x) /\ NextOf(h, x) \in Heads(h) /\ x # b
    BY <1>1, <1>5, <1>8, BlockIs
  <2>2. NextOf(h, x) # n
    BY <1>3, <2>1
  <2>3. OwnFlags(h, x) /\ (Fr(h, x) => NextOf(h, x) \in S \/ ~ Fr(h, NextOf(h, x)))
    BY <2>1 DEF Loose
  <2>4. OwnFlags(g, x)
    BY <1>4, <2>1, <2>2, <2>3 DEF OwnFlags
  <2> QED
    BY <1>4, <2>1, <2>3, <2>4
<1>9. FreeOf(g) \ S = FreeOf(h) \ S
  BY <1>4, <1>5 DEF FreeOf
<1>10. Listed(g, FreeOf(g) \ S)
  <2>1. Listed(h, FreeOf(h) \ S)
    BY DEF Loose
  <2>2. \A x \in FreeOf(h) \ S : Sz(g, x) = Sz(h, x)
    BY <1>5 DEF FreeOf
  <2> QED
    BY <1>5, <1>9, <2>1, <2>2, ListedStays
<1>11. S \subseteq {x \in Heads(g) : Sz(g, x) # 0}
  BY <1>5 DEF Loose
<1>12. Loose(g, P, S)
  BY <1>5, <1>6, <1>7, <1>8, <1>10, <1>11 DEF Loose
<1>13. OwnFlags(g, b) /\ Fr(g, b)
  BY <1>1, <1>2, <1>3, <1>4, <1>5 DEF OwnFlags
<1> QED
  BY <1>2, <1>4, <1>5, <1>12, <1>13

(* Two heaps with the same headers.                                        *)
SameHeaders(h, g) ==
  /\ Heads(g) = Heads(h) /\ Sizes(g) = Sizes(h) /\ FreeOf(g) = FreeOf(h) /\ UsedOf(g) = UsedOf(h)
  /\ \A x : /\ Sz(g, x) = Sz(h, x) /\ (Fr(g, x) <=> Fr(h, x)) /\ (Pf(g, x) <=> Pf(h, x)) /\ Pp(g, x) = Pp(h, x)
            /\ NextOf(g, x) = NextOf(h, x)

LEMMA SameBlocks == ASSUME NEW h, NEW g, g.blk = h.blk PROVE SameHeaders(h, g)
BY DEF SameHeaders, Heads, Sizes, FreeOf, UsedOf, Sz, Fr, Pf, Pp, NextOf, OwnFlags

LEMMA LooseRemove ==
  ASSUME NEW P, Fitting(P), NEW S, NEW h, Loose(h, P, S), NEW b \in FreeOf(h) \ S,
         NEW c, c = mapping_insert(Sz(h, b)), NEW g, g = RemoveFree(h, b, c)
  PROVE  Loose(g, P, S \cup {b}) /\ SameHeaders(h, g)
<1>1. IsHeap(h) /\ Tiled(Sizes(h), P) /\ b \in Heads(h) /\ Sz(h, b) # 0 /\ Listed(h, FreeOf(h) \ S)
  BY DEF Loose, FreeOf
<1>2. c \in Classes
  BY <1>1, BlockIs
<1>3. IsHeap(g) /\ g.blk = h.blk /\ Listed(g, (FreeOf(h) \ S) \ {b})
  BY <1>1, <1>2, RemoveFreeIs
<1>4. SameHeaders(h, g)
  BY <1>3, SameBlocks
<1>5. (FreeOf(h) \ S) \ {b} = FreeOf(g) \ (S \cup {b})
  BY <1>4 DEF SameHeaders
<1>6. ASSUME NEW x \in Heads(g) \ (S \cup {b}), Sz(g, x) # 0
      PROVE  OwnFlags(g, x) /\ (Fr(g, x) => NextOf(g, x) \in S \cup {b} \/ ~ Fr(g, NextOf(g, x)))
  <2>1. x \in Heads(h) \ S /\ Sz(h, x) # 0
    BY <1>4, <1>6 DEF SameHeaders
  <2>2. OwnFlags(h, x) /\ (Fr(h, x) => NextOf(h, x) \in S \/ ~ Fr(h, NextOf(h, x)))
    BY <2>1 DEF Loose
  <2> QED
    BY <1>4, <2>2 DEF SameHeaders, OwnFlags
<1>7. Loose(g, P, S \cup {b})
  BY <1>1, <1>3, <1>4, <1>5, <1>6 DEF Loose, SameHeaders
<1> QED
  BY <1>4, <1>7

LEMMA LooseBlockRemove ==
  ASSUME NEW P, Fitting(P), NEW S, NEW h, Loose(h, P, S), NEW b \in FreeOf(h) \ S, NEW g, g = BlockRemove(h, b)
  PROVE  Loose(g, P, S \cup {b}) /\ SameHeaders(h, g)
<1>1. PICK c : c = mapping_insert(Sz(h, b))
  OBVIOUS
<1>2. g = RemoveFree(h, b, c)
  BY <1>1 DEF BlockRemove, Sz
<1> QED
  BY <1>1, <1>2, LooseRemove

LEMMA LooseInsert ==
  ASSUME NEW P, Fitting(P), NEW S, NEW h, Loose(h, P, S), NEW b \in S, Fr(h, b), OwnFlags(h, b),
         NextOf(h, b) \in S \ {b} \/ ~ Fr(h, NextOf(h, b)),
         \A y \in Heads(h) : Sz(h, y) # 0 /\ NextOf(h, y) = b => y \in S \ {b} \/ ~ Fr(h, y),
         NEW g, g = BlockInsert(h, b)
  PROVE  Loose(g, P, S \ {b}) /\ SameHeaders(h, g)
<1>1. IsHeap(h) /\ Tiled(Sizes(h), P) /\ b \in Heads(h) /\ Sz(h, b) # 0 /\ Listed(h, FreeOf(h) \ S)
  BY DEF Loose
<1>2. PICK c : c = mapping_insert(Sz(h, b))
  OBVIOUS
<1>3. c \in Classes /\ b \in Int /\ b \notin FreeOf(h) \ S
  BY <1>1, <1>2, BlockIs
<1>4. g = InsertFree(h, b, c)
  BY <1>2 DEF BlockInsert, Sz
<1>5. IsHeap(g) /\ g.blk = h.blk /\ Listed(g, (FreeOf(h) \ S) \cup {b})
  BY <1>1, <1>2, <1>3, <1>4, InsertFreeIs
<1>6. SameHeaders(h, g)
  BY <1>5, SameBlocks
<1>7. (FreeOf(h) \ S) \cup {b} = FreeOf(g) \ (S \ {b})
  BY <1>1, <1>6 DEF SameHeaders, FreeOf
<1>8. ASSUME NEW x \in Heads(g) \ (S \ {b}), Sz(g, x) # 0
      PROVE  OwnFlags(g, x) /\ (Fr(g, x) => NextOf(g, x) \in S \ {b} \/ ~ Fr(g, NextOf(g, x)))
  <2>1. x \in Heads(h) /\ Sz(h, x) # 0 /\ NextOf(g, x) = NextOf(h, x)
    BY <1>6, <1>8 DEF SameHeaders
  <2>2. CASE x = b
    BY <1>6, <2>2 DEF SameHeaders, OwnFlags
  <2>3. CASE x # b
    <3>1. OwnFlags(h, x) /\ (Fr(h, x) => NextOf(h, x) \in S \/ ~ Fr(h, NextOf(h, x)))
      BY <1>8, <2>1, <2>3 DEF Loose
    <3>2. Fr(h, x) => NextOf(h, x) # b
      BY <1>8, <2>1, <2>3
    <3>3. OwnFlags(g, x)
      BY <1>6, <3>1 DEF SameHeaders, OwnFlags
    <3> QED
      BY <1>6, <2>1, <3>1, <3>2, <3>3 DEF SameHeaders
  <2> QED
    BY <2>2, <2>3
<1>9. Loose(g, P, S \ {b})
  BY <1>1, <1>5, <1>6, <1>7, <1>8 DEF Loose, SameHeaders
<1> QED
  BY <1>6, <1>9

LEMMA SizesFrom == ASSUME NEW k, NEW B, k.blk = B PROVE Sizes(k) = [x \in DOMAIN B |-> B[x].size]
BY DEF Sizes

(* The header that a split writes.                                         *)
BlankHeader(size) == [size |-> size, free |-> FALSE, prevFree |-> FALSE, prevPhys |-> Null]
Halves(h, b, s) ==
  [h EXCEPT !.blk = [x \in DOMAIN @ \cup {Rest(b, s)} |->
     IF x = Rest(b, s) THEN BlankHeader(Sz(h, b) - (s + Overhead))
     ELSE IF x = b THEN [@[b] EXCEPT !.size = s] ELSE @[x]]]

LEMMA NewHeader ==
  ASSUME NEW P, Fitting(P), NEW h, IsHeap(h), Tiled(Sizes(h), P), NEW b \in Heads(h), Sz(h, b) # 0,
         NEW s \in Nat, Aligned(s), s >= 3 * ALIGN_SIZE, Sz(h, b) >= 4 * ALIGN_SIZE + s,
         NEW r, r = Rest(b, s), NEW k, k = Halves(h, b, s)
  PROVE  /\ IsHeap(k) /\ SameLists(h, k) /\ Heads(k) = Heads(h) \cup {r} /\ Tiled(Sizes(k), P)
         /\ r \notin Heads(h) /\ r \in Nat
         /\ NextOf(k, b) = r /\ NextOf(k, r) = NextOf(h, b)
         /\ Sz(k, b) = s /\ Sz(k, r) = Sz(h, b) - (s + ALIGN_SIZE) /\ Sz(k, r) # 0 /\ Sz(k, b) # 0
         /\ \A x \in Heads(h) : /\ x # b => Sz(k, x) = Sz(h, x) /\ NextOf(k, x) = NextOf(h, x)
                                /\ (Fr(k, x) <=> Fr(h, x)) /\ (Pf(k, x) <=> Pf(h, x)) /\ Pp(k, x) = Pp(h, x)
<1>1. PICK W \in Nat \ {0} : W = ALIGN_SIZE /\ W = Overhead
  BY ConstantsAre
<1>2. PICK z : z = Sizes(h)
  OBVIOUS
<1>3. DOMAIN z = Heads(h) /\ \A x \in Heads(h) : z[x] = Sz(h, x) /\ NextOf(h, x) = After(z, x) /\ z[x] \in Nat
  BY <1>2, HeaderIs
<1>4. /\ Tiled(Cut(z, b, s), P) /\ r \notin DOMAIN z /\ r \in Nat
      /\ After(Cut(z, b, s), b) = r /\ After(Cut(z, b, s), r) = After(z, b)
  <2>1. b \in DOMAIN z /\ z[b] # 0 /\ z[b] >= 4 * ALIGN_SIZE + s
    BY <1>3
  <2>2. Tiled(z, P)
    BY <1>2
  <2> QED
    BY <2>1, <2>2, CutTiles
<1>0. PICK new : new = BlankHeader(Sz(h, b) - (s + Overhead))
  OBVIOUS
<1>5. PICK B : B = [x \in DOMAIN h.blk \cup {r} |->
                      IF x = r THEN new ELSE IF x = b THEN [h.blk[b] EXCEPT !.size = s] ELSE h.blk[x]]
  OBVIOUS
<1>6. k = [h EXCEPT !.blk = B]
  BY <1>0, <1>5 DEF Halves
<1>7. b \in Nat /\ b # r /\ b \in DOMAIN h.blk /\ r \notin DOMAIN h.blk
  BY <1>3, <1>4 DEF IsHeap, Heads
<1>8. /\ new \in Header /\ new.size = z[b] - (s + W) /\ new.size # 0
  <2>1. z[b] - (s + W) \in Nat /\ z[b] - (s + W) # 0
    BY <1>1, <1>3
  <2>2. z[b] = Sz(h, b) /\ Null \in Int
    BY <1>3 DEF Null
  <2> QED
    BY <1>0, <1>1, <2>1, <2>2 DEF Header, BlankHeader
<1>9. PICK R : R = [h.blk[b] EXCEPT !.size = s]
  OBVIOUS
<1>10. /\ R \in Header /\ R.size = s /\ R.free = h.blk[b].free /\ R.prevFree = h.blk[b].prevFree
       /\ R.prevPhys = h.blk[b].prevPhys
  <2>1. h.blk[b] \in Header
    BY <1>7 DEF IsHeap
  <2> QED
    BY <1>9, <2>1 DEF Header
<1>11. /\ DOMAIN B = DOMAIN h.blk \cup {r} /\ B[r] = new /\ B[b] = R
       /\ \A x \in DOMAIN h.blk : x # b => B[x] = h.blk[x]
  BY <1>5, <1>7, <1>9
<1>12. B \in [DOMAIN B -> Header] /\ DOMAIN B \subseteq Nat
  <2>1. \A x \in DOMAIN h.blk : h.blk[x] \in Header /\ x \in Nat
    BY DEF IsHeap
  <2>2. \A x \in DOMAIN B : B[x] \in Header /\ x \in Nat
    BY <1>4, <1>8, <1>10, <1>11, <2>1
  <2>3. B = [x \in DOMAIN B |-> B[x]]
    BY <1>5
  <2> QED
    BY <2>2, <2>3
<1>13. IsHeap(k) /\ k.blk = B /\ SameLists(h, k)
  BY <1>6, <1>12, HeadersChange
<1>14. Heads(k) = Heads(h) \cup {r}
  BY <1>11, <1>13 DEF Heads
<1>15. Sizes(k) = Cut(z, b, s)
  <2>1. \A x \in Heads(h) : x # b => B[x].size = z[x]
    BY <1>3, <1>11 DEF Heads, Sz
  <2>2. Sizes(k) = [x \in Heads(h) \cup {r} |-> B[x].size]
    <3>1. Sizes(k) = [x \in DOMAIN B |-> B[x].size]
      BY <1>13, SizesFrom
    <3>2. DOMAIN B = Heads(h) \cup {r}
      BY <1>11 DEF Heads
    <3> QED
      BY <3>1, <3>2
  <2>3. Cut(z, b, s) = [x \in Heads(h) \cup {r} |-> IF x = r THEN z[b] - (s + W) ELSE IF x = b THEN s ELSE z[x]]
    BY <1>1, <1>3 DEF Cut
  <2>4. \A x \in Heads(h) \cup {r} : B[x].size = IF x = r THEN z[b] - (s + W) ELSE IF x = b THEN s ELSE z[x]
    BY <1>8, <1>10, <1>11, <2>1
  <2> QED
    BY <2>2, <2>3, <2>4
<1>16. /\ Sz(k, b) = s /\ Sz(k, r) = Sz(h, b) - (s + ALIGN_SIZE) /\ Sz(k, r) # 0 /\ Sz(k, b) # 0
  <2>1. k.blk[b] = R /\ k.blk[r] = new
    BY <1>11, <1>13
  <2>2. Sz(k, b) = s /\ Sz(k, r) = z[b] - (s + W) /\ Sz(k, r) # 0
    BY <1>8, <1>10, <2>1 DEF Sz
  <2>3. s # 0
    BY <1>1
  <2> QED
    BY <1>1, <1>3, <2>2, <2>3
<1>17. \A x \in Heads(h) : /\ x # b => Sz(k, x) = Sz(h, x) /\ NextOf(k, x) = NextOf(h, x)
                           /\ (Fr(k, x) <=> Fr(h, x)) /\ (Pf(k, x) <=> Pf(h, x)) /\ Pp(k, x) = Pp(h, x)
  BY <1>10, <1>11, <1>13 DEF Sz, Fr, Pf, Pp, Heads, NextOf
<1>18. NextOf(k, b) = r /\ NextOf(k, r) = NextOf(h, b)
  <2>1. NextOf(k, b) = After(Sizes(k), b) /\ NextOf(k, r) = After(Sizes(k), r)
    BY <1>13, <1>14, HeaderIs
  <2> QED
    BY <1>3, <1>4, <1>15, <2>1
<1> QED
  BY <1>3, <1>4, <1>13, <1>14, <1>15, <1>16, <1>17, <1>18

CanCut(h, b, s) == s \in Nat /\ Aligned(s) /\ s >= 3 * ALIGN_SIZE /\ Sz(h, b) >= 4 * ALIGN_SIZE + s

LEMMA LooseSplit ==
  ASSUME NEW P, Fitting(P), NEW S, NEW h, Loose(h, P, S), NEW b \in S, NEW s, CanCut(h, b, s),
         NEW r, r = Rest(b, s), NEW g, g = Split(h, b, s)
  PROVE  /\ Loose(g, P, S \cup {r}) /\ Heads(g) = Heads(h) \cup {r} /\ r \notin Heads(h)
         /\ r \in Nat /\ r = b + ALIGN_SIZE + s
         /\ NextOf(g, b) = r /\ NextOf(g, r) = NextOf(h, b) /\ r # b
         /\ Sz(g, b) = s /\ Sz(g, r) = Sz(h, b) - (s + ALIGN_SIZE)
         /\ Fr(g, r) /\ OwnFlags(g, r)
         /\ \A x \in Heads(h) : /\ x # b => Sz(g, x) = Sz(h, x) /\ NextOf(g, x) = NextOf(h, x)
                                /\ (Fr(g, x) <=> Fr(h, x))
                                /\ x # NextOf(h, b) => (Pf(g, x) <=> Pf(h, x)) /\ Pp(g, x) = Pp(h, x)
<1>1. IsHeap(h) /\ Tiled(Sizes(h), P) /\ b \in Heads(h) /\ Sz(h, b) # 0
  BY DEF Loose
<1>2. PICK n, k : n = NextOf(h, b) /\ k = Halves(h, b, s)
  OBVIOUS
<1>3. g = MarkFree(k, r)
  BY <1>2 DEF Split, Halves, BlankHeader, Sz
<1>4. /\ IsHeap(k) /\ SameLists(h, k) /\ Heads(k) = Heads(h) \cup {r} /\ Tiled(Sizes(k), P)
      /\ r \notin Heads(h) /\ r \in Nat
      /\ NextOf(k, b) = r /\ NextOf(k, r) = NextOf(h, b)
      /\ Sz(k, b) = s /\ Sz(k, r) = Sz(h, b) - (s + ALIGN_SIZE) /\ Sz(k, r) # 0 /\ Sz(k, b) # 0
      /\ \A x \in Heads(h) : /\ x # b => Sz(k, x) = Sz(h, x) /\ NextOf(k, x) = NextOf(h, x)
                             /\ (Fr(k, x) <=> Fr(h, x)) /\ (Pf(k, x) <=> Pf(h, x)) /\ Pp(k, x) = Pp(h, x)
  <2>1. s \in Nat /\ Aligned(s) /\ s >= 3 * ALIGN_SIZE /\ Sz(h, b) >= 4 * ALIGN_SIZE + s
    BY DEF CanCut
  <2> QED
    BY <1>1, <1>2, <2>1, NewHeader
<1>5. /\ n \in Heads(h) /\ n # b /\ n # r /\ \A p \in P : n # FirstBlock(p)
      /\ \A y \in Heads(h) : Sz(h, y) # 0 /\ NextOf(h, y) = n => y = b
  BY <1>1, <1>2, <1>4, BlockIs
<1>6. /\ SameRest(k, g)
      /\ \A x \in Heads(k) : /\ Fr(g, x) <=> x = r \/ Fr(k, x)
                             /\ Pf(g, x) <=> x = n \/ Pf(k, x)
                             /\ Pp(g, x) = IF x = n THEN r ELSE Pp(k, x)
  <2>1. IsHeap(k) /\ r \in Heads(k) /\ n \in Heads(k) /\ n = NextOf(k, r)
    BY <1>2, <1>4, <1>5
  <2> QED
    BY <1>3, <2>1, MarkFreeIs
<1>7. /\ IsHeap(g) /\ SameLists(k, g) /\ Heads(g) = Heads(k) /\ Tiled(Sizes(g), P)
      /\ \A x \in Heads(k) : Sz(g, x) = Sz(k, x) /\ NextOf(g, x) = NextOf(k, x)
  BY <1>4, <1>6, SameNext DEF SameRest
<1>8. \A x \in Heads(h) : /\ x # b => Sz(g, x) = Sz(h, x) /\ NextOf(g, x) = NextOf(h, x)
                          /\ (Fr(g, x) <=> Fr(h, x))
                          /\ x # n => (Pf(g, x) <=> Pf(h, x)) /\ Pp(g, x) = Pp(h, x)
  BY <1>4, <1>6, <1>7
<1>9. /\ Fr(g, r) /\ OwnFlags(g, r) /\ NextOf(g, b) = r /\ NextOf(g, r) = n
      /\ Sz(g, b) = s /\ Sz(g, r) = Sz(h, b) - (s + ALIGN_SIZE) /\ Sz(g, r) # 0 /\ Sz(g, b) # 0
  BY <1>1, <1>2, <1>4, <1>5, <1>6, <1>7 DEF OwnFlags
<1>10. \A x \in Heads(g) : Sz(g, x) = 0 => ~ Fr(g, x)
  BY <1>4, <1>7, <1>8, <1>9 DEF Loose
<1>11. \A p \in P : ~ Pf(g, FirstBlock(p))
  BY <1>1, <1>5, <1>8, FirstIsHead DEF Loose
<1>12. ASSUME NEW x \in Heads(g) \ (S \cup {r}), Sz(g, x) # 0
       PROVE  OwnFlags(g, x) /\ (Fr(g, x) => NextOf(g, x) \in S \cup {r} \/ ~ Fr(g, NextOf(g, x)))
  <2>1. x \in Heads(h) \ S /\ x # b /\ Sz(h, x) # 0 /\ NextOf(g, x) = NextOf(h, x)
    BY <1>4, <1>7, <1>8, <1>12
  <2>2. NextOf(h, x) \in Heads(h) /\ NextOf(h, x) # n
    BY <1>1, <1>5, <2>1, BlockIs
  <2>3. OwnFlags(h, x) /\ (Fr(h, x) => NextOf(h, x) \in S \/ ~ Fr(h, NextOf(h, x)))
    BY <2>1 DEF Loose
  <2>4. OwnFlags(g, x)
    BY <1>8, <2>1, <2>2, <2>3 DEF OwnFlags
  <2> QED
    BY <1>8, <2>1, <2>2, <2>3, <2>4
<1>13. FreeOf(g) \ (S \cup {r}) = FreeOf(h) \ S
  <2>1. ASSUME NEW x PROVE x \in FreeOf(g) \ (S \cup {r}) <=> x \in FreeOf(h) \ S
    <3>1. CASE x = b \/ x = r
      BY <1>4, <3>1 DEF FreeOf
    <3>2. CASE x # b /\ x # r
      BY <1>4, <1>7, <1>8, <3>2 DEF FreeOf
    <3> QED
      BY <3>1, <3>2
  <2> QED
    BY <2>1
<1>14. Listed(g, FreeOf(g) \ (S \cup {r}))
  <2>1. Listed(h, FreeOf(h) \ S)
    BY DEF Loose
  <2>2. \A x \in FreeOf(h) \ S : Sz(g, x) = Sz(h, x)
    BY <1>8 DEF FreeOf
  <2>3. SameLists(h, g)
    BY <1>4, <1>7 DEF SameLists
  <2> QED
    BY <1>13, <2>1, <2>2, <2>3, ListedStays
<1>15. S \cup {r} \subseteq {x \in Heads(g) : Sz(g, x) # 0}
  <2>1. \A x \in S : x \in Heads(h) /\ Sz(h, x) # 0
    BY DEF Loose
  <2>2. \A x \in S : x \in Heads(g) /\ Sz(g, x) # 0
    BY <1>4, <1>7, <1>8, <1>9, <2>1
  <2> QED
    BY <1>4, <1>7, <1>9, <2>2
<1>16. Loose(g, P, S \cup {r})
  BY <1>7, <1>10, <1>11, <1>12, <1>14, <1>15 DEF Loose
<1>17. r = b + ALIGN_SIZE + s
  BY ConstantsAre DEF Rest
<1> QED
  BY <1>2, <1>4, <1>5, <1>7, <1>8, <1>9, <1>16, <1>17

(* The back pointer and the flag of the block after one in hand are free.  *)
LEMMA LooseLink ==
  ASSUME NEW P, Fitting(P), NEW S, NEW h, Loose(h, P, S), NEW b \in S, NEW g, g = LinkNext(h, b)
  PROVE  /\ Loose(g, P, S) /\ SameRest(h, g)
         /\ \A x \in Heads(h) : /\ Sz(g, x) = Sz(h, x) /\ NextOf(g, x) = NextOf(h, x)
                                /\ Fr(g, x) <=> Fr(h, x)
                                /\ Pf(g, x) <=> Pf(h, x)
                                /\ Pp(g, x) = IF x = NextOf(h, b) THEN b ELSE Pp(h, x)
<1>1. IsHeap(h) /\ Tiled(Sizes(h), P) /\ b \in Heads(h) /\ Sz(h, b) # 0
  BY DEF Loose
<1>2. PICK n : n = NextOf(h, b)
  OBVIOUS
<1>3. /\ n \in Heads(h) /\ \A y \in Heads(h) : Sz(h, y) # 0 /\ NextOf(h, y) = n => y = b
  BY <1>1, <1>2, BlockIs
<1>4. /\ SameRest(h, g)
      /\ \A x \in Heads(h) : /\ Fr(g, x) <=> Fr(h, x)
                             /\ Pf(g, x) <=> Pf(h, x)
                             /\ Pp(g, x) = IF x = n THEN b ELSE Pp(h, x)
  BY <1>1, <1>2, <1>3, LinkNextIs
<1>5. /\ IsHeap(g) /\ SameLists(h, g) /\ Heads(g) = Heads(h) /\ Tiled(Sizes(g), P)
      /\ \A x \in Heads(h) : Sz(g, x) = Sz(h, x) /\ NextOf(g, x) = NextOf(h, x)
  BY <1>1, <1>4, SameNext DEF SameRest
<1>6. ASSUME NEW x \in Heads(g) \ S, Sz(g, x) # 0
      PROVE  OwnFlags(g, x) /\ (Fr(g, x) => NextOf(g, x) \in S \/ ~ Fr(g, NextOf(g, x)))
  <2>1. x \in Heads(h) \ S /\ Sz(h, x) # 0 /\ NextOf(g, x) = NextOf(h, x) /\ NextOf(h, x) \in Heads(h) /\ x # b
    BY <1>1, <1>5, <1>6, BlockIs
  <2>2. OwnFlags(h, x) /\ (Fr(h, x) => NextOf(h, x) \in S \/ ~ Fr(h, NextOf(h, x)))
    BY <2>1 DEF Loose
  <2> QED
    BY <1>3, <1>4, <2>1, <2>2 DEF OwnFlags
<1>7. FreeOf(g) \ S = FreeOf(h) \ S /\ \A x \in FreeOf(h) \ S : Sz(g, x) = Sz(h, x)
  BY <1>4, <1>5 DEF FreeOf
<1>8. Listed(g, FreeOf(g) \ S)
  BY <1>5, <1>7, ListedStays DEF Loose
<1>9. Loose(g, P, S)
  <2>1. \A x \in Heads(g) : Sz(g, x) = 0 => ~ Fr(g, x)
    BY <1>4, <1>5 DEF Loose
  <2>2. \A p \in P : ~ Pf(g, FirstBlock(p))
    BY <1>1, <1>4, FirstIsHead DEF Loose
  <2>3. S \subseteq {x \in Heads(g) : Sz(g, x) # 0}
    BY <1>5 DEF Loose
  <2> QED
    BY <1>5, <1>6, <1>8, <2>1, <2>2, <2>3 DEF Loose
<1> QED
  BY <1>2, <1>4, <1>5, <1>9

(* A change of the flag prevFree after a block in hand.                    *)
LEMMA LoosePrev ==
  ASSUME NEW P, Fitting(P), NEW S, NEW h, Loose(h, P, S), NEW b \in S, NEW n, n = NextOf(h, b), NEW g,
         SameRest(h, g),
         \A x \in Heads(h) : (Fr(g, x) <=> Fr(h, x)) /\ Pp(g, x) = Pp(h, x) /\ (x # n => (Pf(g, x) <=> Pf(h, x)))
  PROVE  /\ Loose(g, P, S)
         /\ \A x \in Heads(h) : Sz(g, x) = Sz(h, x) /\ NextOf(g, x) = NextOf(h, x)
<1>1. IsHeap(h) /\ Tiled(Sizes(h), P) /\ b \in Heads(h) /\ Sz(h, b) # 0
  BY DEF Loose
<1>3. /\ n \in Heads(h) /\ \A y \in Heads(h) : Sz(h, y) # 0 /\ NextOf(h, y) = n => y = b
      /\ \A p \in P : n # FirstBlock(p)
  BY <1>1, BlockIs
<1>5. /\ IsHeap(g) /\ SameLists(h, g) /\ Heads(g) = Heads(h) /\ Tiled(Sizes(g), P)
      /\ \A x \in Heads(h) : Sz(g, x) = Sz(h, x) /\ NextOf(g, x) = NextOf(h, x)
  BY <1>1, SameNext DEF SameRest
<1>6. ASSUME NEW x \in Heads(g) \ S, Sz(g, x) # 0
      PROVE  OwnFlags(g, x) /\ (Fr(g, x) => NextOf(g, x) \in S \/ ~ Fr(g, NextOf(g, x)))
  <2>1. x \in Heads(h) \ S /\ Sz(h, x) # 0 /\ NextOf(g, x) = NextOf(h, x) /\ NextOf(h, x) \in Heads(h) /\ x # b
    BY <1>1, <1>5, <1>6, BlockIs
  <2>2. OwnFlags(h, x) /\ (Fr(h, x) => NextOf(h, x) \in S \/ ~ Fr(h, NextOf(h, x)))
    BY <2>1 DEF Loose
  <2> QED
    BY <1>3, <2>1, <2>2 DEF OwnFlags
<1>7. FreeOf(g) \ S = FreeOf(h) \ S /\ \A x \in FreeOf(h) \ S : Sz(g, x) = Sz(h, x)
  BY <1>5 DEF FreeOf
<1>8. Listed(g, FreeOf(g) \ S)
  BY <1>5, <1>7, ListedStays DEF Loose
<1>9. Loose(g, P, S)
  <2>1. \A x \in Heads(g) : Sz(g, x) = 0 => ~ Fr(g, x)
    BY <1>5 DEF Loose
  <2>2. \A p \in P : ~ Pf(g, FirstBlock(p))
    BY <1>1, <1>3, FirstIsHead DEF Loose
  <2>3. S \subseteq {x \in Heads(g) : Sz(g, x) # 0}
    BY <1>5 DEF Loose
  <2> QED
    BY <1>5, <1>6, <1>8, <2>1, <2>2, <2>3 DEF Loose
<1> QED
  BY <1>5, <1>9

LEMMA SetPrevFreeIs ==
  ASSUME NEW h, NEW n
  PROVE  SetPrevFree(h, n, TRUE) = PrevFreeSet(h, n) /\ SetPrevFree(h, n, FALSE) = PrevFreeCleared(h, n)
BY Zenon DEF SetPrevFree, PrevFreeSet, PrevFreeCleared

LEMMA LoosePrevTrue ==
  ASSUME NEW P, Fitting(P), NEW S, NEW h, Loose(h, P, S), NEW b \in S, NEW n, n = NextOf(h, b),
         NEW g, g = PrevFreeSet(h, n)
  PROVE  /\ Loose(g, P, S) /\ SameRest(h, g)
         /\ \A x \in Heads(h) : /\ Sz(g, x) = Sz(h, x) /\ NextOf(g, x) = NextOf(h, x)
                                /\ Fr(g, x) <=> Fr(h, x)
                                /\ Pp(g, x) = Pp(h, x)
                                /\ Pf(g, x) <=> x = n \/ Pf(h, x)
<1>2. IsHeap(h) /\ n \in Heads(h)
  BY BlockIs DEF Loose
<1>3. /\ SameRest(h, g)
      /\ \A x \in Heads(h) : (Fr(g, x) <=> Fr(h, x)) /\ Pp(g, x) = Pp(h, x) /\ (Pf(g, x) <=> x = n \/ Pf(h, x))
  BY <1>2, SetsPrevFree DEF SameRest
<1>4. \A x \in Heads(h) : (Fr(g, x) <=> Fr(h, x)) /\ Pp(g, x) = Pp(h, x) /\ (x # n => (Pf(g, x) <=> Pf(h, x)))
  BY <1>3
<1>5. Loose(g, P, S) /\ \A x \in Heads(h) : Sz(g, x) = Sz(h, x) /\ NextOf(g, x) = NextOf(h, x)
  BY <1>3, <1>4, LoosePrev
<1> QED
  BY <1>3, <1>5

LEMMA LoosePrevFalse ==
  ASSUME NEW P, Fitting(P), NEW S, NEW h, Loose(h, P, S), NEW b \in S, NEW n, n = NextOf(h, b),
         NEW g, g = PrevFreeCleared(h, n)
  PROVE  /\ Loose(g, P, S) /\ SameRest(h, g)
         /\ \A x \in Heads(h) : /\ Sz(g, x) = Sz(h, x) /\ NextOf(g, x) = NextOf(h, x)
                                /\ Fr(g, x) <=> Fr(h, x)
                                /\ Pp(g, x) = Pp(h, x)
                                /\ Pf(g, x) <=> x # n /\ Pf(h, x)
<1>2. IsHeap(h) /\ n \in Heads(h)
  BY BlockIs DEF Loose
<1>3. /\ SameRest(h, g)
      /\ \A x \in Heads(h) : (Fr(g, x) <=> Fr(h, x)) /\ Pp(g, x) = Pp(h, x) /\ (Pf(g, x) <=> x # n /\ Pf(h, x))
  BY <1>2, ClearsPrevFree DEF SameRest
<1>4. \A x \in Heads(h) : (Fr(g, x) <=> Fr(h, x)) /\ Pp(g, x) = Pp(h, x) /\ (x # n => (Pf(g, x) <=> Pf(h, x)))
  BY <1>3
<1>5. Loose(g, P, S) /\ \A x \in Heads(h) : Sz(g, x) = Sz(h, x) /\ NextOf(g, x) = NextOf(h, x)
  BY <1>3, <1>4, LoosePrev
<1> QED
  BY <1>3, <1>5

(* The headers that an absorption leaves.                                  *)
Merged(h, a, b) ==
  [h EXCEPT !.blk = [x \in DOMAIN @ \ {b} |->
     IF x = a THEN [@[a] EXCEPT !.size = h.blk[a].size + h.blk[b].size + Overhead] ELSE @[x]]]

LEMMA OldHeader ==
  ASSUME NEW P, Fitting(P), NEW h, IsHeap(h), Tiled(Sizes(h), P), NEW a \in Heads(h), Sz(h, a) # 0,
         NEW b \in Heads(h), Sz(h, b) # 0, NextOf(h, a) = b, NEW k, k = Merged(h, a, b)
  PROVE  /\ IsHeap(k) /\ SameLists(h, k) /\ Heads(k) = Heads(h) \ {b} /\ Tiled(Sizes(k), P)
         /\ a # b /\ NextOf(k, a) = NextOf(h, b) /\ Sz(k, a) = Sz(h, a) + Sz(h, b) + ALIGN_SIZE
         /\ \A x \in Heads(h) \ {b} : /\ x # a => Sz(k, x) = Sz(h, x) /\ NextOf(k, x) = NextOf(h, x)
                                      /\ (Fr(k, x) <=> Fr(h, x)) /\ (Pf(k, x) <=> Pf(h, x)) /\ Pp(k, x) = Pp(h, x)
<1>1. PICK W \in Nat \ {0} : W = ALIGN_SIZE /\ W = Overhead
  BY ConstantsAre
<1>2. PICK z : z = Sizes(h)
  OBVIOUS
<1>3. DOMAIN z = Heads(h) /\ \A x \in Heads(h) : z[x] = Sz(h, x) /\ NextOf(h, x) = After(z, x) /\ z[x] \in Nat
  BY <1>2, HeaderIs
<1>4. Tiled(Joined(z, a, b), P) /\ a # b /\ After(Joined(z, a, b), a) = After(z, b)
  <2>1. a \in DOMAIN z /\ z[a] # 0 /\ b \in DOMAIN z /\ z[b] # 0 /\ After(z, a) = b /\ Tiled(z, P)
    BY <1>2, <1>3
  <2> QED
    BY <2>1, JoinTiles
<1>5. PICK R : R = [h.blk[a] EXCEPT !.size = h.blk[a].size + h.blk[b].size + Overhead]
  OBVIOUS
<1>6. PICK B : B = [x \in DOMAIN h.blk \ {b} |-> IF x = a THEN R ELSE h.blk[x]]
  OBVIOUS
<1>7. k = [h EXCEPT !.blk = B]
  BY <1>5, <1>6 DEF Merged
<1>8. a \in DOMAIN h.blk \ {b}
  BY <1>4 DEF Heads
<1>9. /\ R \in Header /\ R.size = z[a] + z[b] + W /\ R.free = h.blk[a].free /\ R.prevFree = h.blk[a].prevFree
      /\ R.prevPhys = h.blk[a].prevPhys
  <2>1. h.blk[a] \in Header
    BY <1>8 DEF IsHeap
  <2>2. h.blk[a].size = z[a] /\ h.blk[b].size = z[b] /\ z[a] + z[b] + W \in Nat
    BY <1>3 DEF Sz
  <2>3. R = [h.blk[a] EXCEPT !.size = z[a] + z[b] + W]
    BY <1>1, <1>5, <2>2
  <2> QED
    BY <2>1, <2>2, <2>3 DEF Header
<1>11. /\ DOMAIN B = DOMAIN h.blk \ {b} /\ B[a] = R
       /\ \A x \in DOMAIN h.blk \ {b} : x # a => B[x] = h.blk[x]
  BY <1>6, <1>8
<1>12. B \in [DOMAIN B -> Header] /\ DOMAIN B \subseteq Nat
  <2>1. \A x \in DOMAIN h.blk : h.blk[x] \in Header /\ x \in Nat
    BY DEF IsHeap
  <2>2. \A x \in DOMAIN B : B[x] \in Header /\ x \in Nat
    BY <1>9, <1>11, <2>1
  <2>3. B = [x \in DOMAIN B |-> B[x]]
    BY <1>6
  <2> QED
    BY <2>2, <2>3
<1>13. IsHeap(k) /\ k.blk = B /\ SameLists(h, k)
  BY <1>7, <1>12, HeadersChange
<1>14. Heads(k) = Heads(h) \ {b}
  BY <1>11, <1>13 DEF Heads
<1>15. Sizes(k) = Joined(z, a, b)
  <2>1. \A x \in Heads(h) \ {b} : x # a => B[x].size = z[x]
    BY <1>3, <1>11 DEF Heads, Sz
  <2>2. Sizes(k) = [x \in Heads(h) \ {b} |-> B[x].size]
    <3>1. Sizes(k) = [x \in DOMAIN B |-> B[x].size]
      BY <1>13, SizesFrom
    <3>2. DOMAIN B = Heads(h) \ {b}
      BY <1>11 DEF Heads
    <3> QED
      BY <3>1, <3>2
  <2>3. Joined(z, a, b) = [x \in Heads(h) \ {b} |-> IF x = a THEN z[a] + z[b] + W ELSE z[x]]
    BY <1>1, <1>3 DEF Joined
  <2>4. \A x \in Heads(h) \ {b} : B[x].size = IF x = a THEN z[a] + z[b] + W ELSE z[x]
    BY <1>9, <1>11, <2>1
  <2> QED
    BY <2>2, <2>3, <2>4
<1>16. Sz(k, a) = Sz(h, a) + Sz(h, b) + ALIGN_SIZE
  BY <1>1, <1>3, <1>9, <1>11, <1>13 DEF Sz
<1>17. \A x \in Heads(h) \ {b} : /\ x # a => Sz(k, x) = Sz(h, x) /\ NextOf(k, x) = NextOf(h, x)
                                 /\ (Fr(k, x) <=> Fr(h, x)) /\ (Pf(k, x) <=> Pf(h, x)) /\ Pp(k, x) = Pp(h, x)
  BY <1>9, <1>11, <1>13 DEF Sz, Fr, Pf, Pp, Heads, NextOf
<1>18. NextOf(k, a) = NextOf(h, b)
  <2>1. NextOf(k, a) = After(Sizes(k), a)
    BY <1>4, <1>13, <1>14, HeaderIs
  <2> QED
    BY <1>3, <1>4, <1>15, <2>1
<1> QED
  BY <1>4, <1>13, <1>14, <1>15, <1>16, <1>17, <1>18

LEMMA LooseAbsorb ==
  ASSUME NEW P, Fitting(P), NEW S, NEW h, Loose(h, P, S), NEW a \in S, NEW b \in S, NextOf(h, a) = b,
         NEW g, g = Absorb(h, a, b)
  PROVE  /\ Loose(g, P, S \ {b}) /\ Heads(g) = Heads(h) \ {b} /\ a # b
         /\ NextOf(g, a) = NextOf(h, b) /\ Sz(g, a) = Sz(h, a) + Sz(h, b) + ALIGN_SIZE
         /\ Pp(g, NextOf(h, b)) = a /\ NextOf(h, b) \in Heads(g) \ {a}
         /\ \A x \in Heads(g) : /\ x # a => Sz(g, x) = Sz(h, x) /\ NextOf(g, x) = NextOf(h, x)
                                /\ (Fr(g, x) <=> Fr(h, x)) /\ (Pf(g, x) <=> Pf(h, x))
                                /\ x # NextOf(h, b) => Pp(g, x) = Pp(h, x)
<1>1. /\ IsHeap(h) /\ Tiled(Sizes(h), P) /\ a \in Heads(h) /\ Sz(h, a) # 0 /\ b \in Heads(h) /\ Sz(h, b) # 0
  BY DEF Loose
<1>2. PICK n, k : n = NextOf(h, b) /\ k = Merged(h, a, b)
  OBVIOUS
<1>3. g = LinkNext(k, a)
  BY <1>2 DEF Absorb, Merged
<1>4. /\ IsHeap(k) /\ SameLists(h, k) /\ Heads(k) = Heads(h) \ {b} /\ Tiled(Sizes(k), P)
      /\ a # b /\ NextOf(k, a) = NextOf(h, b) /\ Sz(k, a) = Sz(h, a) + Sz(h, b) + ALIGN_SIZE
      /\ \A x \in Heads(h) \ {b} : /\ x # a => Sz(k, x) = Sz(h, x) /\ NextOf(k, x) = NextOf(h, x)
                                   /\ (Fr(k, x) <=> Fr(h, x)) /\ (Pf(k, x) <=> Pf(h, x)) /\ Pp(k, x) = Pp(h, x)
  BY <1>1, <1>2, OldHeader
<1>5. /\ n \in Heads(h) /\ n \in Nat /\ n > b /\ \A p \in P : n # FirstBlock(p)
      /\ \A y \in Heads(h) : Sz(h, y) # 0 /\ NextOf(h, y) = n => y = b
      /\ a \in Nat /\ b \in Nat /\ b > a /\ Sz(h, a) \in Nat /\ Sz(h, b) \in Nat
      /\ \A p \in P : b # FirstBlock(p)
      /\ \A y \in Heads(h) : Sz(h, y) # 0 /\ NextOf(h, y) = b => y = a
  BY <1>1, <1>2, BlockIs
<1>6. n \in Heads(k) /\ a \in Heads(k) /\ n # a /\ Sz(k, a) # 0
  BY <1>1, <1>4, <1>5, ConstantsAre
<1>7. /\ SameRest(k, g)
      /\ \A x \in Heads(k) : /\ Fr(g, x) <=> Fr(k, x)
                             /\ Pf(g, x) <=> Pf(k, x)
                             /\ Pp(g, x) = IF x = n THEN a ELSE Pp(k, x)
  <2>1. n = NextOf(k, a)
    BY <1>2, <1>4
  <2> QED
    BY <1>3, <1>4, <1>6, <2>1, LinkNextIs
<1>8. /\ IsHeap(g) /\ SameLists(k, g) /\ Heads(g) = Heads(k) /\ Tiled(Sizes(g), P)
      /\ \A x \in Heads(k) : Sz(g, x) = Sz(k, x) /\ NextOf(g, x) = NextOf(k, x)
  BY <1>4, <1>7, SameNext DEF SameRest
<1>9. \A x \in Heads(g) : /\ x \in Heads(h) /\ x # b
                          /\ x # a => Sz(g, x) = Sz(h, x) /\ NextOf(g, x) = NextOf(h, x)
                          /\ (Fr(g, x) <=> Fr(h, x)) /\ (Pf(g, x) <=> Pf(h, x))
                          /\ x # n => Pp(g, x) = Pp(h, x)
  BY <1>4, <1>7, <1>8
<1>10. /\ NextOf(g, a) = n /\ Sz(g, a) = Sz(h, a) + Sz(h, b) + ALIGN_SIZE /\ Sz(g, a) # 0 /\ Pp(g, n) = a
  BY <1>2, <1>4, <1>6, <1>7, <1>8
<1>11. \A x \in Heads(g) : Sz(g, x) = 0 => ~ Fr(g, x)
  BY <1>9, <1>10 DEF Loose
<1>12. \A p \in P : ~ Pf(g, FirstBlock(p))
  <2>1. TAKE p \in P
  <2>2. FirstBlock(p) \in Heads(h) /\ FirstBlock(p) # b
    BY <1>1, <1>5, FirstIsHead
  <2>3. FirstBlock(p) \in Heads(g)
    BY <1>4, <1>8, <2>2
  <2> QED
    BY <1>9, <2>3 DEF Loose
<1>13. ASSUME NEW x \in Heads(g) \ (S \ {b}), Sz(g, x) # 0
       PROVE  OwnFlags(g, x) /\ (Fr(g, x) => NextOf(g, x) \in S \ {b} \/ ~ Fr(g, NextOf(g, x)))
  <2>1. x \in Heads(h) \ S /\ x # b /\ x # a /\ Sz(h, x) # 0 /\ NextOf(g, x) = NextOf(h, x)
    BY <1>4, <1>9, <1>13
  <2>2. NextOf(h, x) \in Heads(h) /\ NextOf(h, x) # n /\ NextOf(h, x) # b
    BY <1>1, <1>5, <2>1, BlockIs
  <2>3. NextOf(h, x) \in Heads(g)
    BY <1>4, <1>8, <2>2
  <2>4. OwnFlags(h, x) /\ (Fr(h, x) => NextOf(h, x) \in S \/ ~ Fr(h, NextOf(h, x)))
    BY <2>1 DEF Loose
  <2>5. OwnFlags(g, x)
    BY <1>9, <1>13, <2>1, <2>2, <2>3, <2>4 DEF OwnFlags
  <2> QED
    BY <1>9, <1>13, <2>1, <2>2, <2>3, <2>4, <2>5
<1>14. FreeOf(g) \ (S \ {b}) = FreeOf(h) \ S
  <2>1. ASSUME NEW x PROVE x \in FreeOf(g) \ (S \ {b}) <=> x \in FreeOf(h) \ S
    <3>1. CASE x = b \/ x = a
      BY <1>4, <1>8, <3>1 DEF FreeOf
    <3>2. CASE x # b /\ x # a
      BY <1>4, <1>8, <1>9, <3>2 DEF FreeOf
    <3> QED
      BY <3>1, <3>2
  <2> QED
    BY <2>1
<1>15. Listed(g, FreeOf(g) \ (S \ {b}))
  <2>1. Listed(h, FreeOf(h) \ S)
    BY DEF Loose
  <2>2. \A x \in FreeOf(h) \ S : Sz(g, x) = Sz(h, x)
    <3>1. TAKE x \in FreeOf(h) \ S
    <3>2. x \in Heads(h) /\ x # a /\ x # b
      BY DEF FreeOf
    <3> QED
      BY <1>4, <1>8, <1>9, <3>2
  <2>3. SameLists(h, g)
    BY <1>4, <1>8 DEF SameLists
  <2> QED
    BY <1>14, <2>1, <2>2, <2>3, ListedStays
<1>16. S \ {b} \subseteq {x \in Heads(g) : Sz(g, x) # 0}
  <2>1. \A x \in S : x \in Heads(h) /\ Sz(h, x) # 0
    BY DEF Loose
  <2>2. \A x \in S \ {b} : x \in Heads(g) /\ Sz(g, x) # 0
    BY <1>4, <1>8, <1>9, <1>10, <2>1
  <2> QED
    BY <2>2
<1>17. Loose(g, P, S \ {b})
  BY <1>8, <1>11, <1>12, <1>13, <1>15, <1>16 DEF Loose
<1> QED
  BY <1>2, <1>4, <1>6, <1>8, <1>9, <1>10, <1>17

-----------------------------------------------------------------------------
(* Taking a used block in hand, and letting go of it.                      *)

(* Nothing changes for the used blocks but those in T.                     *)
UsedKept(h, g, T) ==
  /\ UsedOf(g) \ T = UsedOf(h) \ T
  /\ \A x \in UsedOf(h) \ T : Sz(g, x) = Sz(h, x)

LEMMA KeptAgain ==
  ASSUME NEW h, NEW g, NEW k, NEW T, UsedKept(h, g, T), UsedKept(g, k, T)
  PROVE  UsedKept(h, k, T)
BY DEF UsedKept

LEMMA TakeUsed ==
  ASSUME NEW P, NEW S, NEW h, Loose(h, P, S), NEW b \in UsedOf(h)
  PROVE  Loose(h, P, S \cup {b}) /\ b \in Heads(h) /\ Sz(h, b) # 0 /\ ~ Fr(h, b)
<1>1. b \in Heads(h) /\ Sz(h, b) # 0 /\ ~ Fr(h, b)
  BY DEF UsedOf
<1>2. FreeOf(h) \ (S \cup {b}) = FreeOf(h) \ S
  BY <1>1 DEF FreeOf
<1>3. Loose(h, P, S \cup {b})
  BY <1>1, <1>2 DEF Loose
<1> QED
  BY <1>1, <1>3

LEMMA Settle ==
  ASSUME NEW P, NEW S, NEW h, Loose(h, P, S), NEW b \in S, ~ Fr(h, b), ~ Pf(h, NextOf(h, b))
  PROVE  Loose(h, P, S \ {b})
<1>1. b \in Heads(h) /\ Sz(h, b) # 0 /\ OwnFlags(h, b)
  BY DEF Loose, OwnFlags
<1>2. FreeOf(h) \ (S \ {b}) = FreeOf(h) \ S
  BY <1>1 DEF FreeOf
<1>3. ASSUME NEW x \in Heads(h) \ (S \ {b}), Sz(h, x) # 0
      PROVE  OwnFlags(h, x) /\ (Fr(h, x) => NextOf(h, x) \in S \ {b} \/ ~ Fr(h, NextOf(h, x)))
  <2>1. CASE x = b
    BY <1>1, <2>1
  <2>2. CASE x # b
    <3>1. x \in Heads(h) \ S
      BY <1>3, <2>2
    <3>2. OwnFlags(h, x) /\ (Fr(h, x) => NextOf(h, x) \in S \/ ~ Fr(h, NextOf(h, x)))
      BY <1>3, <3>1 DEF Loose
    <3> QED
      BY <3>2
  <2> QED
    BY <2>1, <2>2
<1> QED
  BY <1>2, <1>3 DEF Loose

(* The block before, which is not in hand.                                 *)
LEMMA BlockBefore ==
  ASSUME NEW P, Fitting(P), NEW S, NEW h, Loose(h, P, S), NEW b \in Heads(h), Pf(h, b), \A x \in S : x >= b
  PROVE  \E a \in FreeOf(h) \ S : NextOf(h, a) = b /\ Pp(h, b) = a /\ a < b
<1>1. IsHeap(h) /\ Tiled(Sizes(h), P) /\ b \in Nat
  BY HeaderIs DEF Loose
<1>2. PICK z : z = Sizes(h)
  OBVIOUS
<1>3. DOMAIN z = Heads(h) /\ \A x \in Heads(h) : z[x] = Sz(h, x) /\ NextOf(h, x) = After(z, x)
  BY <1>1, <1>2, HeaderIs
<1>4. \A p \in P : b # FirstBlock(p)
  BY DEF Loose
<1>5. PICK a \in Heads(h) : Sz(h, a) # 0 /\ NextOf(h, a) = b
  BY <1>1, <1>2, <1>3, <1>4 DEF Tiled
<1>6. a \in Nat /\ b > a
  BY <1>1, <1>5, BlockIs
<1>7. a \notin S
  BY <1>1, <1>6
<1>8. OwnFlags(h, a)
  BY <1>5, <1>7 DEF Loose
<1>9. Fr(h, a) /\ Pp(h, b) = a
  BY <1>5, <1>8 DEF OwnFlags
<1> QED
  BY <1>5, <1>6, <1>7, <1>9 DEF FreeOf

(* Before a free block in no hand there is no free block.                  *)
LEMMA FreeAfterUsed ==
  ASSUME NEW P, Fitting(P), NEW S, NEW h, Loose(h, P, S), NEW b \in FreeOf(h) \ S, \A x \in S : x >= b
  PROVE  ~ Pf(h, b) /\ (NextOf(h, b) \in S \/ ~ Fr(h, NextOf(h, b)))
<1>1. b \in Heads(h) /\ Sz(h, b) # 0 /\ Fr(h, b)
  BY DEF FreeOf
<1>2. ~ Pf(h, b)
  <2>1. SUFFICES ASSUME Pf(h, b) PROVE FALSE
    OBVIOUS
  <2>2. PICK a \in FreeOf(h) \ S : NextOf(h, a) = b
    BY <1>1, <2>1, BlockBefore
  <2>3. a \in Heads(h) \ S /\ Sz(h, a) # 0 /\ Fr(h, a)
    BY DEF FreeOf
  <2>4. b \in S \/ ~ Fr(h, b)
    BY <2>2, <2>3 DEF Loose
  <2> QED
    BY <1>1, <2>4
<1>3. NextOf(h, b) \in S \/ ~ Fr(h, NextOf(h, b))
  BY <1>1 DEF Loose
<1> QED
  BY <1>2, <1>3

LEMMA NothingFreeBefore ==
  ASSUME NEW P, NEW S, NEW h, Loose(h, P, S), NEW b, ~ Pf(h, b)
  PROVE  \A y \in Heads(h) : Sz(h, y) # 0 /\ NextOf(h, y) = b => y \in S \/ ~ Fr(h, y)
BY DEF Loose, OwnFlags

LEMMA MergeNextIs ==
  ASSUME NEW P, Fitting(P), NEW S, NEW h, Loose(h, P, S), NEW b \in S, \A x \in S : x <= b, NEW g, g = MergeNext(h, b)
  PROVE  /\ Loose(g, P, S) /\ ~ Fr(g, NextOf(g, b))
         /\ Heads(g) \subseteq Heads(h) /\ S \subseteq Heads(g) /\ NextOf(h, b) \in Heads(h)
         /\ \A x \in Heads(g) : /\ x # b => Sz(g, x) = Sz(h, x) /\ NextOf(g, x) = NextOf(h, x)
                                /\ (Fr(g, x) <=> Fr(h, x)) /\ (Pf(g, x) <=> Pf(h, x))
         /\ Pp(g, b) = Pp(h, b) /\ UsedKept(h, g, {b})
         /\ Sz(g, b) = IF Fr(h, NextOf(h, b)) THEN Sz(h, b) + Sz(h, NextOf(h, b)) + ALIGN_SIZE ELSE Sz(h, b)
         /\ Fr(h, b) /\ OwnFlags(h, b) => OwnFlags(g, b)
<1>1. IsHeap(h) /\ Tiled(Sizes(h), P) /\ b \in Heads(h) /\ Sz(h, b) # 0 /\ S \subseteq Heads(h)
  BY DEF Loose
<1>2. PICK n : n = NextOf(h, b)
  OBVIOUS
<1>3. n \in Heads(h) /\ n \in Nat /\ n > b /\ b \in Nat
  BY <1>1, <1>2, BlockIs
<1>4. h.blk[n].free <=> Fr(h, n)
  BY <1>1, <1>3, HeaderIs
<1>5. CASE ~ Fr(h, n)
  <2>1. g = h
    BY <1>2, <1>4, <1>5 DEF MergeNext
  <2> QED
    BY <1>1, <1>2, <1>3, <1>5, <2>1 DEF UsedKept
<1>6. CASE Fr(h, n)
  <2>1. PICK k : k = BlockRemove(h, n)
    OBVIOUS
  <2>2. g = Absorb(k, b, n)
    BY <1>2, <1>4, <1>6, <2>1 DEF MergeNext
  <2>3. \A x \in S : x \in Nat /\ x < n
    BY <1>1, <1>3, HeaderIs
  <2>4. n \in FreeOf(h) \ S /\ Sz(h, n) # 0
    BY <1>3, <1>6, <2>3 DEF Loose, FreeOf
  <2>5. PICK m : m = NextOf(h, n)
    OBVIOUS
  <2>6. m \in Heads(h) /\ m \in Nat /\ m > n
    BY <1>1, <1>3, <2>4, <2>5, BlockIs
  <2>7. ~ Fr(h, m) /\ OwnFlags(h, n) /\ Pf(h, m)
    <3>1. m \notin S
      BY <1>3, <2>3, <2>6
    <3>2. OwnFlags(h, n) /\ (m \in S \/ ~ Fr(h, m))
      BY <1>3, <1>6, <2>4, <2>5 DEF Loose
    <3> QED
      BY <1>6, <2>5, <3>1, <3>2 DEF OwnFlags
  <2>8. Loose(k, P, S \cup {n}) /\ SameHeaders(h, k)
    BY <2>1, <2>4, LooseBlockRemove
  <2>9. NextOf(k, b) = n /\ NextOf(k, n) = m /\ Heads(k) = Heads(h)
    BY <1>2, <2>5, <2>8 DEF SameHeaders
  <2>10. /\ Loose(g, P, (S \cup {n}) \ {n}) /\ Heads(g) = Heads(k) \ {n} /\ b # n
         /\ NextOf(g, b) = m /\ Sz(g, b) = Sz(k, b) + Sz(k, n) + ALIGN_SIZE
         /\ Pp(g, m) = b /\ m \in Heads(g) \ {b}
         /\ \A x \in Heads(g) : /\ x # b => Sz(g, x) = Sz(k, x) /\ NextOf(g, x) = NextOf(k, x)
                                /\ (Fr(g, x) <=> Fr(k, x)) /\ (Pf(g, x) <=> Pf(k, x))
                                /\ x # m => Pp(g, x) = Pp(k, x)
    <3>1. b \in S \cup {n} /\ n \in S \cup {n}
      OBVIOUS
    <3> QED
      BY <2>2, <2>8, <2>9, <3>1, LooseAbsorb
  <2>11. (S \cup {n}) \ {n} = S
    BY <2>4
  <2>12. /\ \A x \in Heads(g) : /\ x # b => Sz(g, x) = Sz(h, x) /\ NextOf(g, x) = NextOf(h, x)
                                /\ (Fr(g, x) <=> Fr(h, x)) /\ (Pf(g, x) <=> Pf(h, x))
                                /\ x # m => Pp(g, x) = Pp(h, x)
         /\ Sz(g, b) = Sz(h, b) + Sz(h, n) + ALIGN_SIZE
    BY <2>8, <2>10 DEF SameHeaders
  <2>13. b \in Heads(g) /\ m # b
    BY <1>1, <2>9, <2>10
  <2>14. UsedKept(h, g, {b})
    <3>1. \A x : x \in UsedOf(g) \ {b} <=> x \in UsedOf(h) \ {b}
      BY <1>6, <2>9, <2>10, <2>12 DEF UsedOf
    <3>2. \A x \in UsedOf(h) \ {b} : Sz(g, x) = Sz(h, x)
      BY <2>12, <3>1 DEF UsedOf
    <3> QED
      BY <3>1, <3>2 DEF UsedKept
  <2>15. ~ Fr(g, m)
    BY <2>7, <2>10, <2>12
  <2>16. Fr(h, b) => OwnFlags(g, b)
    BY <2>7, <2>10, <2>12, <2>13 DEF OwnFlags
  <2>17. S \subseteq Heads(g)
    BY <1>1, <2>4, <2>9, <2>10
  <2>18. Heads(g) \subseteq Heads(h)
    BY <2>9, <2>10
  <2>19. Loose(g, P, S)
    BY <2>10, <2>11
  <2>20. Pp(g, b) = Pp(h, b)
    BY <2>12, <2>13
  <2> QED
    BY <1>2, <1>3, <1>6, <2>10, <2>12, <2>14, <2>15, <2>16, <2>17, <2>18, <2>19, <2>20
<1> QED
  BY <1>5, <1>6

LEMMA MergePrevIs ==
  ASSUME NEW P, Fitting(P), NEW h, NEW b, Loose(h, P, {b}), Fr(h, b), OwnFlags(h, b),
         NEW a, a = PrevOf(h, b), NEW g, g = MergePrev(h, b)
  PROVE  /\ Loose(g, P, {a}) /\ Fr(g, a) /\ OwnFlags(g, a) /\ ~ Pf(g, a) /\ UsedKept(h, g, {})
<1>1. IsHeap(h) /\ Tiled(Sizes(h), P) /\ b \in Heads(h) /\ Sz(h, b) # 0
  BY DEF Loose
<1>2. PICK n : n = NextOf(h, b)
  OBVIOUS
<1>3. n \in Heads(h) /\ n \in Nat /\ n > b /\ b \in Nat
  BY <1>1, <1>2, BlockIs
<1>4. (h.blk[b].prevFree <=> Pf(h, b)) /\ h.blk[b].prevPhys = Pp(h, b)
  BY <1>1, HeaderIs DEF Pp
<1>5. CASE ~ Pf(h, b)
  <2>1. g = h /\ a = b
    BY <1>4, <1>5 DEF MergePrev, PrevOf
  <2> QED
    BY <1>5, <2>1 DEF UsedKept
<1>6. CASE Pf(h, b)
  <2>1. \A x \in {b} : x >= b
    BY <1>3
  <2>2. PICK y \in FreeOf(h) \ {b} : NextOf(h, y) = b /\ Pp(h, b) = y /\ y < b
    BY <1>1, <1>6, <2>1, BlockBefore
  <2>3. a = y
    BY <1>4, <1>6, <2>2 DEF PrevOf
  <2>4. PICK k : k = BlockRemove(h, a)
    OBVIOUS
  <2>5. g = Absorb(k, a, b)
    BY <1>4, <1>6, <2>4 DEF MergePrev
  <2>6. a \in FreeOf(h) \ {b} /\ NextOf(h, a) = b /\ a < b /\ a \in Heads(h) /\ Sz(h, a) # 0 /\ Fr(h, a)
    BY <2>2, <2>3 DEF FreeOf
  <2>7. Loose(k, P, {b} \cup {a}) /\ SameHeaders(h, k)
    BY <2>4, <2>6, LooseBlockRemove
  <2>8. NextOf(k, a) = b /\ NextOf(k, b) = n /\ Heads(k) = Heads(h)
    BY <1>2, <2>6, <2>7 DEF SameHeaders
  <2>9. /\ Loose(g, P, ({b} \cup {a}) \ {b}) /\ Heads(g) = Heads(k) \ {b} /\ a # b
        /\ NextOf(g, a) = n /\ Sz(g, a) = Sz(k, a) + Sz(k, b) + ALIGN_SIZE
        /\ Pp(g, n) = a /\ n \in Heads(g) \ {a}
        /\ \A x \in Heads(g) : /\ x # a => Sz(g, x) = Sz(k, x) /\ NextOf(g, x) = NextOf(k, x)
                               /\ (Fr(g, x) <=> Fr(k, x)) /\ (Pf(g, x) <=> Pf(k, x))
                               /\ x # n => Pp(g, x) = Pp(k, x)
    <3>1. a \in {b} \cup {a} /\ b \in {b} \cup {a}
      OBVIOUS
    <3> QED
      BY <2>5, <2>7, <2>8, <3>1, LooseAbsorb
  <2>10. ({b} \cup {a}) \ {b} = {a}
    BY <2>6
  <2>11. \A x \in Heads(g) : /\ x # a => Sz(g, x) = Sz(h, x)
                             /\ (Fr(g, x) <=> Fr(h, x)) /\ (Pf(g, x) <=> Pf(h, x))
    BY <2>7, <2>9 DEF SameHeaders
  <2>12. a \in Heads(g)
    BY <2>6, <2>8, <2>9
  <2>13. ~ Pf(h, a)
    <3>1. \A x \in {b} : x >= a
      <4>1. a \in Nat
        BY <1>1, <2>6, HeaderIs
      <4> QED
        BY <1>3, <2>6, <4>1
    <3> QED
      BY <2>6, <3>1, FreeAfterUsed
  <2>14. Fr(g, a) /\ ~ Pf(g, a)
    BY <2>6, <2>11, <2>12, <2>13
  <2>15. Pf(h, n)
    BY <1>2 DEF OwnFlags
  <2>16. OwnFlags(g, a)
    BY <2>9, <2>11, <2>14, <2>15 DEF OwnFlags
  <2>17. UsedKept(h, g, {})
    <3>1. \A x : x \in UsedOf(g) <=> x \in UsedOf(h)
      BY <2>6, <2>8, <2>9, <2>11, <2>14 DEF UsedOf
    <3>2. \A x \in UsedOf(h) : Sz(g, x) = Sz(h, x)
      BY <2>6, <2>11, <3>1 DEF UsedOf
    <3> QED
      BY <3>1, <3>2 DEF UsedKept
  <2> QED
    BY <2>9, <2>10, <2>14, <2>16, <2>17
<1> QED
  BY <1>5, <1>6

-----------------------------------------------------------------------------
(* The composite steps.                                                    *)

Good(h, P) == Loose(h, P, {})

(* The heap afterwards is as a client finds it, with b as its only change  *)
(* among the used blocks.                                                  *)
LEMMA InsertLast ==
  ASSUME NEW P, Fitting(P), NEW h, NEW b, Loose(h, P, {b}), Fr(h, b), OwnFlags(h, b), ~ Pf(h, b),
         ~ Fr(h, NextOf(h, b)), NEW g, g = BlockInsert(h, b)
  PROVE  Good(g, P) /\ UsedKept(h, g, {})
<1>1. \A y \in Heads(h) : Sz(h, y) # 0 /\ NextOf(h, y) = b => y \in {b} \ {b} \/ ~ Fr(h, y)
  <2>1. \A y \in Heads(h) : Sz(h, y) # 0 /\ NextOf(h, y) = b => y \in {b} \/ ~ Fr(h, y)
    BY NothingFreeBefore
  <2>2. IsHeap(h) /\ Tiled(Sizes(h), P) /\ b \in Heads(h) /\ Sz(h, b) # 0
    BY DEF Loose
  <2>3. NextOf(h, b) # b
    BY <2>2, BlockIs
  <2> QED
    BY <2>1, <2>3
<1>2. Loose(g, P, {b} \ {b}) /\ SameHeaders(h, g)
  <2>1. b \in {b} /\ (NextOf(h, b) \in {b} \ {b} \/ ~ Fr(h, NextOf(h, b)))
    OBVIOUS
  <2> QED
    BY <1>1, <2>1, LooseInsert
<1>3. {b} \ {b} = {}
  OBVIOUS
<1> QED
  BY <1>2, <1>3 DEF Good, SameHeaders, UsedKept

LEMMA FreeIs ==
  ASSUME NEW P, Fitting(P), NEW h, Good(h, P), NEW b \in UsedOf(h), NEW g, g = Free(h, ToPtr(b))
  PROVE  Good(g, P) /\ UsedKept(h, g, {b}) /\ b \notin UsedOf(g)
<1>1. Loose(h, P, {b}) /\ b \in Heads(h) /\ Sz(h, b) # 0
  <2>1. {} \cup {b} = {b}
    OBVIOUS
  <2> QED
    BY <2>1, TakeUsed DEF Good
<1>2. FromPtr(ToPtr(b)) = b
  <2>1. b \in Nat
    BY <1>1, HeaderIs DEF Loose
  <2> QED
    BY <2>1, ConstantsAre DEF FromPtr, ToPtr
<1>3. PICK k : k = MarkFree(h, b)
  OBVIOUS
<1>4. PICK a : a = PrevOf(k, b)
  OBVIOUS
<1>5. PICK i : i = MergePrev(k, b)
  OBVIOUS
<1>6. PICK j : j = MergeNext(i, a)
  OBVIOUS
<1>7. g = BlockInsert(j, a)
  BY <1>2, <1>3, <1>4, <1>5, <1>6, Zenon DEF Free
<1>8. /\ Loose(k, P, {b}) /\ SameRest(h, k) /\ OwnFlags(k, b) /\ Fr(k, b)
      /\ \A x \in Heads(h) : Sz(k, x) = Sz(h, x) /\ (Fr(k, x) <=> x = b \/ Fr(h, x))
  <2>1. b \in {b}
    OBVIOUS
  <2> QED
    BY <1>1, <1>3, <2>1, LooseFree
<1>9. UsedKept(h, k, {b}) /\ b \notin UsedOf(k)
  BY <1>8 DEF SameRest, UsedOf, UsedKept
<1>10. Loose(i, P, {a}) /\ Fr(i, a) /\ OwnFlags(i, a) /\ ~ Pf(i, a) /\ UsedKept(k, i, {})
  BY <1>4, <1>5, <1>8, MergePrevIs
<1>11. a \in Heads(i)
  BY <1>10 DEF Loose
<1>12. /\ Loose(j, P, {a}) /\ ~ Fr(j, NextOf(j, a)) /\ {a} \subseteq Heads(j)
       /\ \A x \in Heads(j) : (Fr(j, x) <=> Fr(i, x)) /\ (Pf(j, x) <=> Pf(i, x))
       /\ UsedKept(i, j, {a}) /\ OwnFlags(j, a)
  <2>1. a \in {a} /\ \A x \in {a} : x <= a
    BY <1>10, <1>11, HeaderIs DEF Loose
  <2> QED
    BY <1>6, <1>10, <2>1, MergeNextIs
<1>13. Fr(j, a) /\ ~ Pf(j, a)
  BY <1>10, <1>12
<1>14. Good(g, P) /\ UsedKept(j, g, {})
  BY <1>7, <1>12, <1>13, InsertLast
<1>15. UsedKept(i, j, {})
  BY <1>10, <1>12, <1>13 DEF UsedKept, UsedOf
<1> QED
  BY <1>9, <1>10, <1>14, <1>15 DEF UsedKept

(* The end of a free block in hand becomes a free block of its own.        *)
Whole(h, P, b) == Loose(h, P, {b}) /\ Fr(h, b) /\ OwnFlags(h, b) /\ ~ Fr(h, NextOf(h, b))
Fits(s) == s \in Nat /\ Aligned(s) /\ s >= 3 * ALIGN_SIZE

LEMMA CanSplitIs ==
  ASSUME NEW h, NEW b, NEW s, NEW t, t = HeaderSize + s
  PROVE  CanSplit(h, b, s) <=> Sz(h, b) >= t
BY DEF CanSplit, Sz

LEMMA TrimFreeIs ==
  ASSUME NEW P, Fitting(P), NEW h, NEW b, Whole(h, P, b), NEW s, Fits(s), Sz(h, b) >= s, NEW g, g = TrimFree(h, b, s)
  PROVE  /\ Loose(g, P, {b}) /\ Fr(g, b) /\ UsedKept(h, g, {}) /\ Sz(g, b) >= s
<1>1. IsHeap(h) /\ Tiled(Sizes(h), P) /\ b \in Heads(h) /\ Sz(h, b) # 0
  BY DEF Whole, Loose
<1>2. CanSplit(h, b, s) <=> Sz(h, b) >= 4 * ALIGN_SIZE + s
  BY CanSplitIs, ConstantsAre
<1>3. CASE ~ CanSplit(h, b, s)
  <2>1. g = h
    BY <1>3 DEF TrimFree
  <2> QED
    BY <2>1 DEF UsedKept, Whole
<1>4. CASE CanSplit(h, b, s)
  <2>1. PICK r, n : r = Rest(b, s) /\ n = NextOf(h, b)
    OBVIOUS
  <2>2. PICK i : i = Split(h, b, s)
    OBVIOUS
  <2>3. PICK j : j = LinkNext(i, b)
    OBVIOUS
  <2>4. PICK k : k = PrevFreeSet(j, r)
    OBVIOUS
  <2>5. g = BlockInsert(k, r)
    <3>1. SetPrevFree(j, r, TRUE) = PrevFreeSet(j, r)
      BY SetPrevFreeIs, Zenon
    <3> QED
      BY <1>4, <2>1, <2>2, <2>3, <2>4, <3>1, Zenon DEF TrimFree
  <2>6. n \in Heads(h) /\ n \in Nat /\ n > b /\ b \in Nat
    BY <1>1, <2>1, BlockIs
  <2>7. /\ Loose(i, P, {b} \cup {r}) /\ Heads(i) = Heads(h) \cup {r} /\ r \notin Heads(h)
        /\ NextOf(i, b) = r /\ NextOf(i, r) = n /\ r # b
        /\ Sz(i, b) = s /\ Fr(i, r) /\ OwnFlags(i, r)
        /\ \A x \in Heads(h) : /\ x # b => Sz(i, x) = Sz(h, x) /\ NextOf(i, x) = NextOf(h, x)
                               /\ (Fr(i, x) <=> Fr(h, x))
    <3>1. CanCut(h, b, s)
      BY <1>2, <1>4 DEF CanCut, Fits
    <3>2. PICK S : S = {b}
      OBVIOUS
    <3>3. b \in S /\ Loose(h, P, S)
      BY <3>2 DEF Whole
    <3>4. /\ Loose(i, P, S \cup {r}) /\ Heads(i) = Heads(h) \cup {r} /\ r \notin Heads(h)
          /\ NextOf(i, b) = r /\ NextOf(i, r) = NextOf(h, b) /\ r # b
          /\ Sz(i, b) = s /\ Fr(i, r) /\ OwnFlags(i, r)
          /\ \A x \in Heads(h) : /\ x # b => Sz(i, x) = Sz(h, x) /\ NextOf(i, x) = NextOf(h, x)
                                 /\ (Fr(i, x) <=> Fr(h, x))
      BY <2>1, <2>2, <3>1, <3>3, LooseSplit
    <3> QED
      BY <2>1, <3>2, <3>4
  <2>8. /\ Loose(j, P, {b} \cup {r})
        /\ \A x \in Heads(i) : /\ Sz(j, x) = Sz(i, x) /\ NextOf(j, x) = NextOf(i, x)
                               /\ Fr(j, x) <=> Fr(i, x)
                               /\ Pf(j, x) <=> Pf(i, x)
                               /\ Pp(j, x) = IF x = r THEN b ELSE Pp(i, x)
        /\ SameRest(i, j)
    <3>1. b \in {b} \cup {r}
      OBVIOUS
    <3> QED
      BY <2>3, <2>7, <3>1, LooseLink
  <2>9. b \in Heads(i) /\ r \in Heads(i) /\ n \in Heads(i) /\ n # r /\ Heads(j) = Heads(i)
    BY <1>1, <2>6, <2>7, <2>8 DEF SameRest
  <2>10. /\ Loose(k, P, {b} \cup {r}) /\ SameRest(j, k)
         /\ \A x \in Heads(j) : /\ Sz(k, x) = Sz(j, x) /\ NextOf(k, x) = NextOf(j, x)
                                /\ Fr(k, x) <=> Fr(j, x)
                                /\ Pp(k, x) = Pp(j, x)
                                /\ Pf(k, x) <=> x = r \/ Pf(j, x)
    <3>1. b \in {b} \cup {r} /\ r = NextOf(j, b)
      BY <2>7, <2>8, <2>9
    <3> QED
      BY <2>4, <2>8, <3>1, LoosePrevTrue, SMTT(60)
  <2>11. Fr(k, r) /\ OwnFlags(k, r) /\ NextOf(k, r) = n /\ NextOf(k, b) = r /\ Sz(k, b) = s /\ Heads(k) = Heads(i)
    BY <2>7, <2>8, <2>9, <2>10 DEF OwnFlags, SameRest
  <2>12. Fr(k, b) /\ ~ Fr(k, n)
    BY <1>1, <2>1, <2>6, <2>7, <2>8, <2>9, <2>10 DEF Whole
  <2>13. \A y \in Heads(k) : Sz(k, y) # 0 /\ NextOf(k, y) = r => y = b
    <3>1. IsHeap(k) /\ Tiled(Sizes(k), P) /\ b \in Heads(k) /\ Sz(k, b) # 0
      BY <2>10 DEF Loose
    <3> QED
      BY <2>11, <3>1, BlockIs
  <2>14. Loose(g, P, ({b} \cup {r}) \ {r}) /\ SameHeaders(k, g)
    <3>1. r \in {b} \cup {r} /\ (NextOf(k, r) \in ({b} \cup {r}) \ {r} \/ ~ Fr(k, NextOf(k, r)))
      BY <2>11, <2>12
    <3>2. \A y \in Heads(k) : Sz(k, y) # 0 /\ NextOf(k, y) = r => y \in ({b} \cup {r}) \ {r} \/ ~ Fr(k, y)
      BY <2>7, <2>13
    <3> QED
      BY <2>5, <2>10, <2>11, <3>1, <3>2, LooseInsert
  <2>15. ({b} \cup {r}) \ {r} = {b}
    BY <2>7
  <2>16. UsedKept(h, k, {})
    <3>1. \A x \in Heads(h) : (x # b => Sz(k, x) = Sz(h, x)) /\ (Fr(k, x) <=> Fr(h, x))
      BY <2>7, <2>8, <2>9, <2>10
    <3>2. \A x : x \in UsedOf(k) <=> x \in UsedOf(h)
      BY <2>7, <2>11, <2>12, <3>1 DEF UsedOf, Whole
    <3>3. \A x \in UsedOf(h) : Sz(k, x) = Sz(h, x)
      BY <3>1 DEF UsedOf, Whole
    <3> QED
      BY <3>2, <3>3 DEF UsedKept
  <2>17. UsedKept(h, g, {})
    BY <2>14, <2>16 DEF UsedKept, SameHeaders
  <2>18. s <= s
    BY DEF Fits
  <2> QED
    BY <2>11, <2>12, <2>14, <2>15, <2>17, <2>18 DEF SameHeaders
<1> QED
  BY <1>3, <1>4

(* The leading gap of a free block in hand becomes a free block.           *)
LEMMA TrimLeadingIs ==
  ASSUME NEW P, Fitting(P), NEW h, NEW b, Whole(h, P, b), ~ Pf(h, b), NEW gap \in Nat, Aligned(gap), gap >= 4 * ALIGN_SIZE,
         Sz(h, b) >= 4 * ALIGN_SIZE + gap, NEW g, NEW r, TrimLeading(h, b, gap) = <<g, r>>
  PROVE  /\ r = b + gap /\ Whole(g, P, r) /\ UsedKept(h, g, {}) /\ Sz(g, r) = Sz(h, b) - gap
<1>0. PICK W \in Nat \ {0} : W = ALIGN_SIZE /\ Overhead = W
  BY ConstantsAre
<1>1. IsHeap(h) /\ Tiled(Sizes(h), P) /\ b \in Heads(h) /\ Sz(h, b) # 0
  BY DEF Whole, Loose
<1>2. CanSplit(h, b, gap)
  BY CanSplitIs, ConstantsAre
<1>3. PICK s, n : s = gap - Overhead /\ n = NextOf(h, b)
  OBVIOUS
<1>4. CanCut(h, b, s)
  <2>1. s \in Nat /\ s >= 3 * W /\ Sz(h, b) >= 4 * W + s
    BY <1>0, <1>1, <1>3, BlockIs
  <2>2. Aligned(gap - W)
    <3>1. gap \in Int /\ W \in Int /\ Aligned(W)
      BY <1>0, AlignedSums
    <3> QED
      BY <3>1, AlignedSums, Zenon
  <2> QED
    BY <1>0, <1>3, <2>1, <2>2 DEF CanCut
<1>5. PICK q : q = Rest(b, s)
  OBVIOUS
<1>6. PICK i : i = Split(h, b, s)
  OBVIOUS
<1>7. PICK j : j = PrevFreeSet(i, q)
  OBVIOUS
<1>8. PICK k : k = LinkNext(j, b)
  OBVIOUS
<1>9. g = BlockInsert(k, b) /\ r = q
  <2>1. SetPrevFree(i, q, TRUE) = PrevFreeSet(i, q)
    BY SetPrevFreeIs, Zenon
  <2>2. TrimLeading(h, b, gap) = <<BlockInsert(k, b), q>>
    BY <1>2, <1>3, <1>5, <1>6, <1>7, <1>8, <2>1, Zenon DEF TrimLeading
  <2> QED
    BY <2>2
<1>10. n \in Heads(h) /\ n \in Nat /\ n > b /\ b \in Nat
  BY <1>1, <1>3, BlockIs
<1>11. PICK S : S = {b}
  OBVIOUS
<1>12. /\ Loose(i, P, S \cup {q}) /\ Heads(i) = Heads(h) \cup {q} /\ q \notin Heads(h)
       /\ q \in Nat /\ q = b + ALIGN_SIZE + s
       /\ NextOf(i, b) = q /\ NextOf(i, q) = n /\ q # b
       /\ Sz(i, q) = Sz(h, b) - (s + ALIGN_SIZE) /\ Fr(i, q) /\ OwnFlags(i, q)
       /\ \A x \in Heads(h) : /\ x # b => Sz(i, x) = Sz(h, x) /\ NextOf(i, x) = NextOf(h, x)
                              /\ (Fr(i, x) <=> Fr(h, x))
                              /\ x # n => (Pf(i, x) <=> Pf(h, x)) /\ Pp(i, x) = Pp(h, x)
  <2>1. b \in S /\ Loose(h, P, S)
    BY <1>11 DEF Whole
  <2>2. /\ Loose(i, P, S \cup {q}) /\ Heads(i) = Heads(h) \cup {q} /\ q \notin Heads(h)
        /\ q \in Nat /\ q = b + ALIGN_SIZE + s
        /\ NextOf(i, b) = q /\ NextOf(i, q) = NextOf(h, b) /\ q # b
        /\ Sz(i, q) = Sz(h, b) - (s + ALIGN_SIZE) /\ Fr(i, q) /\ OwnFlags(i, q)
        /\ \A x \in Heads(h) : /\ x # b => Sz(i, x) = Sz(h, x) /\ NextOf(i, x) = NextOf(h, x)
                               /\ (Fr(i, x) <=> Fr(h, x))
                               /\ x # NextOf(h, b) => (Pf(i, x) <=> Pf(h, x)) /\ Pp(i, x) = Pp(h, x)
    BY <1>4, <1>5, <1>6, <2>1, LooseSplit
  <2> QED
    BY <1>3, <2>2
<1>13. PICK T : T = S \cup {q}
  OBVIOUS
<1>14. b \in T /\ q \in T /\ Loose(i, P, T) /\ T \ {b} = {q}
  BY <1>11, <1>12, <1>13
<1>15. b \in Heads(i) /\ q \in Heads(i) /\ n \in Heads(i) /\ n # q /\ n # b
  BY <1>1, <1>10, <1>12
<1>16. /\ Loose(j, P, T) /\ SameRest(i, j)
       /\ \A x \in Heads(i) : /\ Sz(j, x) = Sz(i, x) /\ NextOf(j, x) = NextOf(i, x)
                              /\ Fr(j, x) <=> Fr(i, x)
                              /\ Pp(j, x) = Pp(i, x)
                              /\ Pf(j, x) <=> x = q \/ Pf(i, x)
  BY <1>7, <1>12, <1>14, LoosePrevTrue
<1>17. Heads(j) = Heads(i) /\ NextOf(j, b) = q
  BY <1>12, <1>15, <1>16 DEF SameRest
<1>18. /\ Loose(k, P, T) /\ SameRest(j, k)
       /\ \A x \in Heads(j) : /\ Sz(k, x) = Sz(j, x) /\ NextOf(k, x) = NextOf(j, x)
                              /\ Fr(k, x) <=> Fr(j, x)
                              /\ Pf(k, x) <=> Pf(j, x)
                              /\ Pp(k, x) = IF x = q THEN b ELSE Pp(j, x)
  <2>1. /\ Loose(k, P, T) /\ SameRest(j, k)
        /\ \A x \in Heads(j) : /\ Sz(k, x) = Sz(j, x) /\ NextOf(k, x) = NextOf(j, x)
                               /\ Fr(k, x) <=> Fr(j, x)
                               /\ Pf(k, x) <=> Pf(j, x)
                               /\ Pp(k, x) = IF x = NextOf(j, b) THEN b ELSE Pp(j, x)
    BY <1>8, <1>14, <1>16, LooseLink
  <2> QED
    BY <1>17, <2>1
<1>19. Heads(k) = Heads(i) /\ NextOf(k, b) = q /\ NextOf(k, q) = n /\ Sz(k, q) = Sz(h, b) - (s + ALIGN_SIZE)
  BY <1>12, <1>15, <1>16, <1>17, <1>18 DEF SameRest
<1>20. Fr(k, b) /\ Fr(k, q) /\ ~ Fr(k, n) /\ ~ Pf(k, b)
  BY <1>1, <1>3, <1>10, <1>12, <1>15, <1>16, <1>17, <1>18 DEF Whole
<1>21. OwnFlags(k, q)
  BY <1>12, <1>15, <1>16, <1>17, <1>18, <1>19 DEF OwnFlags
<1>22. OwnFlags(k, b)
  BY <1>15, <1>16, <1>17, <1>18, <1>19, <1>20 DEF OwnFlags
<1>23. Loose(g, P, T \ {b}) /\ SameHeaders(k, g)
  <2>1. NextOf(k, b) \in T \ {b}
    BY <1>14, <1>19
  <2>2. \A y \in Heads(k) : Sz(k, y) # 0 /\ NextOf(k, y) = b => y \in T \ {b} \/ ~ Fr(k, y)
    <3>1. \A y \in Heads(k) : Sz(k, y) # 0 /\ NextOf(k, y) = b => y \in T \/ ~ Fr(k, y)
      BY <1>18, <1>20, NothingFreeBefore
    <3> QED
      BY <1>12, <1>19, <3>1
  <2> QED
    BY <1>9, <1>14, <1>18, <1>20, <1>22, <2>1, <2>2, LooseInsert
<1>24. Whole(g, P, r)
  BY <1>9, <1>14, <1>19, <1>20, <1>21, <1>23 DEF Whole, SameHeaders, OwnFlags
<1>25. UsedKept(h, g, {})
  <2>1. \A x \in Heads(h) : (x # b => Sz(k, x) = Sz(h, x)) /\ (Fr(k, x) <=> Fr(h, x))
    BY <1>12, <1>15, <1>16, <1>17, <1>18
  <2>2. \A x : x \in UsedOf(k) <=> x \in UsedOf(h)
    BY <1>1, <1>12, <1>19, <1>20, <2>1 DEF UsedOf, Whole
  <2>3. \A x \in UsedOf(h) : Sz(k, x) = Sz(h, x)
    BY <2>1 DEF UsedOf, Whole
  <2> QED
    BY <1>23, <2>2, <2>3 DEF UsedKept, SameHeaders
<1>26. r = b + gap /\ Sz(g, r) = Sz(h, b) - gap
  <2>1. s + W = gap /\ s + ALIGN_SIZE = gap
    BY <1>0, <1>3
  <2>2. Sz(g, q) = Sz(k, q)
    BY <1>23 DEF SameHeaders
  <2>3. q = b + gap
    BY <1>0, <1>3, <1>10, <1>12
  <2> QED
    BY <1>9, <1>19, <2>1, <2>2, <2>3
<1> QED
  BY <1>24, <1>25, <1>26

(* The end of a used block becomes, with a free block after it, a free     *)
(* block of its own.                                                       *)
LEMMA TrimUsedIs ==
  ASSUME NEW P, Fitting(P), NEW h, Good(h, P), NEW b \in UsedOf(h), NEW s, Fits(s), Sz(h, b) >= s, NEW g, g = TrimUsed(h, b, s)
  PROVE  Good(g, P) /\ UsedKept(h, g, {b}) /\ b \in UsedOf(g) /\ Sz(g, b) >= s
<1>1. IsHeap(h) /\ Tiled(Sizes(h), P) /\ b \in Heads(h) /\ Sz(h, b) # 0 /\ ~ Fr(h, b)
  BY DEF Good, Loose, UsedOf
<1>2. CanSplit(h, b, s) <=> Sz(h, b) >= 4 * ALIGN_SIZE + s
  BY CanSplitIs, ConstantsAre
<1>3. CASE ~ CanSplit(h, b, s)
  <2>1. g = h
    BY <1>3 DEF TrimUsed
  <2> QED
    BY <2>1 DEF UsedKept
<1>4. CASE CanSplit(h, b, s)
  <2>1. PICK r, n, S : r = Rest(b, s) /\ n = NextOf(h, b) /\ S = {b}
    OBVIOUS
  <2>2. PICK i : i = Split(h, b, s)
    OBVIOUS
  <2>3. PICK j : j = PrevFreeCleared(i, r)
    OBVIOUS
  <2>4. PICK k : k = MergeNext(j, r)
    OBVIOUS
  <2>5. g = BlockInsert(k, r)
    <3>1. SetPrevFree(i, r, FALSE) = PrevFreeCleared(i, r)
      BY SetPrevFreeIs, Zenon
    <3> QED
      BY <1>4, <2>1, <2>2, <2>3, <2>4, <3>1, Zenon DEF TrimUsed
  <2>6. n \in Heads(h) /\ n \in Nat /\ n > b /\ b \in Nat
    BY <1>1, <2>1, BlockIs
  <2>7. /\ Loose(i, P, S \cup {r}) /\ Heads(i) = Heads(h) \cup {r} /\ r \notin Heads(h)
        /\ r \in Nat /\ r = b + ALIGN_SIZE + s
        /\ NextOf(i, b) = r /\ NextOf(i, r) = n /\ r # b /\ Sz(i, b) = s
        /\ Fr(i, r) /\ OwnFlags(i, r)
        /\ \A x \in Heads(h) : /\ x # b => Sz(i, x) = Sz(h, x) /\ NextOf(i, x) = NextOf(h, x)
                               /\ (Fr(i, x) <=> Fr(h, x))
    <3>1. CanCut(h, b, s)
      BY <1>2, <1>4 DEF CanCut, Fits
    <3>2. {} \cup {b} = S
      BY <2>1
    <3>3. b \in S /\ Loose(h, P, S)
      BY <2>1, <3>2, TakeUsed DEF Good
    <3>4. /\ Loose(i, P, S \cup {r}) /\ Heads(i) = Heads(h) \cup {r} /\ r \notin Heads(h)
          /\ r \in Nat /\ r = b + ALIGN_SIZE + s
          /\ NextOf(i, b) = r /\ NextOf(i, r) = NextOf(h, b) /\ r # b /\ Sz(i, b) = s
          /\ Fr(i, r) /\ OwnFlags(i, r)
          /\ \A x \in Heads(h) : /\ x # b => Sz(i, x) = Sz(h, x) /\ NextOf(i, x) = NextOf(h, x)
                                 /\ (Fr(i, x) <=> Fr(h, x))
      BY <2>1, <2>2, <3>1, <3>3, LooseSplit
    <3> QED
      BY <2>1, <3>4
  <2>8. PICK T : T = S \cup {r}
    OBVIOUS
  <2>9. b \in T /\ r \in T /\ Loose(i, P, T) /\ T \ {r} = {b} /\ T = {b, r}
    BY <2>1, <2>7, <2>8
  <2>10. b \in Heads(i) /\ r \in Heads(i) /\ n \in Heads(i) /\ n # r /\ n # b
    BY <1>1, <2>6, <2>7
  <2>11. /\ Loose(j, P, T) /\ SameRest(i, j)
         /\ \A x \in Heads(i) : /\ Sz(j, x) = Sz(i, x) /\ NextOf(j, x) = NextOf(i, x)
                                /\ Fr(j, x) <=> Fr(i, x)
                                /\ Pp(j, x) = Pp(i, x)
                                /\ Pf(j, x) <=> x # r /\ Pf(i, x)
    BY <2>3, <2>7, <2>9, LoosePrevFalse
  <2>12. Heads(j) = Heads(i) /\ NextOf(j, b) = r /\ NextOf(j, r) = n /\ ~ Pf(j, r) /\ Fr(j, r) /\ ~ Fr(j, b) /\ Sz(j, b) = s
    BY <1>1, <2>7, <2>10, <2>11 DEF SameRest
  <2>13. OwnFlags(j, r)
    BY <2>7, <2>10, <2>11, <2>12 DEF OwnFlags
  <2>14. /\ Loose(k, P, T) /\ ~ Fr(k, NextOf(k, r)) /\ T \subseteq Heads(k)
         /\ \A x \in Heads(k) : /\ x # r => Sz(k, x) = Sz(j, x) /\ NextOf(k, x) = NextOf(j, x)
                                /\ (Fr(k, x) <=> Fr(j, x)) /\ (Pf(k, x) <=> Pf(j, x))
         /\ UsedKept(j, k, {r}) /\ OwnFlags(k, r)
    <3>1. \A x \in T : x <= r
      <4>1. b <= r /\ r <= r
        <5>1. s \in Nat
          BY DEF Fits
        <5> QED
          BY <2>6, <2>7, <5>1, ConstantsAre
      <4> QED
        BY <2>9, <4>1
    <3> QED
      BY <2>4, <2>9, <2>11, <2>12, <2>13, <3>1, MergeNextIs
  <2>15. /\ b \in Heads(k) /\ r \in Heads(k) /\ Fr(k, r) /\ ~ Fr(k, b) /\ ~ Pf(k, r) /\ NextOf(k, b) = r
         /\ Sz(k, b) = s
    BY <2>7, <2>9, <2>12, <2>14
  <2>16. Loose(g, P, T \ {r}) /\ SameHeaders(k, g)
    <3>1. NextOf(k, r) \in T \ {r} \/ ~ Fr(k, NextOf(k, r))
      BY <2>14
    <3>2. \A y \in Heads(k) : Sz(k, y) # 0 /\ NextOf(k, y) = r => y \in T \ {r} \/ ~ Fr(k, y)
      <4>1. IsHeap(k) /\ Tiled(Sizes(k), P) /\ Sz(k, b) # 0
        BY <2>9, <2>14 DEF Loose
      <4>2. \A y \in Heads(k) : Sz(k, y) # 0 /\ NextOf(k, y) = r => y = b
        BY <2>15, <4>1, BlockIs
      <4> QED
        BY <2>9, <4>2
    <3> QED
      BY <2>5, <2>9, <2>14, <2>15, <3>1, <3>2, LooseInsert
  <2>17. Good(g, P)
    <3>1. Loose(g, P, {b}) /\ ~ Fr(g, b) /\ ~ Pf(g, NextOf(g, b))
      BY <2>9, <2>15, <2>16 DEF SameHeaders
    <3>2. {b} \ {b} = {}
      OBVIOUS
    <3> QED
      BY <3>1, <3>2, Settle DEF Good
  <2>18. UsedKept(h, j, {b})
    <3>1. \A x \in Heads(h) : (x # b => Sz(j, x) = Sz(h, x)) /\ (Fr(j, x) <=> Fr(h, x))
      BY <2>7, <2>10, <2>11
    <3>2. \A x : x \in UsedOf(j) \ {b} <=> x \in UsedOf(h) \ {b}
      BY <2>7, <2>12, <3>1 DEF UsedOf
    <3>3. \A x \in UsedOf(h) \ {b} : Sz(j, x) = Sz(h, x)
      BY <3>1 DEF UsedOf
    <3> QED
      BY <3>2, <3>3 DEF UsedKept
  <2>19. UsedKept(j, k, {}) \/ UsedKept(j, k, {b})
    <3>1. r \notin UsedOf(j) /\ r \notin UsedOf(k)
      BY <2>12, <2>15 DEF UsedOf
    <3> QED
      BY <2>14, <3>1 DEF UsedKept
  <2>20. UsedKept(h, g, {b})
    BY <2>16, <2>18, <2>19 DEF UsedKept, SameHeaders
  <2>21. b \in UsedOf(g) /\ Sz(g, b) = s
    <3>1. s # 0
      BY ConstantsAre DEF Fits
    <3> QED
      BY <2>15, <2>16, <3>1 DEF SameHeaders, UsedOf
  <2>22. s <= s
    BY DEF Fits
  <2> QED
    BY <2>17, <2>20, <2>21, <2>22
<1> QED
  BY <1>3, <1>4

(* A free block in hand is trimmed and becomes the client's.               *)
LEMMA PrepareUsedIs ==
  ASSUME NEW P, Fitting(P), NEW h, NEW b, Whole(h, P, b), NEW s, Fits(s), Sz(h, b) >= s, NEW g, g = PrepareUsed(h, b, s)
  PROVE  Good(g, P) /\ UsedKept(h, g, {b}) /\ b \in UsedOf(g) /\ Sz(g, b) >= s
<1>1. PICK k : k = TrimFree(h, b, s)
  OBVIOUS
<1>2. g = MarkUsed(k, b)
  BY <1>1 DEF PrepareUsed
<1>3. Loose(k, P, {b}) /\ Fr(k, b) /\ UsedKept(h, k, {}) /\ Sz(k, b) >= s
  BY <1>1, TrimFreeIs
<1>4. /\ Loose(g, P, {b} \ {b}) /\ SameRest(k, g)
      /\ \A x \in Heads(k) : Sz(g, x) = Sz(k, x) /\ (Fr(g, x) <=> x # b /\ Fr(k, x))
  <2>1. b \in {b}
    OBVIOUS
  <2> QED
    BY <1>2, <1>3, <2>1, LooseUsed
<1>5. {b} \ {b} = {} /\ b \in Heads(k) /\ Sz(k, b) # 0
  BY <1>3 DEF Loose
<1>6. UsedKept(k, g, {b}) /\ b \in UsedOf(g)
  BY <1>4, <1>5 DEF UsedKept, UsedOf, SameRest
<1> QED
  BY <1>3, <1>4, <1>5, <1>6 DEF Good, UsedKept

(* A free block taken out of its list.                                     *)
LEMMA TakeFree ==
  ASSUME NEW P, Fitting(P), NEW h, Good(h, P), NEW b \in FreeOf(h), NEW c, c = mapping_insert(Sz(h, b)),
         NEW g, g = RemoveFree(h, b, c)
  PROVE  Whole(g, P, b) /\ ~ Pf(g, b) /\ UsedKept(h, g, {}) /\ Sz(g, b) = Sz(h, b) /\ b \notin UsedOf(h)
<1>1. b \in FreeOf(h) \ {} /\ Loose(h, P, {}) /\ {} \cup {b} = {b}
  BY DEF Good
<1>2. Loose(g, P, {b}) /\ SameHeaders(h, g)
  <2>1. PICK S : S = {}
    OBVIOUS
  <2>2. Loose(h, P, S) /\ b \in FreeOf(h) \ S /\ S \cup {b} = {b}
    BY <1>1, <2>1
  <2>3. Loose(g, P, S \cup {b}) /\ SameHeaders(h, g)
    BY <2>2, LooseRemove
  <2> QED
    BY <2>2, <2>3
<1>3. b \in Heads(h) /\ Sz(h, b) # 0 /\ Fr(h, b)
  BY DEF FreeOf
<1>4. OwnFlags(h, b) /\ ~ Fr(h, NextOf(h, b))
  BY <1>1, <1>3 DEF Loose
<1>5. ~ Pf(h, b)
  BY <1>1, FreeAfterUsed
<1> QED
  BY <1>2, <1>3, <1>4, <1>5 DEF SameHeaders, Whole, OwnFlags, UsedKept, UsedOf

-----------------------------------------------------------------------------
(* Requests and alignments.                                                *)

LEMMA MaxIs == ASSUME NEW x \in Int, NEW y \in Int PROVE Max({x, y}) = IF x >= y THEN x ELSE y
<1>1. PICK m : m = (IF x >= y THEN x ELSE y)
  OBVIOUS
<1>2. m \in {x, y} /\ \A w \in {x, y} : m >= w
  BY <1>1
<1>3. \A v \in {x, y} : (\A w \in {x, y} : v >= w) => v = m
  BY <1>1
<1>4. Max({x, y}) \in {x, y} /\ \A w \in {x, y} : Max({x, y}) >= w
  BY <1>2 DEF Max
<1> QED
  BY <1>1, <1>3, <1>4

LEMMA MinIs == ASSUME NEW T, T \subseteq Nat, T # {} PROVE Min(T) \in T /\ \A y \in T : Min(T) <= y
<1>1. \E x \in T : \A y \in T : x <= y
  BY Least
<1> QED
  BY <1>1 DEF Min

LEMMA AlignsUp ==
  ASSUME NEW x \in Nat, NEW a \in Nat \ {0}, x + a <= Bit[SizeBits]
  PROVE  /\ align_up(x, a) \in Nat /\ align_up(x, a) % a = 0 /\ align_up(x, a) >= x /\ align_up(x, a) < x + a
         /\ x % a = 0 => align_up(x, a) = x
<1>1. PICK M \in Nat \ {0} : M = Bit[SizeBits]
  BY ConstantsAre
<1>2. PICK y : y = x + a - 1
  OBVIOUS
<1>3. y \in Nat /\ y < M
  BY <1>1, <1>2
<1>4. y % M = y
  <2>1. y \in 0..M - 1 /\ 0 \in Int
    BY <1>3
  <2>2. ((M * 0) + y) % M = y
    BY <2>1, QuotientIs
  <2>3. (M * 0) + y = y
    BY <1>3
  <2> QED
    BY <2>2, <2>3
<1>5. align_up(x, a) = y - (y % a)
  BY <1>1, <1>2, <1>4 DEF align_up
<1>6. PICK d : d = y - (y % a)
  OBVIOUS
<1>7. d \in Int /\ d <= y /\ y < d + a /\ d % a = 0
  <2>1. d = align_down(y, a) /\ y \in Int
    BY <1>3, <1>6 DEF align_down
  <2> QED
    BY <2>1, AlignsDown
<1>8. d >= x /\ d \in Nat /\ d < x + a
  BY <1>2, <1>7
<1>9. x % a = 0 => d = x
  <2>1. HAVE x % a = 0
  <2>2. d > x => d >= x + a
    <3>1. x \in Int /\ d \in Int /\ x % a = 0 /\ d % a = 0
      BY <1>7, <2>1
    <3> QED
      BY <3>1, Multiples, Zenon
  <2> QED
    BY <1>8, <2>2
<1> QED
  BY <1>5, <1>6, <1>7, <1>8, <1>9

LEMMA AlignsUpOver ==
  ASSUME NEW x \in Nat, NEW a \in Nat \ {0}, x < Bit[SizeBits], a <= Bit[SizeBits], x + a > Bit[SizeBits]
  PROVE  align_up(x, a) \in Int /\ align_up(x, a) < x
<1>1. PICK M \in Nat \ {0} : M = Bit[SizeBits]
  BY ConstantsAre
<1>2. PICK y : y = (x + a - 1) - M
  OBVIOUS
<1>3. y \in Nat /\ y < M /\ y < x
  BY <1>1, <1>2
<1>4. (x + a - 1) % M = y
  <2>1. y \in 0..M - 1 /\ 1 \in Int
    BY <1>3
  <2>2. ((M * 1) + y) % M = y
    BY <2>1, QuotientIs
  <2>3. (M * 1) + y = x + a - 1
    BY <1>2
  <2> QED
    BY <2>2, <2>3
<1>5. align_up(x, a) = align_down(y, a)
  BY <1>1, <1>4 DEF align_up, align_down
<1>6. align_down(y, a) \in Int /\ align_down(y, a) <= y
  <2>1. y \in Int
    BY <1>3
  <2> QED
    BY <2>1, AlignsDown, Zenon
<1> QED
  BY <1>3, <1>5, <1>6

LEMMA AdjustIs ==
  ASSUME NEW size \in Nat, size < Bit[SizeBits], NEW a \in Nat \ {0}, a <= Bit[SizeBits], a % ALIGN_SIZE = 0,
         NEW d, d = adjust_request_size(size, a), d # 0
  PROVE  Fits(d) /\ d >= size /\ d < block_size_max
<1>1. PICK W \in Nat \ {0} : W = ALIGN_SIZE /\ block_size_min = 3 * W
  BY ConstantsAre
<1>2. PICK u : u = align_up(size, a)
  OBVIOUS
<1>3. size # 0 /\ u < block_size_max /\ u >= size /\ d = Max({u, block_size_min})
  BY <1>2 DEF adjust_request_size
<1>4. size + a <= Bit[SizeBits]
  <2>1. SUFFICES ASSUME ~ (size + a <= Bit[SizeBits]) PROVE FALSE
    OBVIOUS
  <2>2. size + a > Bit[SizeBits]
    BY <2>1, ConstantsAre
  <2>3. u \in Int /\ u < size
    BY <1>2, <2>2, AlignsUpOver
  <2> QED
    BY <1>3, <2>3
<1>5. u \in Nat /\ u % a = 0
  BY <1>2, <1>4, AlignsUp
<1>6. Aligned(u)
  <2>1. PICK q \in Int : a = W * q
    BY <1>1, Divides
  <2>2. q \in Nat
    BY <2>1
  <2>3. u \in Int
    BY <1>5
  <2> QED
    BY <1>1, <1>5, <2>1, <2>2, <2>3, MultiplesOfMultiples DEF Aligned
<1>7. Aligned(3 * W)
  <2>1. (W * 3) % W = 0
    BY Multiple
  <2>2. W * 3 = 3 * W
    OBVIOUS
  <2> QED
    BY <1>1, <2>1, <2>2 DEF Aligned
<1>8. d = IF u >= 3 * W THEN u ELSE 3 * W
  <2>1. u \in Int /\ 3 * W \in Int
    BY <1>5
  <2>2. Max({u, 3 * W}) = IF u >= 3 * W THEN u ELSE 3 * W
    BY <2>1, MaxIs
  <2> QED
    BY <1>1, <1>3, <2>2
<1>9. 3 * W < block_size_max
  <2>1. PICK P : P = {FirstPool}
    OBVIOUS
  <2>2. Fitting(P) /\ FirstPool \in P
    BY <2>1, TlsfAssumption DEF Fitting
  <2>3. TopOf(FirstPool) \in Nat /\ FirstBlock(FirstPool) \in Nat
        /\ TopOf(FirstPool) >= FirstBlock(FirstPool) + 4 * W
        /\ TopOf(FirstPool) < FirstBlock(FirstPool) + W + block_size_max
    BY <1>1, <2>2, PoolIs
  <2> QED
    BY <2>3, ConstantsAre
<1>10. d \in Nat /\ d >= 3 * W /\ d >= size /\ d < block_size_max /\ Aligned(d)
  BY <1>3, <1>5, <1>6, <1>7, <1>8, <1>9
<1> QED
  BY <1>1, <1>10 DEF Fits

(* A block of the largest class has room for a header more.                *)
LEMMA HeaderIsSmall == HeaderSize <= block_size_max
<1>1. PICK W \in Nat \ {0} : W = ALIGN_SIZE /\ HeaderSize = 4 * W
  BY ConstantsAre
<1>2. PICK d : d = align_down(FirstPool.bytes - PoolOverhead, ALIGN_SIZE)
  OBVIOUS
<1>3. d \in Int /\ d % W = 0
  <2>1. FirstPool.bytes - PoolOverhead \in Int
    BY TlsfAssumption, ConstantsAre
  <2> QED
    BY <1>1, <1>2, <2>1, AlignsDown
<1>4. d >= 3 * W /\ d < block_size_max /\ block_size_max \in Int /\ block_size_max % W = 0
  BY <1>1, <1>2, <1>3, TlsfAssumption, ConstantsAre DEF PoolFits
<1>5. block_size_max >= d + W
  BY <1>3, <1>4, Multiples
<1> QED
  BY <1>1, <1>3, <1>4, <1>5

LEMMA AlignmentIs ==
  ASSUME NEW k \in AlignBits
  PROVE  /\ Bit[k] \in Nat \ {0} /\ 2 * Bit[k] <= Bit[SizeBits] /\ Bit[SizeBits] % Bit[k] = 0
         /\ Bit[k] <= ALIGN_SIZE => \A x \in Int : Aligned(x) => x % Bit[k] = 0
         /\ Bit[k] > ALIGN_SIZE => Bit[k] % ALIGN_SIZE = 0
<1>1. k \in Nat /\ k <= SizeBits - 1 /\ SizeBits \in Nat /\ SizeBits - 1 \in Nat
  BY TlsfAssumption, ConstantsAre
<1>2. Bit[k] \in Nat \ {0} /\ Bit[SizeBits - 1] \in Nat
  BY <1>1, BitGrows
<1>3. Bit[SizeBits] = 2 * Bit[SizeBits - 1]
  <2>1. Bit[(SizeBits - 1) + 1] = 2 * Bit[SizeBits - 1]
    BY <1>1, BitGrows
  <2>2. (SizeBits - 1) + 1 = SizeBits
    BY <1>1
  <2> QED
    BY <2>1, <2>2
<1>4. Bit[k] <= Bit[SizeBits - 1]
  BY <1>1, BitMonotone
<1>5. Bit[SizeBits] % Bit[k] = 0
  <2>1. PICK M \in Nat \ {0} : M = Bit[SizeBits]
    BY ConstantsAre
  <2>2. 0 % M = 0 /\ k <= SizeBits /\ 0 \in Int
    BY <1>1
  <2> QED
    BY <1>1, <2>1, <2>2, BitDivides
<1>6. ALIGN_SIZE_LOG2 \in Nat /\ ALIGN_SIZE = Bit[ALIGN_SIZE_LOG2] /\ Bit[ALIGN_SIZE_LOG2] \in Nat
  BY ConstantsAre DEF ALIGN_SIZE
<1>7. CASE k <= ALIGN_SIZE_LOG2
  <2>1. Bit[k] <= ALIGN_SIZE
    BY <1>1, <1>6, <1>7, BitMonotone
  <2>2. ASSUME NEW x \in Int, Aligned(x) PROVE x % Bit[k] = 0
    BY <1>1, <1>6, <1>7, <2>2, BitDivides DEF Aligned
  <2>3. ~ (Bit[k] > ALIGN_SIZE)
    BY <1>2, <1>6, <2>1
  <2> QED
    BY <1>2, <1>3, <1>4, <1>5, <2>2, <2>3
<1>8. CASE ~ (k <= ALIGN_SIZE_LOG2)
  <2>1. ALIGN_SIZE_LOG2 + 1 <= k /\ ALIGN_SIZE_LOG2 + 1 \in Nat /\ ALIGN_SIZE_LOG2 <= k
    BY <1>1, <1>6, <1>8
  <2>2. Bit[ALIGN_SIZE_LOG2 + 1] <= Bit[k] /\ Bit[ALIGN_SIZE_LOG2 + 1] = 2 * Bit[ALIGN_SIZE_LOG2]
    BY <1>1, <1>6, <2>1, BitMonotone, BitGrows
  <2>3. ~ (Bit[k] <= ALIGN_SIZE)
    BY <1>2, <1>6, <2>2, ConstantsAre
  <2>4. Bit[k] % ALIGN_SIZE = 0
    <3>1. PICK M \in Nat \ {0} : M = Bit[k]
      BY <1>2
    <3>2. 0 % M = 0 /\ 0 \in Int
      OBVIOUS
    <3> QED
      BY <1>1, <1>6, <2>1, <3>1, <3>2, BitDivides
  <2> QED
    BY <1>2, <1>3, <1>4, <1>5, <2>3, <2>4
<1> QED
  BY <1>7, <1>8

(* The gap to an aligned address is none or has room for a header.         *)
LEMMA GapIs ==
  ASSUME NEW k \in AlignBits, Bit[k] > ALIGN_SIZE, NEW p \in Nat, Aligned(p),
         p + Bit[k] + HeaderSize <= Bit[SizeBits], NEW gap, gap = GapOf(p, Bit[k])
  PROVE  /\ gap \in Nat /\ Aligned(gap) /\ (p + gap) % Bit[k] = 0
         /\ gap # 0 => gap >= 4 * ALIGN_SIZE
         /\ gap <= Bit[k] + 3 * ALIGN_SIZE
<1>1. PICK W \in Nat \ {0} : W = ALIGN_SIZE /\ HeaderSize = 4 * W
  BY ConstantsAre
<1>2. PICK a \in Nat \ {0} : a = Bit[k]
  BY AlignmentIs
<1>3. PICK M \in Nat \ {0} : M = Bit[SizeBits]
  BY ConstantsAre
<1>4. a > W /\ a % W = 0 /\ M % a = 0 /\ p + a + 4 * W <= M
  BY <1>1, <1>2, <1>3, AlignmentIs
<1>5. \A x \in Int : x % a = 0 => x % W = 0
  <2>1. a \in Int /\ a % W = 0 /\ a \in Nat \ {0}
    BY <1>4
  <2>2. PICK q \in Int : a = W * q
    BY <2>1, Divides, Zenon
  <2>3. q \in Nat
    <3>1. SUFFICES ASSUME q <= 0 PROVE FALSE
      OBVIOUS
    <3>2. W * q <= W * 0 /\ W * 0 = 0
      BY <3>1, ProductGrows
    <3> QED
      BY <2>1, <2>2, <3>2
  <2> QED
    BY <2>1, <2>2, <2>3, MultiplesOfMultiples, Zenon
<1>6. PICK u : u = align_up(p, a)
  OBVIOUS
<1>7. u \in Nat /\ u % a = 0 /\ u >= p /\ u < p + a
  <2>1. p + a <= Bit[SizeBits]
    BY <1>3, <1>4
  <2> QED
    BY <1>6, <2>1, AlignsUp
<1>8. PICK g : g = u - p
  OBVIOUS
<1>9. p % W = 0 /\ u % W = 0
  <2>1. u \in Int /\ u % a = 0
    BY <1>7
  <2>2. p % W = 0
    BY <1>1 DEF Aligned
  <2> QED
    BY <1>5, <2>1, <2>2, Zenon
<1>10. g \in Nat /\ g < a /\ g % W = 0 /\ p + g = u
  <2>1. p \in Int /\ u \in Int /\ g \in Nat /\ g < a /\ p + g = u
    BY <1>7, <1>8
  <2>2. (u - p) % W = 0
    BY <1>9, <2>1, Multiples, Zenon
  <2> QED
    BY <1>8, <2>1, <2>2, Zenon
<1>11. CASE g = 0 \/ g >= 4 * W
  <2>1. gap = g
    BY <1>1, <1>2, <1>6, <1>8, <1>11 DEF GapOf
  <2> QED
    BY <1>1, <1>2, <1>7, <1>10, <1>11, <2>1 DEF Aligned
<1>12. CASE ~ (g = 0 \/ g >= 4 * W)
  <2>1. PICK o : o = Max({HeaderSize - g, a})
    OBVIOUS
  <2>2. PICK v : v = align_up(p + g + o, a)
    OBVIOUS
  <2>3. gap = v - p
    BY <1>1, <1>2, <1>6, <1>8, <1>12, <2>1, <2>2 DEF GapOf
  <2>4. o = IF 4 * W - g >= a THEN 4 * W - g ELSE a
    <3>1. 4 * W - g \in Int /\ a \in Int
      BY <1>10
    <3>2. Max({4 * W - g, a}) = IF 4 * W - g >= a THEN 4 * W - g ELSE a
      BY <3>1, MaxIs
    <3> QED
      BY <1>1, <2>1, <3>2
  <2>5. v \in Nat /\ v % a = 0 /\ v >= p + 4 * W /\ v < p + a + 4 * W
    <3>1. CASE 4 * W - g >= a
      <4>1. PICK t \in Nat : t = p + 4 * W
        OBVIOUS
      <4>2. p + g + o = t /\ t + a <= Bit[SizeBits]
        BY <1>3, <1>4, <1>10, <2>4, <3>1, <4>1
      <4>3. align_up(t, a) \in Nat /\ align_up(t, a) % a = 0 /\ align_up(t, a) >= t /\ align_up(t, a) < t + a
        BY <4>2, AlignsUp
      <4> QED
        BY <2>2, <4>1, <4>2, <4>3
    <3>2. CASE ~ (4 * W - g >= a)
      <4>1. PICK t \in Nat : t = u + a
        BY <1>7
      <4>2. p + g + o = t
        BY <1>10, <2>4, <3>2, <4>1
      <4>3. t % a = 0
        <5>1. a % a = 0 /\ a \in Int /\ u \in Int
          BY <1>7
        <5> QED
          BY <1>7, <4>1, <5>1, Multiples
      <4>4. t + a <= M
        <5>1. M > t
          BY <1>4, <1>10, <1>12, <4>1
        <5>2. M \in Int /\ t \in Int /\ t % a = 0 /\ M % a = 0
          BY <1>4, <4>3
        <5> QED
          BY <5>1, <5>2, Multiples
      <4>5. v = t
        BY <1>3, <2>2, <4>2, <4>3, <4>4, AlignsUp
      <4> QED
        BY <1>4, <1>10, <1>12, <3>2, <4>1, <4>3, <4>5
    <3> QED
      BY <3>1, <3>2
  <2>6. gap \in Nat /\ p + gap = v /\ gap >= 4 * W /\ gap < a + 4 * W
    BY <2>3, <2>5
  <2>7. gap % W = 0
    <3>1. v \in Int /\ p \in Int /\ v % a = 0
      BY <2>5
    <3>2. v % W = 0
      BY <1>5, <3>1, Zenon
    <3>3. (v - p) % W = 0
      BY <1>9, <3>1, <3>2, Multiples, Zenon
    <3> QED
      BY <2>3, <3>3, Zenon
  <2>8. gap <= a + 3 * W
    <3>1. PICK t \in Int : t = a + 4 * W
      OBVIOUS
    <3>2. t % W = 0
      <4>1. (W * 4) % W = 0
        BY Multiple
      <4>2. (4 * W) % W = 0 /\ 4 * W \in Int /\ a \in Int
        BY <4>1
      <4> QED
        BY <1>4, <3>1, <4>2, Multiples
    <3>3. t > gap /\ gap \in Int
      BY <2>6, <3>1
    <3>4. t >= gap + W
      BY <2>7, <3>2, <3>3, Multiples
    <3> QED
      BY <2>6, <3>1, <3>4
  <2> QED
    BY <1>1, <1>2, <2>5, <2>6, <2>7, <2>8 DEF Aligned
<1> QED
  BY <1>11, <1>12

(* Alignments a word or less ask for nothing.                              *)
LEMMA NoGap ==
  ASSUME NEW k \in AlignBits, Bit[k] <= ALIGN_SIZE, NEW p \in Nat, Aligned(p), p + ALIGN_SIZE <= Bit[SizeBits]
  PROVE  GapOf(p, Bit[k]) = 0 /\ p % Bit[k] = 0
<1>1. PICK a \in Nat \ {0} : a = Bit[k]
  BY AlignmentIs
<1>2. p \in Int /\ p % a = 0
  BY <1>1, AlignmentIs
<1>3. p + a <= Bit[SizeBits]
  BY <1>1, ConstantsAre
<1>4. align_up(p, a) = p
  BY <1>2, <1>3, AlignsUp
<1> QED
  BY <1>1, <1>2, <1>4 DEF GapOf

-----------------------------------------------------------------------------
(* The search.                                                             *)

LEMMA LocateIs ==
  ASSUME NEW h, IsHeap(h), NEW F, Listed(h, F), NEW size \in Nat, size < block_size_max, size # 0
  PROVE  /\ \A c \in Locate(h, size) : c \in Classes /\ h.list[c] # << >> /\ FromOn(mapping_search(size), c)
         /\ Locate(h, size) = {} => \A d \in Classes : FromOn(mapping_search(size), d) => h.list[d] = << >>
<1>1. PICK i \in Nat, j \in 0..SL_INDEX_COUNT - 1 : mapping_search(size) = <<i, j>>
  BY SearchHasColumn
<1>2. PICK m : m = <<i, j>>
  OBVIOUS
<1>3. mapping_search(size) = m /\ m[1] = i /\ m[2] = j
  BY <1>1, <1>2
<1>4. FL_INDEX_COUNT \in Nat /\ SL_INDEX_COUNT \in Nat
  BY ConstantsAre
<1>5. CASE i >= FL_INDEX_COUNT
  <2>1. Locate(h, size) = {}
    BY <1>3, <1>5 DEF Locate
  <2>2. \A d \in Classes : d[1] < i
    BY <1>4, <1>5, ClassParts
  <2>3. \A d \in Classes : ~ FromOn(m, d)
    BY <1>3, <1>4, <2>2, ClassParts DEF FromOn
  <2> QED
    BY <1>3, <2>1, <2>3
<1>6. CASE ~ (i >= FL_INDEX_COUNT)
  <2>1. i \in 0..FL_INDEX_COUNT - 1 /\ Locate(h, size) = search_suitable_block(h, m)
    BY <1>3, <1>4, <1>6 DEF Locate
  <2>2. PICK here, above : here = {s \in h.sl[i] : s >= j} /\ above = {f \in h.fl : f > i}
    OBVIOUS
  <2>3. /\ here # {} => search_suitable_block(h, m) = {<<i, ffs(here)>>}
        /\ here = {} /\ above # {} => search_suitable_block(h, m) = {<<ffs(above), ffs(h.sl[ffs(above)])>>}
        /\ here = {} /\ above = {} => search_suitable_block(h, m) = {}
    BY <1>3, <2>2 DEF search_suitable_block
  <2>4. /\ h.fl \subseteq 0..FL_INDEX_COUNT - 1
        /\ h.sl \in [0..FL_INDEX_COUNT - 1 -> SUBSET (0..SL_INDEX_COUNT - 1)]
    BY DEF IsHeap
  <2>5. \A d \in Classes : (d[2] \in h.sl[d[1]] <=> h.list[d] # << >>) /\ (d[1] \in h.fl <=> h.sl[d[1]] # {})
    BY DEF Listed
  <2>6. \A x \in 0..FL_INDEX_COUNT - 1, y \in 0..SL_INDEX_COUNT - 1 :
          <<x, y>> \in Classes /\ <<x, y>>[1] = x /\ <<x, y>>[2] = y
    BY DEF Classes
  <2>7. ASSUME NEW c \in Locate(h, size) PROVE c \in Classes /\ h.list[c] # << >> /\ FromOn(m, c)
    <3>1. CASE here # {}
      <4>1. here \subseteq Nat
        BY <1>4, <2>1, <2>2, <2>4
      <4>2. PICK s \in here : s = ffs(here)
        BY <3>1, <4>1, MinIs DEF ffs
      <4>3. c = <<i, s>> /\ s \in h.sl[i] /\ s >= j /\ s \in 0..SL_INDEX_COUNT - 1
        BY <2>1, <2>2, <2>3, <2>4, <2>7, <3>1, <4>2
      <4>4. c \in Classes /\ c[1] = i /\ c[2] = s
        BY <2>1, <2>6, <4>3
      <4> QED
        BY <1>3, <2>5, <4>3, <4>4 DEF FromOn
    <3>2. CASE here = {} /\ above # {}
      <4>1. above \subseteq Nat
        BY <1>4, <2>1, <2>2, <2>4
      <4>2. PICK f \in above : f = ffs(above)
        BY <3>2, <4>1, MinIs DEF ffs
      <4>3. f \in h.fl /\ f > i /\ f \in 0..FL_INDEX_COUNT - 1
        BY <2>2, <2>4, <4>2
      <4>4. 0 \in 0..SL_INDEX_COUNT - 1
        BY ConstantsAre
      <4>5. h.sl[f] # {}
        <5>1. <<f, 0>> \in Classes /\ <<f, 0>>[1] = f
          BY <2>6, <4>3, <4>4
        <5> QED
          BY <2>5, <4>3, <5>1
      <4>6. h.sl[f] \subseteq 0..SL_INDEX_COUNT - 1 /\ h.sl[f] \subseteq Nat
        BY <1>4, <2>4, <4>3
      <4>7. PICK s \in h.sl[f] : s = ffs(h.sl[f])
        BY <4>5, <4>6, MinIs DEF ffs
      <4>8. c = <<f, s>> /\ s \in 0..SL_INDEX_COUNT - 1
        BY <2>1, <2>3, <2>7, <3>2, <4>2, <4>6, <4>7
      <4>9. c \in Classes /\ c[1] = f /\ c[2] = s
        BY <2>6, <4>3, <4>8
      <4> QED
        BY <1>3, <2>5, <4>3, <4>7, <4>9 DEF FromOn
    <3> QED
      BY <2>1, <2>3, <2>7, <3>1, <3>2
  <2>8. ASSUME Locate(h, size) = {}, NEW d \in Classes, FromOn(m, d) PROVE h.list[d] = << >>
    <3>1. here = {} /\ above = {}
      BY <2>1, <2>3, <2>8
    <3>2. d[1] \in 0..FL_INDEX_COUNT - 1 /\ d[2] \in 0..SL_INDEX_COUNT - 1
      BY ClassParts
    <3>3. CASE d[1] > i
      BY <2>2, <2>5, <3>1, <3>2, <3>3
    <3>4. CASE d[1] = i /\ d[2] >= j
      BY <2>2, <2>5, <3>1, <3>2, <3>4
    <3> QED
      BY <1>3, <2>8, <3>3, <3>4 DEF FromOn
  <2> QED
    BY <1>3, <2>7, <2>8
<1> QED
  BY <1>5, <1>6

(* A search finds a free block, and one large enough.                      *)
LEMMA FoundIs ==
  ASSUME NEW P, Fitting(P), NEW h, Good(h, P), NEW size, Fits(size), size < block_size_max,
         NEW c \in Locate(h, size), NEW b, b = Head(h.list[c])
  PROVE  b \in FreeOf(h) /\ c = mapping_insert(Sz(h, b)) /\ Sz(h, b) >= size
<1>1. IsHeap(h) /\ Listed(h, FreeOf(h)) /\ Tiled(Sizes(h), P)
  <2>1. FreeOf(h) \ {} = FreeOf(h)
    OBVIOUS
  <2> QED
    BY <2>1 DEF Good, Loose
<1>2. size \in Nat /\ size # 0 /\ size % ALIGN_SIZE = 0
  BY ConstantsAre DEF Fits, Aligned
<1>3. c \in Classes /\ h.list[c] # << >> /\ FromOn(mapping_search(size), c)
  BY <1>1, <1>2, LocateIs
<1>4. h.list[c] \in Seq(Int)
  BY <1>1, <1>3 DEF IsHeap
<1>5. b \in ToSet(h.list[c])
  <2>1. 1 \in DOMAIN h.list[c] /\ b = h.list[c][1]
    BY <1>3, <1>4
  <2> QED
    BY <2>1 DEF ToSet
<1>6. b \in FreeOf(h) /\ c = mapping_insert(Sz(h, b))
  BY <1>1, <1>3, <1>5 DEF Listed
<1>7. Sz(h, b) \in Nat /\ Sz(h, b) < block_size_max
  BY <1>1, <1>6, BlockIs DEF FreeOf
<1>8. Sz(h, b) >= size
  BY <1>2, <1>3, <1>6, <1>7, SearchFits
<1> QED
  BY <1>6, <1>8

-----------------------------------------------------------------------------
(* The calls.                                                              *)

(* A call that allocates answers nothing and changes nothing, or answers a *)
(* new block, long enough and aligned, and keeps the others.               *)
Allocated(h, P, g, q, size, a) ==
  /\ Good(g, P)
  /\ \/ q = Null /\ g = h
     \/ \E b \in UsedOf(g) : /\ q = ToPtr(b) /\ b \notin UsedOf(h) /\ UsedKept(h, g, {b})
                             /\ Sz(g, b) >= size /\ ToPtr(b) % a = 0

LEMMA NothingFound == ASSUME NEW h PROVE Locate(h, 0) = {}
BY DEF Locate

LEMMA PointerIs ==
  ASSUME NEW P, Fitting(P), NEW S, NEW h, Loose(h, P, S), NEW b \in Heads(h)
  PROVE  b \in Nat /\ Aligned(b) /\ ToPtr(b) = b + 2 * ALIGN_SIZE /\ ToPtr(b) \in Nat /\ Aligned(ToPtr(b)) /\ FromPtr(ToPtr(b)) = b
<1>1. PICK W \in Nat \ {0} : W = ALIGN_SIZE /\ Overhead = W
  BY ConstantsAre
<1>2. b \in Nat
  BY HeaderIs DEF Loose
<1>3. Aligned(b)
  BY DEF Loose, Tiled, Sizes, Heads
<1>4. Aligned((b + W) + W)
  <2>1. b \in Int /\ W \in Int /\ Aligned(W)
    BY <1>1, <1>2, AlignedSums
  <2>2. b + W \in Int /\ Aligned(b + W)
    BY <1>3, <2>1, AlignedSums
  <2> QED
    BY <2>1, <2>2, AlignedSums, Zenon
<1>5. (b + W) + W = b + 2 * W /\ b + 2 * W \in Nat /\ (b + 2 * W) - 2 * W = b
  BY <1>2
<1>6. Aligned(b + 2 * W)
  BY <1>4, <1>5
<1> QED
  BY <1>1, <1>2, <1>3, <1>5, <1>6 DEF ToPtr, FromPtr

LEMMA WordIs == ALIGN_SIZE \in Nat \ {0} /\ ALIGN_SIZE <= Bit[SizeBits] /\ ALIGN_SIZE % ALIGN_SIZE = 0
<1>1. ALIGN_SIZE \in Nat \ {0} /\ ALIGN_SIZE <= Bit[SizeBits]
  BY ConstantsAre
<1>2. PICK W \in Nat \ {0} : W = ALIGN_SIZE
  BY <1>1
<1>3. W % W = 0
  OBVIOUS
<1> QED
  BY <1>1, <1>2, <1>3

LEMMA MallocIs ==
  ASSUME NEW P, Fitting(P), NEW h, Good(h, P), NEW size \in Nat, size < Bit[SizeBits],
         NEW g, NEW q, Malloc(h, size) = <<g, q>>
  PROVE  Allocated(h, P, g, q, size, ALIGN_SIZE)
<1>1. PICK adjust : adjust = adjust_request_size(size, ALIGN_SIZE)
  OBVIOUS
<1>2. CASE Locate(h, adjust) = {}
  <2>1. Malloc(h, size) = <<h, Null>>
    BY <1>1, <1>2 DEF Malloc
  <2> QED
    BY <2>1 DEF Allocated
<1>3. CASE Locate(h, adjust) # {}
  <2>1. adjust # 0
    BY <1>3, NothingFound
  <2>2. Fits(adjust) /\ adjust >= size /\ adjust < block_size_max
    BY <1>1, <2>1, WordIs, AdjustIs
  <2>3. PICK c \in Locate(h, adjust) : c = CHOOSE x \in Locate(h, adjust) : TRUE
    BY <1>3
  <2>4. PICK b : b = Head(h.list[c])
    OBVIOUS
  <2>5. b \in FreeOf(h) /\ c = mapping_insert(Sz(h, b)) /\ Sz(h, b) >= adjust
    BY <2>2, <2>4, FoundIs
  <2>6. PICK k : k = RemoveFree(h, b, c)
    OBVIOUS
  <2>7. Whole(k, P, b) /\ ~ Pf(k, b) /\ UsedKept(h, k, {}) /\ Sz(k, b) = Sz(h, b) /\ b \notin UsedOf(h)
    BY <2>5, <2>6, TakeFree
  <2>8. Malloc(h, size) = <<PrepareUsed(k, b, adjust), ToPtr(b)>>
    BY <1>1, <1>3, <2>3, <2>4, <2>6, Zenon DEF Malloc
  <2>9. g = PrepareUsed(k, b, adjust) /\ q = ToPtr(b)
    BY <2>8
  <2>10. Good(g, P) /\ UsedKept(k, g, {b}) /\ b \in UsedOf(g) /\ Sz(g, b) >= adjust
    BY <2>2, <2>5, <2>7, <2>9, PrepareUsedIs
  <2>11. UsedKept(h, g, {b})
    BY <2>7, <2>10 DEF UsedKept
  <2>12. Sz(g, b) >= size /\ ToPtr(b) % ALIGN_SIZE = 0
    <3>1. b \in Heads(g) /\ Loose(g, P, {})
      BY <2>10 DEF UsedOf, Good
    <3>2. Aligned(ToPtr(b)) /\ Sz(g, b) \in Nat
      BY <3>1, PointerIs, HeaderIs DEF Loose
    <3>3. adjust \in Nat
      BY <2>2 DEF Fits
    <3>4. Sz(g, b) >= size
      BY <2>2, <2>10, <3>2, <3>3
    <3> QED
      BY <3>2, <3>4 DEF Aligned
  <2> QED
    BY <2>7, <2>9, <2>10, <2>11, <2>12 DEF Allocated
<1> QED
  BY <1>2, <1>3

(* The end of an aligned allocation, after the gap.                        *)
LEMMA AlignedTake ==
  ASSUME NEW P, Fitting(P), NEW h, Good(h, P), NEW k, NEW b, Whole(k, P, b), UsedKept(h, k, {}),
         NEW s, Fits(s), Sz(k, b) >= s, NEW size \in Nat, s >= size, NEW a, ToPtr(b) % a = 0, NEW g, g = PrepareUsed(k, b, s)
  PROVE  Allocated(h, P, g, ToPtr(b), size, a)
<1>1. Good(g, P) /\ UsedKept(k, g, {b}) /\ b \in UsedOf(g) /\ Sz(g, b) >= s
  BY PrepareUsedIs
<1>2. b \notin UsedOf(h)
  <2>1. b \notin UsedOf(k)
    BY DEF Whole, UsedOf
  <2> QED
    BY <2>1 DEF UsedKept
<1>3. UsedKept(h, g, {b})
  BY <1>1 DEF UsedKept
<1>4. Sz(g, b) >= size
  <2>1. Sz(g, b) \in Nat /\ s \in Nat
    BY <1>1, HeaderIs DEF Good, Loose, UsedOf, Fits
  <2> QED
    BY <1>1, <2>1
<1> QED
  BY <1>1, <1>2, <1>3, <1>4 DEF Allocated

LEMMA MemalignIs ==
  ASSUME NEW P, Fitting(P), NEW h, Good(h, P), NEW n \in AlignBits, NEW size \in Nat, size < Bit[SizeBits],
         NEW g, NEW q, Memalign(h, Bit[n], size) = <<g, q>>
  PROVE  Allocated(h, P, g, q, size, Bit[n])
<1>1. PICK W \in Nat \ {0}, M \in Nat \ {0}, m \in Nat : /\ W = ALIGN_SIZE /\ M = Bit[SizeBits] /\ m = block_size_max
                                                         /\ HeaderSize = 4 * W /\ 4 * m <= M
  <2>1. /\ ALIGN_SIZE \in Nat \ {0} /\ Bit[SizeBits] \in Nat /\ block_size_max \in Nat
        /\ HeaderSize = 4 * ALIGN_SIZE /\ 4 * block_size_max <= Bit[SizeBits] /\ ALIGN_SIZE <= Bit[SizeBits]
    BY ConstantsAre
  <2>2. Bit[SizeBits] # 0
    BY <2>1
  <2> QED
    BY <2>1, <2>2
<1>2. PICK a \in Nat \ {0} : a = Bit[n] /\ 2 * a <= M
  BY <1>1, AlignmentIs
<1>3. PICK adjust : adjust = adjust_request_size(size, ALIGN_SIZE)
  OBVIOUS
<1>4. PICK withGap : withGap = adjust_request_size((adjust + a + HeaderSize) % Bit[SizeBits], a)
  OBVIOUS
<1>5. PICK wanted : wanted = IF adjust # 0 /\ a > ALIGN_SIZE THEN withGap ELSE adjust
  OBVIOUS
<1>6. CASE Locate(h, wanted) = {}
  <2>1. Memalign(h, a, size) = <<h, Null>>
    BY <1>3, <1>4, <1>5, <1>6, Zenon DEF Memalign
  <2> QED
    BY <1>2, <2>1 DEF Allocated
<1>7. CASE Locate(h, wanted) # {}
  <2>1. wanted # 0 /\ adjust # 0
    BY <1>5, <1>7, NothingFound
  <2>2. Fits(adjust) /\ adjust >= size /\ adjust < block_size_max
    BY <1>3, <2>1, WordIs, AdjustIs
  <2>3. adjust \in Nat /\ adjust >= 3 * W
    BY <1>1, <2>2 DEF Fits
  <2>4. Fits(wanted) /\ wanted < block_size_max
        /\ (a > W => wanted >= adjust + a + 4 * W) /\ (~ (a > W) => wanted = adjust)
    <3>1. CASE a > W
      <4>1. PICK t \in Nat : t = adjust + a + HeaderSize
        BY <1>1, <2>3
      <4>2. t < M
        BY <1>1, <1>2, <2>2, <2>3, <4>1, HeaderIsSmall
      <4>3. t % M = t
        BY <4>2
      <4>4. wanted = adjust_request_size(t, a)
        BY <1>1, <1>4, <1>5, <2>1, <3>1, <4>1, <4>3
      <4>5. a % ALIGN_SIZE = 0 /\ a <= Bit[SizeBits] /\ t < Bit[SizeBits]
        BY <1>1, <1>2, <3>1, <4>2, AlignmentIs
      <4>6. Fits(wanted) /\ wanted >= t /\ wanted < block_size_max
        BY <2>1, <4>4, <4>5, AdjustIs
      <4> QED
        BY <1>1, <3>1, <4>1, <4>6
    <3>2. CASE ~ (a > W)
      BY <1>1, <1>5, <2>2, <3>2
    <3> QED
      BY <3>1, <3>2
  <2>5. PICK c \in Locate(h, wanted) : c = CHOOSE x \in Locate(h, wanted) : TRUE
    BY <1>7
  <2>6. PICK b : b = Head(h.list[c])
    OBVIOUS
  <2>7. b \in FreeOf(h) /\ c = mapping_insert(Sz(h, b)) /\ Sz(h, b) >= wanted
    BY <2>4, <2>6, FoundIs
  <2>8. PICK k : k = RemoveFree(h, b, c)
    OBVIOUS
  <2>9. Whole(k, P, b) /\ ~ Pf(k, b) /\ UsedKept(h, k, {}) /\ Sz(k, b) = Sz(h, b)
    BY <2>7, <2>8, TakeFree
  <2>10. PICK gap : gap = GapOf(ToPtr(b), a)
    OBVIOUS
  <2>11. PICK t : t = IF gap = 0 THEN <<k, b>> ELSE TrimLeading(k, b, gap)
    OBVIOUS
  <2>12. g = PrepareUsed(t[1], t[2], adjust) /\ q = ToPtr(t[2])
    <3>1. Memalign(h, a, size) = <<PrepareUsed(t[1], t[2], adjust), ToPtr(t[2])>>
      BY <1>3, <1>4, <1>5, <1>7, <2>5, <2>6, <2>8, <2>10, <2>11, ZenonT(60) DEF Memalign
    <3> QED
      BY <1>2, <3>1
  <2>13. PICK p \in Nat, z \in Nat : /\ p = ToPtr(b) /\ z = Sz(h, b) /\ Aligned(p) /\ b \in Nat /\ p = b + 2 * W
                                     /\ b + W + z + 2 * W <= M /\ z >= wanted /\ Sz(k, b) = z
    <3>1. Loose(h, P, {}) /\ b \in Heads(h) /\ Sz(h, b) # 0
      BY <2>7 DEF Good, FreeOf
    <3>2. IsHeap(h) /\ Tiled(Sizes(h), P)
      BY <3>1 DEF Loose
    <3>3. ToPtr(b) \in Nat /\ Aligned(ToPtr(b)) /\ ToPtr(b) = b + 2 * ALIGN_SIZE /\ b \in Nat
      BY <3>1, PointerIs
    <3>4. Sz(h, b) \in Nat /\ NextOf(h, b) = b + ALIGN_SIZE + Sz(h, b) /\ NextOf(h, b) + 2 * ALIGN_SIZE <= Bit[SizeBits]
      BY <3>1, <3>2, BlockIs
    <3> QED
      BY <1>1, <2>7, <2>9, <3>3, <3>4
  <2>14. wanted \in Nat
    BY <2>4 DEF Fits
  <2>15. CASE gap = 0
    <3>1. g = PrepareUsed(k, b, adjust) /\ q = ToPtr(b)
      BY <2>11, <2>12, <2>15
    <3>2. z >= adjust
      BY <2>3, <2>4, <2>13, <2>14
    <3>3. p % a = 0
      <4>1. CASE a > W
        <5>1. p + a + 4 * W <= M
          BY <2>3, <2>4, <2>13, <2>14, <4>1
        <5>2. (p + gap) % a = 0
          BY <1>1, <1>2, <2>10, <2>13, <4>1, <5>1, GapIs
        <5>3. p + gap = p
          BY <2>15
        <5> QED
          BY <5>2, <5>3
      <4>2. CASE ~ (a > W)
        <5>1. p + W <= M
          BY <2>13
        <5> QED
          BY <1>1, <1>2, <2>13, <4>2, <5>1, NoGap
      <4> QED
        BY <4>1, <4>2
    <3> QED
      BY <1>2, <2>2, <2>9, <2>13, <3>1, <3>2, <3>3, AlignedTake
  <2>16. CASE gap # 0
    <3>1. a > W
      <4>1. SUFFICES ASSUME ~ (a > W) PROVE FALSE
        OBVIOUS
      <4>2. p + W <= M
        BY <2>13
      <4> QED
        BY <1>1, <1>2, <2>10, <2>13, <2>16, <4>1, <4>2, NoGap
    <3>2. p + a + 4 * W <= M
      BY <2>3, <2>4, <2>13, <2>14, <3>1
    <3>3. /\ gap \in Nat /\ Aligned(gap) /\ (p + gap) % a = 0
          /\ gap >= 4 * W /\ gap <= a + 3 * W
      BY <1>1, <1>2, <2>10, <2>13, <2>16, <3>1, <3>2, GapIs
    <3>4. z >= 4 * W + gap /\ z - gap >= adjust
      BY <2>3, <2>4, <2>13, <2>14, <3>1, <3>3
    <3>5. PICK l, r : TrimLeading(k, b, gap) = <<l, r>>
      BY DEF TrimLeading
    <3>6. r = b + gap /\ Whole(l, P, r) /\ UsedKept(k, l, {}) /\ Sz(l, r) = Sz(k, b) - gap
      BY <1>1, <2>9, <2>13, <3>3, <3>4, <3>5, TrimLeadingIs
    <3>7. t = <<l, r>>
      BY <2>11, <2>16, <3>5
    <3>8. g = PrepareUsed(l, r, adjust) /\ q = ToPtr(r)
      BY <2>12, <3>7
    <3>9. ToPtr(r) = p + gap
      <4>1. Overhead = W
        BY <1>1, ConstantsAre
      <4> QED
        BY <2>13, <3>3, <3>6, <4>1 DEF ToPtr
    <3>10. ToPtr(r) % a = 0
      BY <3>3, <3>9, Zenon
    <3>11. UsedKept(h, l, {})
      BY <2>9, <3>6 DEF UsedKept
    <3>12. Sz(l, r) >= adjust
      BY <2>13, <3>4, <3>6
    <3> QED
      BY <1>2, <2>2, <3>6, <3>8, <3>10, <3>11, <3>12, AlignedTake
  <2> QED
    BY <2>15, <2>16
<1> QED
  BY <1>6, <1>7

(* A reallocation answers nothing and changes nothing, or the block at its *)
(* place, or another one that had no owner.                                *)
Reallocated(h, P, b, g, q, size) ==
  /\ Good(g, P)
  /\ \/ q = Null /\ g = h
     \/ \E d \in UsedOf(g) : /\ q = ToPtr(d) /\ UsedKept(h, g, {b, d}) /\ Sz(g, d) >= size
                             /\ d # b => d \notin UsedOf(h) /\ b \notin UsedOf(g)

(* A used block grows over the free block after it.                        *)
LEMMA GrowIs ==
  ASSUME NEW P, Fitting(P), NEW h, Good(h, P), NEW b \in UsedOf(h), Fr(h, NextOf(h, b)),
         NEW g, g = MarkUsed(MergeNext(h, b), b)
  PROVE  Good(g, P) /\ UsedKept(h, g, {b}) /\ b \in UsedOf(g) /\ Sz(g, b) = Sz(h, b) + Sz(h, NextOf(h, b)) + ALIGN_SIZE
<1>1. PICK S : S = {b}
  OBVIOUS
<1>2. Loose(h, P, S) /\ b \in Heads(h) /\ Sz(h, b) # 0 /\ ~ Fr(h, b)
  <2>1. {} \cup {b} = S
    BY <1>1
  <2> QED
    BY <2>1, TakeUsed DEF Good
<1>3. PICK k : k = MergeNext(h, b)
  OBVIOUS
<1>4. b \in S /\ \A x \in S : x <= b
  BY <1>1, <1>2, HeaderIs DEF Loose
<1>5. /\ Loose(k, P, S) /\ S \subseteq Heads(k)
      /\ \A x \in Heads(k) : (Fr(k, x) <=> Fr(h, x))
      /\ UsedKept(h, k, {b})
      /\ Sz(k, b) = IF Fr(h, NextOf(h, b)) THEN Sz(h, b) + Sz(h, NextOf(h, b)) + ALIGN_SIZE ELSE Sz(h, b)
  BY <1>2, <1>3, <1>4, MergeNextIs
<1>6. g = MarkUsed(k, b)
  BY <1>3
<1>7. /\ Loose(g, P, S \ {b}) /\ SameRest(k, g)
      /\ \A x \in Heads(k) : Sz(g, x) = Sz(k, x) /\ (Fr(g, x) <=> x # b /\ Fr(k, x))
  BY <1>4, <1>5, <1>6, LooseUsed
<1>8. Good(g, P)
  <2>1. S \ {b} = {}
    BY <1>1
  <2> QED
    BY <1>7, <2>1 DEF Good
<1>9. b \in Heads(k) /\ Sz(k, b) # 0
  BY <1>4, <1>5 DEF Loose
<1>10. UsedKept(k, g, {b}) /\ b \in UsedOf(g)
  BY <1>7, <1>9 DEF UsedKept, UsedOf, SameRest
<1>11. Sz(g, b) = Sz(h, b) + Sz(h, NextOf(h, b)) + ALIGN_SIZE
  BY <1>5, <1>7, <1>9
<1> QED
  BY <1>5, <1>8, <1>10, <1>11, KeptAgain

LEMMA ReallocIs ==
  ASSUME NEW P, Fitting(P), NEW h, Good(h, P), NEW b \in UsedOf(h), NEW size \in Nat, size < Bit[SizeBits],
         NEW g, NEW q, Realloc(h, ToPtr(b), size) = <<g, q>>
  PROVE  Reallocated(h, P, b, g, q, size)
<1>1. PICK adjust, n, cursize, combined :
        /\ adjust = adjust_request_size(size, ALIGN_SIZE) /\ n = NextOf(h, b) /\ cursize = Sz(h, b)
        /\ combined = cursize + Sz(h, n) + Overhead
  OBVIOUS
<1>2. PICK moved, grown : /\ moved = Malloc(h, size)
                          /\ grown = IF adjust > cursize THEN MarkUsed(MergeNext(h, b), b) ELSE h
  OBVIOUS
<1>3. Loose(h, P, {}) /\ b \in Heads(h) /\ Sz(h, b) # 0 /\ IsHeap(h) /\ Tiled(Sizes(h), P)
  BY DEF Good, Loose, UsedOf
<1>4. FromPtr(ToPtr(b)) = b
  BY <1>3, PointerIs
<1>5. PICK idle : idle = h.blk[n].free
  OBVIOUS
<1>6. <<g, q>> = CASE adjust = 0 -> <<h, Null>>
                   [] adjust > cursize /\ (~ idle \/ adjust > combined) ->
                        IF moved[2] = Null THEN moved ELSE <<Free(moved[1], ToPtr(b)), moved[2]>>
                   [] OTHER -> <<TrimUsed(grown, b, adjust), ToPtr(b)>>
  BY <1>1, <1>2, <1>4, <1>5, Zenon DEF Realloc, Sz
<1>7. n \in Heads(h) /\ (Fr(h, n) <=> idle) /\ cursize \in Nat /\ Sz(h, n) \in Nat
  BY <1>1, <1>3, <1>5, BlockIs, HeaderIs
<1>8. PICK C \in Nat : C = combined /\ C = cursize + Sz(h, n) + ALIGN_SIZE
  BY <1>1, <1>7, ConstantsAre
<1>9. CASE adjust = 0
  <2>1. ~ (adjust > cursize)
    BY <1>7, <1>9
  <2>2. <<g, q>> = <<h, Null>>
    BY <1>6, <1>9, <2>1
  <2> QED
    BY <2>2 DEF Reallocated
<1>10. ASSUME adjust # 0 PROVE Fits(adjust) /\ adjust >= size
  BY <1>1, <1>10, WordIs, AdjustIs
<1>11. CASE adjust # 0 /\ adjust > cursize /\ (~ idle \/ adjust > combined)
  <2>1. <<g, q>> = IF moved[2] = Null THEN moved ELSE <<Free(moved[1], ToPtr(b)), moved[2]>>
    BY <1>6, <1>11
  <2>2. PICK m, r : moved = <<m, r>>
    BY <1>2 DEF Malloc
  <2>3. Allocated(h, P, m, r, size, ALIGN_SIZE)
    BY <1>2, <2>2, MallocIs
  <2>4. CASE r = Null
    <3>1. g = m /\ q = r
      BY <2>1, <2>2, <2>4
    <3>3. \A d \in UsedOf(m) : ToPtr(d) # Null
      <4>1. ASSUME NEW d \in UsedOf(m) PROVE ToPtr(d) \in Nat
        <5>1. d \in Heads(m) /\ Loose(m, P, {})
          BY <2>3 DEF Allocated, Good, UsedOf
        <5> QED
          BY <5>1, PointerIs
      <4> QED
        BY <4>1 DEF Null
    <3>4. m = h
      BY <2>3, <2>4, <3>3 DEF Allocated
    <3> QED
      BY <2>3, <2>4, <3>1, <3>4 DEF Reallocated, Allocated
  <2>5. CASE r # Null
    <3>1. g = Free(m, ToPtr(b)) /\ q = r
      BY <2>1, <2>2, <2>5
    <3>2. PICK d \in UsedOf(m) : r = ToPtr(d) /\ d \notin UsedOf(h) /\ UsedKept(h, m, {d}) /\ Sz(m, d) >= size
      BY <2>3, <2>5 DEF Allocated
    <3>3. Good(m, P) /\ b \in UsedOf(m) /\ d # b
      BY <2>3, <3>2 DEF Allocated, UsedKept
    <3>4. Good(g, P) /\ UsedKept(m, g, {b}) /\ b \notin UsedOf(g)
      BY <3>1, <3>3, FreeIs
    <3>5. d \in UsedOf(g) /\ Sz(g, d) = Sz(m, d) /\ UsedKept(h, g, {b, d})
      BY <3>2, <3>3, <3>4 DEF UsedKept
    <3> QED
      BY <3>1, <3>2, <3>4, <3>5 DEF Reallocated
  <2> QED
    BY <2>4, <2>5
<1>12. CASE adjust # 0 /\ ~ (adjust > cursize /\ (~ idle \/ adjust > combined))
  <2>1. <<g, q>> = <<TrimUsed(grown, b, adjust), ToPtr(b)>>
    BY <1>6, <1>12
  <2>2. g = TrimUsed(grown, b, adjust) /\ q = ToPtr(b) /\ Fits(adjust) /\ adjust >= size /\ adjust \in Nat
    BY <1>10, <1>12, <2>1 DEF Fits
  <2>3. Good(grown, P) /\ UsedKept(h, grown, {b}) /\ b \in UsedOf(grown) /\ Sz(grown, b) >= adjust
    <3>1. CASE adjust > cursize
      <4>1. Fr(h, NextOf(h, b)) /\ grown = MarkUsed(MergeNext(h, b), b)
        BY <1>1, <1>2, <1>7, <1>12, <3>1
      <4>2. /\ Good(grown, P) /\ UsedKept(h, grown, {b}) /\ b \in UsedOf(grown)
            /\ Sz(grown, b) = Sz(h, b) + Sz(h, NextOf(h, b)) + ALIGN_SIZE
        BY <4>1, GrowIs
      <4>3. Sz(grown, b) = C
        BY <1>1, <1>8, <4>2
      <4>4. C >= adjust
        BY <1>8, <1>12, <2>2, <3>1
      <4> QED
        BY <4>2, <4>3, <4>4
    <3>2. CASE ~ (adjust > cursize)
      <4>1. grown = h /\ Sz(h, b) >= adjust
        BY <1>1, <1>2, <1>7, <2>2, <3>2
      <4> QED
        BY <4>1 DEF UsedKept
    <3> QED
      BY <3>1, <3>2
  <2>4. Good(g, P) /\ UsedKept(grown, g, {b}) /\ b \in UsedOf(g) /\ Sz(g, b) >= adjust
    BY <2>2, <2>3, TrimUsedIs
  <2>5. UsedKept(h, g, {b, b})
    BY <2>3, <2>4 DEF UsedKept
  <2>6. Sz(g, b) >= size
    <3>1. Sz(g, b) \in Nat
      BY <2>4, HeaderIs DEF Good, Loose, UsedOf
    <3> QED
      BY <2>2, <2>4, <3>1
  <2> QED
    BY <2>2, <2>4, <2>5, <2>6 DEF Reallocated
<1> QED
  BY <1>9, <1>11, <1>12

-----------------------------------------------------------------------------
(* Pools.                                                                  *)

LEMMA NothingIsGood == Good(control_construct, {})
<1>1. PICK h : h = control_construct
  OBVIOUS
<1>2. /\ h = [blk |-> << >>, list |-> [c \in Classes |-> << >>], fl |-> {}, sl |-> [f \in 0..FL_INDEX_COUNT - 1 |-> {}]]
      /\ h.blk = << >> /\ h.list = [c \in Classes |-> << >>] /\ h.fl = {} /\ h.sl = [f \in 0..FL_INDEX_COUNT - 1 |-> {}]
  BY <1>1, Zenon DEF control_construct
<1>3. DOMAIN h.blk = {} /\ h.blk = [x \in DOMAIN h.blk |-> h.blk[x]]
  BY <1>2
<1>4. IsHeap(h)
  <2>1. h.blk \in [DOMAIN h.blk -> Header] /\ DOMAIN h.blk \subseteq Nat
    BY <1>3
  <2>2. h.list \in [Classes -> Seq(Int)]
    <3>1. << >> \in Seq(Int)
      OBVIOUS
    <3> QED
      BY <1>2, <3>1
  <2>3. h.fl \subseteq 0..FL_INDEX_COUNT - 1
    BY <1>2
  <2>4. h.sl \in [0..FL_INDEX_COUNT - 1 -> SUBSET (0..SL_INDEX_COUNT - 1)]
    BY <1>2
  <2>5. h = [blk |-> h.blk, list |-> h.list, fl |-> h.fl, sl |-> h.sl]
    BY <1>2
  <2> QED
    BY <2>1, <2>2, <2>3, <2>4, <2>5 DEF IsHeap
<1>5. Tiled(Sizes(h), {})
  <2>1. PICK z : z = Sizes(h)
    OBVIOUS
  <2>2. DOMAIN z = {} /\ z = [x \in DOMAIN z |-> z[x]]
    BY <1>3, <2>1 DEF Sizes
  <2> QED
    BY <2>1, <2>2, NothingTiled
<1>6. FreeOf(h) \ {} = {} /\ Heads(h) = {}
  BY <1>3 DEF FreeOf, Heads
<1>7. Listed(h, {})
  <2>1. ASSUME NEW c \in Classes
        PROVE  /\ ToSet(h.list[c]) = {} /\ IsInjective(h.list[c])
               /\ h.list[c] = << >> /\ h.sl[c[1]] = {} /\ c[1] \notin h.fl
    <3>1. h.list[c] = << >>
      BY <1>2
    <3>2. ToSet(<< >>) = {} /\ IsInjective(<< >>)
      BY DEF ToSet, IsInjective
    <3>3. h.sl[c[1]] = {}
      BY <1>2, ClassParts
    <3> QED
      BY <1>2, <3>1, <3>2, <3>3
  <2> QED
    BY <2>1 DEF Listed
<1> QED
  BY <1>1, <1>4, <1>5, <1>6, <1>7 DEF Good, Loose

(* The headers that tlsf_add_pool writes.                                  *)
MainOf(pool) == [size |-> (TopOf(pool) - FirstBlock(pool)) - ALIGN_SIZE, free |-> TRUE, prevFree |-> FALSE, prevPhys |-> Null]
LastOf(pool) == [size |-> 0, free |-> FALSE, prevFree |-> TRUE, prevPhys |-> FirstBlock(pool)]
Extended(h, pool) ==
  [h EXCEPT !.blk = [x \in DOMAIN @ \cup {FirstBlock(pool), TopOf(pool)} |->
     IF x = FirstBlock(pool) THEN MainOf(pool) ELSE IF x = TopOf(pool) THEN LastOf(pool) ELSE @[x]]]

LEMMA AddPoolWrites ==
  ASSUME NEW P, NEW pool \in P, Fitting(P), NEW h
  PROVE  AddPool(h, pool) = BlockInsert(Extended(h, pool), FirstBlock(pool))
<1>1. PICK W \in Nat \ {0} : W = ALIGN_SIZE /\ Overhead = W
  BY ConstantsAre
<1>2. PICK size, b, s : /\ size = align_down(pool.bytes - PoolOverhead, ALIGN_SIZE) /\ b = pool.mem - Overhead
                        /\ s = b + Overhead + size
  OBVIOUS
<1>3. b = FirstBlock(pool) /\ s = TopOf(pool) /\ size = (TopOf(pool) - FirstBlock(pool)) - ALIGN_SIZE
  <2>1. /\ FirstBlock(pool) \in Nat /\ TopOf(pool) \in Nat /\ pool.mem \in Nat /\ FirstBlock(pool) = pool.mem - W
        /\ size = TopOf(pool) - pool.mem
    BY <1>1, <1>2, PoolIs
  <2> QED
    BY <1>1, <1>2, <2>1 DEF FirstBlock
<1>4. PICK main, last : /\ main = [size |-> size, free |-> TRUE, prevFree |-> FALSE, prevPhys |-> Null]
                        /\ last = [size |-> 0, free |-> FALSE, prevFree |-> TRUE, prevPhys |-> b]
  OBVIOUS
<1>5. main = MainOf(pool) /\ last = LastOf(pool)
  BY <1>3, <1>4, Zenon DEF MainOf, LastOf
<1>6. AddPool(h, pool) = BlockInsert([h EXCEPT !.blk = [x \in DOMAIN @ \cup {b, s} |->
                            IF x = b THEN main ELSE IF x = s THEN last ELSE @[x]]], b)
  BY <1>2, <1>4, Zenon DEF AddPool
<1> QED
  BY <1>3, <1>5, <1>6, Zenon DEF Extended

(* What adding a pool of the blocks b and s does to the headers.           *)
ExtendedTo(h, k, Q, b, s) ==
  /\ IsHeap(k) /\ SameLists(h, k) /\ Heads(k) = Heads(h) \cup {b, s} /\ Tiled(Sizes(k), Q)
  /\ b \notin Heads(h) /\ s \notin Heads(h) /\ b # s
  /\ NextOf(k, b) = s /\ Sz(k, b) # 0 /\ Fr(k, b) /\ ~ Pf(k, b)
  /\ Sz(k, s) = 0 /\ ~ Fr(k, s) /\ Pf(k, s) /\ Pp(k, s) = b
  /\ \A x \in Heads(h) : /\ Sz(k, x) = Sz(h, x) /\ NextOf(k, x) = NextOf(h, x)
                         /\ (Fr(k, x) <=> Fr(h, x)) /\ (Pf(k, x) <=> Pf(h, x)) /\ Pp(k, x) = Pp(h, x)

LEMMA ExtendedIs ==
  ASSUME NEW P, NEW pool, Fitting(P \cup {pool}), pool \notin P, NEW h, Good(h, P), NEW k, k = Extended(h, pool),
         NEW b, NEW s, b = FirstBlock(pool), s = TopOf(pool)
  PROVE  ExtendedTo(h, k, P \cup {pool}, b, s)
<1>1. PICK W \in Nat \ {0} : W = ALIGN_SIZE
  BY ConstantsAre
<1>2. IsHeap(h) /\ Tiled(Sizes(h), P)
  BY DEF Good, Loose
<1>3. PICK z : z = Sizes(h)
  OBVIOUS
<1>4. DOMAIN z = Heads(h) /\ \A x \in Heads(h) : z[x] = Sz(h, x) /\ x \in Nat
  <2>1. DOMAIN z = Heads(h)
    BY <1>3 DEF Sizes, Heads
  <2> QED
    BY <1>2, <1>3, <2>1, HeaderIs
<1>5. /\ Tiled(Added(z, pool), P \cup {pool})
      /\ b \notin Heads(h) /\ s \notin Heads(h) /\ b # s
  BY <1>2, <1>3, <1>4, AddTiles
<1>6. b \in Nat /\ s \in Nat /\ s >= b + 4 * W
  <2>1. pool \in P \cup {pool}
    OBVIOUS
  <2> QED
    BY <1>1, <2>1, PoolIs
<1>7. PICK main, last : main = MainOf(pool) /\ last = LastOf(pool)
  OBVIOUS
<1>8. PICK t \in Nat \ {0} : t = (s - b) - W /\ b + W + t = s
  BY <1>6
<1>9. /\ main \in Header /\ main.size = t /\ main.free = TRUE /\ main.prevFree = FALSE
      /\ last \in Header /\ last.size = 0 /\ last.free = FALSE /\ last.prevFree = TRUE /\ last.prevPhys = b
  <2>1. main = [size |-> t, free |-> TRUE, prevFree |-> FALSE, prevPhys |-> Null] /\ Null \in Int
    BY <1>1, <1>7, <1>8 DEF MainOf, Null
  <2>2. last = [size |-> 0, free |-> FALSE, prevFree |-> TRUE, prevPhys |-> b]
    BY <1>7 DEF LastOf
  <2> QED
    BY <1>6, <2>1, <2>2 DEF Header
<1>10. PICK B : B = [x \in DOMAIN h.blk \cup {b, s} |-> IF x = b THEN main ELSE IF x = s THEN last ELSE h.blk[x]]
  OBVIOUS
<1>11. k = [h EXCEPT !.blk = B]
  BY <1>7, <1>10 DEF Extended
<1>12. /\ DOMAIN B = Heads(h) \cup {b, s} /\ B[b] = main /\ B[s] = last
       /\ \A x \in Heads(h) : B[x] = h.blk[x]
  BY <1>5, <1>10 DEF Heads
<1>13. B \in [DOMAIN B -> Header] /\ DOMAIN B \subseteq Nat
  <2>1. \A x \in Heads(h) : h.blk[x] \in Header
    BY <1>2 DEF IsHeap, Heads
  <2>2. \A x \in DOMAIN B : B[x] \in Header /\ x \in Nat
    BY <1>4, <1>6, <1>9, <1>12, <2>1
  <2>3. B = [x \in DOMAIN B |-> B[x]]
    BY <1>10
  <2> QED
    BY <2>2, <2>3
<1>14. IsHeap(k) /\ k.blk = B /\ SameLists(h, k)
  BY <1>2, <1>11, <1>13, HeadersChange
<1>15. Sizes(k) = Added(z, pool)
  <2>1. Sizes(k) = [x \in DOMAIN B |-> B[x].size]
    BY <1>14, SizesFrom
  <2>2. DOMAIN B = DOMAIN z \cup {b, s}
    BY <1>4, <1>12
  <2>3. \A x \in DOMAIN B : B[x].size = IF x = b THEN (s - b) - ALIGN_SIZE ELSE IF x = s THEN 0 ELSE z[x]
    BY <1>1, <1>4, <1>5, <1>8, <1>9, <1>12 DEF Sz
  <2> QED
    BY <2>1, <2>2, <2>3 DEF Added
<1>16. \A x \in Heads(h) : k.blk[x] = h.blk[x]
  BY <1>12, <1>14
<1>17. \A x \in Heads(h) : /\ Sz(k, x) = Sz(h, x) /\ NextOf(k, x) = NextOf(h, x)
                           /\ (Fr(k, x) <=> Fr(h, x)) /\ (Pf(k, x) <=> Pf(h, x)) /\ Pp(k, x) = Pp(h, x)
  BY <1>16 DEF Sz, NextOf, Fr, Pf, Pp
<1>18. k.blk[b] = main /\ k.blk[s] = last /\ Heads(k) = Heads(h) \cup {b, s}
  BY <1>12, <1>14 DEF Heads
<1>19. NextOf(k, b) = s
  <2>1. NextOf(k, b) = b + Overhead + t
    BY <1>9, <1>18 DEF NextOf
  <2> QED
    BY <1>1, <1>8, <2>1, ConstantsAre
<1>20. Sz(k, b) # 0 /\ Fr(k, b) /\ ~ Pf(k, b) /\ Sz(k, s) = 0 /\ ~ Fr(k, s) /\ Pf(k, s) /\ Pp(k, s) = b
  BY <1>8, <1>9, <1>18 DEF Sz, Fr, Pf, Pp
<1> QED
  BY <1>5, <1>14, <1>15, <1>17, <1>18, <1>19, <1>20 DEF ExtendedTo

LEMMA AddPoolIs ==
  ASSUME NEW P, NEW pool, Fitting(P \cup {pool}), pool \notin P, NEW h, Good(h, P), NEW g, g = AddPool(h, pool)
  PROVE  Good(g, P \cup {pool}) /\ UsedKept(h, g, {})
<1>1. PICK k, b, s, Q : k = Extended(h, pool) /\ b = FirstBlock(pool) /\ s = TopOf(pool) /\ Q = P \cup {pool}
  OBVIOUS
<1>2. g = BlockInsert(k, b)
  <2>1. pool \in Q /\ Fitting(Q)
    BY <1>1
  <2> QED
    BY <1>1, <2>1, AddPoolWrites
<1>3. /\ IsHeap(k) /\ SameLists(h, k) /\ Heads(k) = Heads(h) \cup {b, s} /\ Tiled(Sizes(k), Q)
      /\ b \notin Heads(h) /\ s \notin Heads(h) /\ b # s
      /\ NextOf(k, b) = s /\ Sz(k, b) # 0 /\ Fr(k, b) /\ ~ Pf(k, b)
      /\ Sz(k, s) = 0 /\ ~ Fr(k, s) /\ Pf(k, s) /\ Pp(k, s) = b
      /\ \A x \in Heads(h) : /\ Sz(k, x) = Sz(h, x) /\ NextOf(k, x) = NextOf(h, x)
                             /\ (Fr(k, x) <=> Fr(h, x)) /\ (Pf(k, x) <=> Pf(h, x)) /\ Pp(k, x) = Pp(h, x)
  <2>1. Fitting(P \cup {pool}) /\ pool \notin P /\ Good(h, P) /\ k = Extended(h, pool) /\ b = FirstBlock(pool) /\ s = TopOf(pool)
    BY <1>1
  <2>2. ExtendedTo(h, k, P \cup {pool}, b, s)
    BY <2>1, ExtendedIs, Zenon
  <2> QED
    BY <1>1, <2>2 DEF ExtendedTo
<1>4. /\ IsHeap(h) /\ Tiled(Sizes(h), P) /\ Fitting(P) /\ Fitting(Q)
      /\ \A x \in Heads(h) : Sz(h, x) = 0 => ~ Fr(h, x)
      /\ \A p \in P : ~ Pf(h, FirstBlock(p))
      /\ \A x \in Heads(h) : Sz(h, x) # 0 => OwnFlags(h, x) /\ (Fr(h, x) => ~ Fr(h, NextOf(h, x)))
      /\ Listed(h, FreeOf(h) \ {})
  BY <1>1 DEF Good, Loose, Fitting
<1>5. \A x \in Heads(h) : Sz(h, x) # 0 => NextOf(h, x) \in Heads(h)
  BY <1>4, BlockIs
<1>6. Loose(k, Q, {b})
  <2>1. \A p \in Q : ~ Pf(k, FirstBlock(p))
    <3>1. ASSUME NEW p \in P PROVE ~ Pf(k, FirstBlock(p))
      <4>1. FirstBlock(p) \in Heads(h)
        BY <1>4, FirstIsHead
      <4> QED
        BY <1>3, <1>4, <4>1
    <3> QED
      BY <1>1, <1>3, <3>1
  <2>2. \A x \in Heads(k) \ {b} :
          Sz(k, x) # 0 => OwnFlags(k, x) /\ (Fr(k, x) => NextOf(k, x) \in {b} \/ ~ Fr(k, NextOf(k, x)))
    <3>1. TAKE x \in Heads(k) \ {b}
    <3>2. HAVE Sz(k, x) # 0
    <3>3. x \in Heads(h) /\ Sz(h, x) # 0
      BY <1>3, <3>2
    <3> QED
      BY <1>3, <1>4, <1>5, <3>3 DEF OwnFlags
  <2>3. FreeOf(k) \ {b} = FreeOf(h)
    BY <1>3 DEF FreeOf
  <2>4. Listed(k, FreeOf(h))
    <3>1. Listed(h, FreeOf(h)) /\ \A x \in FreeOf(h) : Sz(k, x) = Sz(h, x)
      BY <1>3, <1>4 DEF FreeOf
    <3> QED
      BY <1>3, <3>1, ListedStays
  <2> QED
    BY <1>3, <1>4, <2>1, <2>2, <2>3, <2>4 DEF Loose
<1>7. OwnFlags(k, b) /\ ~ Fr(k, NextOf(k, b))
  BY <1>3 DEF OwnFlags
<1>8. Good(g, Q) /\ UsedKept(k, g, {})
  BY <1>2, <1>3, <1>4, <1>6, <1>7, InsertLast
<1>9. UsedKept(h, k, {})
  BY <1>3 DEF UsedKept, UsedOf
<1> QED
  BY <1>1, <1>8, <1>9, KeptAgain

LEMMA RemovePoolIs ==
  ASSUME NEW P, Fitting(P), NEW pool \in P, NEW h, Good(h, P), PoolIsFree(h, pool), NEW g, g = RemovePool(h, pool)
  PROVE  Good(g, P \ {pool}) /\ UsedKept(h, g, {})
<1>1. PICK b, n, Q : b = FirstBlock(pool) /\ n = NextOf(h, b) /\ Q = P \ {pool}
  OBVIOUS
<1>2. Fitting(Q) /\ IsHeap(h) /\ Tiled(Sizes(h), P) /\ Loose(h, P, {})
  BY <1>1 DEF Good, Loose, Fitting
<1>3. b \in Heads(h)
  BY <1>1, <1>2, FirstIsHead
<1>4. Fr(h, b) /\ Sz(h, n) = 0
  <2>1. h.blk[b].free /\ h.blk[n].size = 0
    BY <1>1 DEF PoolIsFree
  <2> QED
    BY <1>2, <1>3, <2>1, HeaderIs DEF Sz
<1>5. Sz(h, b) # 0 /\ b \in FreeOf(h) \ {}
  BY <1>2, <1>3, <1>4 DEF Loose, FreeOf
<1>6. n \in Heads(h) /\ n # b
  BY <1>1, <1>2, <1>3, <1>5, BlockIs
<1>7. PICK k : k = BlockRemove(h, b)
  OBVIOUS
<1>8. Loose(k, P, {b}) /\ SameHeaders(h, k)
  <2>1. PICK S : S = {}
    OBVIOUS
  <2>2. Loose(h, P, S) /\ b \in FreeOf(h) \ S /\ S \cup {b} = {b}
    BY <1>2, <1>5, <2>1
  <2>3. Loose(k, P, S \cup {b}) /\ SameHeaders(h, k)
    BY <1>7, <2>2, LooseBlockRemove
  <2> QED
    BY <2>2, <2>3
<1>9. PICK B : B = [x \in DOMAIN k.blk \ {b, n} |-> k.blk[x]]
  OBVIOUS
<1>10. g = [k EXCEPT !.blk = B]
  BY <1>1, <1>7, <1>9 DEF RemovePool
<1>11. /\ IsHeap(k) /\ Tiled(Sizes(k), P) /\ Heads(k) = Heads(h) /\ Sz(k, b) # 0 /\ Sz(k, n) = 0 /\ NextOf(k, b) = n
       /\ Listed(k, FreeOf(k) \ {b})
  BY <1>1, <1>4, <1>5, <1>8 DEF Loose, SameHeaders
<1>12. PICK z : z = Sizes(k)
  OBVIOUS
<1>13. DOMAIN z = Heads(k) /\ \A x \in Heads(k) : z[x] = Sz(k, x) /\ NextOf(k, x) = After(z, x) /\ x \in Nat
  <2>1. DOMAIN z = Heads(k)
    BY <1>12 DEF Sizes, Heads
  <2> QED
    BY <1>11, <1>12, <2>1, HeaderIs
<1>14. DOMAIN B = Heads(k) \ {b, n} /\ \A x \in DOMAIN B : B[x] = k.blk[x]
  BY <1>9 DEF Heads
<1>15. B \in [DOMAIN B -> Header] /\ DOMAIN B \subseteq Nat
  <2>1. \A x \in DOMAIN B : B[x] \in Header /\ x \in Nat
    BY <1>11, <1>13, <1>14 DEF IsHeap, Heads
  <2>2. B = [x \in DOMAIN B |-> B[x]]
    BY <1>9
  <2> QED
    BY <2>1, <2>2
<1>16. IsHeap(g) /\ g.blk = B /\ SameLists(k, g)
  BY <1>10, <1>11, <1>15, HeadersChange
<1>17. Sizes(g) = [x \in DOMAIN z \ {b, n} |-> z[x]]
  <2>1. Sizes(g) = [x \in DOMAIN B |-> B[x].size]
    BY <1>16, SizesFrom
  <2>2. DOMAIN B = DOMAIN z \ {b, n} /\ \A x \in DOMAIN B : B[x].size = z[x]
    BY <1>13, <1>14 DEF Sz
  <2> QED
    BY <2>1, <2>2
<1>18. Tiled(Sizes(g), Q) /\ \A x \in DOMAIN Sizes(g) : z[x] # 0 => After(z, x) \notin {b, n}
  <2>1. PICK y : y = Sizes(g)
    OBVIOUS
  <2>2. /\ Tiled(z, P) /\ z[FirstBlock(pool)] # 0 /\ n = After(z, FirstBlock(pool)) /\ z[n] = 0
        /\ y = [x \in DOMAIN z \ {FirstBlock(pool), n} |-> z[x]]
    BY <1>1, <1>3, <1>6, <1>11, <1>12, <1>13, <1>17, <2>1
  <2>3. Tiled(y, P \ {pool}) /\ \A x \in DOMAIN y : z[x] # 0 => After(z, x) \notin {FirstBlock(pool), n}
    BY <2>2, RemoveTiles
  <2> QED
    BY <1>1, <2>1, <2>3
<1>19. Heads(g) = Heads(k) \ {b, n}
  BY <1>14, <1>16 DEF Heads
<1>20. \A x \in Heads(g) : /\ Sz(g, x) = Sz(k, x) /\ NextOf(g, x) = NextOf(k, x)
                           /\ (Fr(g, x) <=> Fr(k, x)) /\ (Pf(g, x) <=> Pf(k, x)) /\ Pp(g, x) = Pp(k, x)
  <2>1. \A x \in Heads(g) : g.blk[x] = k.blk[x]
    BY <1>14, <1>16, <1>19
  <2> QED
    BY <2>1 DEF Sz, NextOf, Fr, Pf, Pp
<1>21. \A x \in Heads(g) : Sz(g, x) # 0 => NextOf(g, x) \in Heads(g)
  <2>1. TAKE x \in Heads(g)
  <2>2. HAVE Sz(g, x) # 0
  <2>3. x \in Heads(k) /\ Sz(k, x) # 0
    BY <1>19, <1>20, <2>2
  <2>4. NextOf(k, x) \in Heads(k)
    BY <1>11, <2>3, BlockIs
  <2>5. NextOf(k, x) \notin {b, n}
    <3>1. x \in DOMAIN Sizes(g)
      BY <1>13, <1>17, <1>19
    <3> QED
      BY <1>13, <1>18, <2>3, <3>1
  <2> QED
    BY <1>19, <1>20, <2>4, <2>5
<1>22. \A p \in Q : ~ Pf(g, FirstBlock(p))
  <2>1. TAKE p \in Q
  <2>2. FirstBlock(p) \in Heads(g)
    BY <1>2, <1>16, <1>18, FirstIsHead
  <2>3. ~ Pf(k, FirstBlock(p))
    BY <1>1, <1>8 DEF Loose
  <2> QED
    BY <1>20, <2>2, <2>3
<1>23. \A x \in Heads(g) : /\ Sz(g, x) = 0 => ~ Fr(g, x)
                           /\ Sz(g, x) # 0 => OwnFlags(g, x) /\ (Fr(g, x) => ~ Fr(g, NextOf(g, x)))
  <2>1. TAKE x \in Heads(g)
  <2>2. x \in Heads(k) \ {b} /\ x # n
    BY <1>19
  <2>3. Sz(k, x) = 0 => ~ Fr(k, x)
    BY <1>8, <2>2 DEF Loose
  <2>4. Sz(k, x) # 0 => OwnFlags(k, x) /\ (Fr(k, x) => NextOf(k, x) \in {b} \/ ~ Fr(k, NextOf(k, x)))
    BY <1>8, <2>2 DEF Loose
  <2>5. Sz(g, x) # 0 => NextOf(k, x) \in Heads(g) /\ NextOf(k, x) # b
    BY <1>19, <1>20, <1>21
  <2> QED
    BY <1>20, <2>3, <2>4, <2>5 DEF OwnFlags
<1>24. Listed(g, FreeOf(g))
  <2>1. FreeOf(g) = FreeOf(k) \ {b}
    BY <1>11, <1>19, <1>20 DEF FreeOf
  <2>2. \A x \in FreeOf(k) \ {b} : Sz(g, x) = Sz(k, x)
    BY <1>20, <2>1 DEF FreeOf
  <2> QED
    BY <1>11, <1>16, <2>1, <2>2, ListedStays
<1>25. Good(g, Q)
  <2>1. FreeOf(g) \ {} = FreeOf(g)
    OBVIOUS
  <2> QED
    BY <1>16, <1>18, <1>22, <1>23, <1>24, <2>1 DEF Good, Loose
<1>26. UsedKept(h, g, {})
  <2>2. Fr(k, b)
    BY <1>4, <1>8 DEF SameHeaders
  <2>3. UsedOf(g) = UsedOf(k)
    BY <1>11, <1>19, <1>20, <2>2 DEF UsedOf
  <2>4. \A x \in UsedOf(k) : Sz(g, x) = Sz(k, x)
    BY <1>20, <2>3 DEF UsedOf
  <2> QED
    BY <1>8, <2>3, <2>4 DEF SameHeaders, UsedKept
<1> QED
  BY <1>1, <1>25, <1>26

-----------------------------------------------------------------------------
(* Walking a pool.                                                         *)

Walks(f, h, b, k) == f = [i \in 0..k |-> IF i = 0 THEN b ELSE Walked(h, f[i - 1])]

LEMMA WalksExist == \A h, b : \A k \in Nat : \E f : Walks(f, h, b, k)
<1> TAKE h, b
<1> DEFINE B == {k \in Nat : ~ \E f : Walks(f, h, b, k)}
<1> SUFFICES ASSUME B # {} PROVE FALSE
  OBVIOUS
<1>1. PICK k \in B : \A j \in B : k <= j
  BY Least
<1>2. k # 0
  <2>1. PICK f : f = [i \in 0..0 |-> b]
    OBVIOUS
  <2>2. f = [i \in 0..0 |-> IF i = 0 THEN b ELSE Walked(h, f[i - 1])]
    BY <2>1
  <2> QED
    BY <1>1, <2>2 DEF Walks
<1>3. k - 1 \in Nat /\ ~ (k <= k - 1)
  BY <1>2
<1>4. PICK f : Walks(f, h, b, k - 1)
  BY <1>1, <1>3
<1>5. PICK last : last = Walked(h, f[k - 1])
  OBVIOUS
<1>6. PICK g : g = [i \in 0..k |-> IF i = k THEN last ELSE f[i]]
  OBVIOUS
<1>7. \A i \in 0..(k - 1) : f[i] = (IF i = 0 THEN b ELSE Walked(h, f[i - 1])) /\ g[i] = f[i]
  BY <1>1, <1>4, <1>6 DEF Walks
<1>8. ASSUME NEW i \in 0..k PROVE g[i] = IF i = 0 THEN b ELSE Walked(h, g[i - 1])
  <2>1. CASE i = k
    <3>1. k - 1 \in 0..(k - 1)
      BY <1>3
    <3>2. g[k] = last /\ g[k - 1] = f[k - 1]
      BY <1>3, <1>6, <1>7, <3>1
    <3> QED
      BY <1>2, <1>5, <2>1, <3>2
  <2>2. CASE i # k
    <3>1. i \in 0..(k - 1)
      BY <2>2
    <3>2. i # 0 => i - 1 \in 0..(k - 1)
      BY <3>1
    <3> QED
      BY <1>7, <3>1, <3>2
  <2> QED
    BY <2>1, <2>2
<1>9. Walks(g, h, b, k)
  <2>1. g = [i \in 0..k |-> g[i]]
    BY <1>6
  <2> QED
    BY <1>8, <2>1 DEF Walks
<1> QED
  BY <1>1, <1>9

(* The blocks of a pool.                                                   *)
BlocksIn(h, p) == {x \in Heads(h) : Sz(h, x) # 0 /\ FirstBlock(p) <= x /\ x <= TopOf(p)}

LEMMA WalkIsRecursive ==
  ASSUME NEW h, NEW p, NEW R \in Nat, R = p.bytes \div block_size_min + 1
  PROVE  \E f : /\ Walks(f, h, FirstBlock(p), R)
                /\ tlsf_walk_pool(h, p) = {x \in {f[k] : k \in 0..R} : h.blk[x].size # 0}
<1>1. PICK f : f = CHOOSE g : Walks(g, h, FirstBlock(p), R)
  OBVIOUS
<1>2. Walks(f, h, FirstBlock(p), R)
  BY <1>1, WalksExist
<1>3. tlsf_walk_pool(h, p) = {x \in {f[k] : k \in 0..R} : h.blk[x].size # 0}
  BY <1>1, Zenon DEF tlsf_walk_pool, Walks
<1> QED
  BY <1>2, <1>3

(* One step of a walk stays in the pool and goes up.                       *)
LEMMA WalkedIs ==
  ASSUME NEW P, Fitting(P), NEW h, Loose(h, P, {}), NEW p \in P,
         NEW x \in Heads(h), FirstBlock(p) <= x, x <= TopOf(p), NEW y, y = Walked(h, x)
  PROVE  /\ x \in Nat /\ y \in Heads(h) /\ y \in Nat /\ FirstBlock(p) <= y /\ y <= TopOf(p)
         /\ Sz(h, x) = 0 => x = TopOf(p)
         /\ Sz(h, x) # 0 => y = NextOf(h, x) /\ y >= x + 4 * ALIGN_SIZE
<1>1. PICK W \in Nat \ {0} : W = ALIGN_SIZE
  BY ConstantsAre
<1>2. IsHeap(h) /\ Tiled(Sizes(h), P)
  BY DEF Loose
<1>3. PICK z : z = Sizes(h)
  OBVIOUS
<1>4. DOMAIN z = Heads(h) /\ z[x] = Sz(h, x) /\ NextOf(h, x) = After(z, x) /\ x \in Nat
  BY <1>2, <1>3, HeaderIs DEF Sizes, Heads
<1>5. PICK q \in P : /\ (z[x] = 0 <=> x = TopOf(q)) /\ (z[x] # 0 => After(z, x) <= TopOf(q))
                     /\ \A r \in P : FirstBlock(r) <= x /\ x <= TopOf(r) => r = q
  <2>1. Tiled(z, P) /\ x \in DOMAIN z
    BY <1>2, <1>3, <1>4
  <2> QED
    BY <2>1, OwnPool
<1>6. q = p
  BY <1>5
<1>7. FirstBlock(p) \in Nat /\ TopOf(p) \in Nat
  BY PoolIs
<1>8. CASE Sz(h, x) = 0
  <2>1. y = x
    BY <1>8 DEF Walked, Sz
  <2> QED
    BY <1>4, <1>5, <1>6, <1>8, <2>1
<1>9. CASE Sz(h, x) # 0
  <2>1. y = NextOf(h, x)
    BY <1>9 DEF Walked, Sz
  <2>2. y \in Heads(h) /\ y \in Nat /\ y = x + W + Sz(h, x) /\ Sz(h, x) \in Nat /\ Sz(h, x) >= 3 * W
    BY <1>1, <1>2, <1>9, <2>1, BlockIs
  <2>3. y <= TopOf(p)
    BY <1>4, <1>5, <1>6, <1>9, <2>1
  <2> QED
    BY <1>1, <1>4, <1>7, <1>9, <2>1, <2>2, <2>3
<1> QED
  BY <1>8, <1>9

LEMMA WalkIs ==
  ASSUME NEW P, Fitting(P), NEW h, Good(h, P), NEW p \in P
  PROVE  tlsf_walk_pool(h, p) = BlocksIn(h, p)
<1>1. PICK W \in Nat \ {0}, D \in Nat \ {0} : W = ALIGN_SIZE /\ D = 3 * W /\ D = block_size_min
  BY ConstantsAre
<1>2. Loose(h, P, {}) /\ IsHeap(h) /\ Tiled(Sizes(h), P)
  BY DEF Good, Loose
<1>3. PICK b \in Nat, s \in Nat : b = FirstBlock(p) /\ s = TopOf(p)
  BY PoolIs
<1>4. b \in Heads(h) /\ b <= s /\ p.bytes \in Nat /\ s - b < p.bytes
  <2>1. /\ b \in Heads(h) /\ s >= b + 4 * W /\ b = p.mem - W /\ p.mem \in Nat /\ p.bytes \in Nat
        /\ s + 2 * W <= p.mem + p.bytes
    BY <1>1, <1>2, <1>3, FirstIsHead, PoolIs
  <2> QED
    BY <1>1, <1>3, <2>1
<1>5. PICK R \in Nat : R = p.bytes \div block_size_min + 1 /\ D * R > p.bytes
  <2>1. PICK n \in Nat : n = p.bytes
    BY <1>4
  <2>2. PICK q, r : q = n \div D /\ Divided(n, D, q, r)
    BY <1>1, <2>1, DividedIs
  <2>3. q \in Int /\ r \in 0..D - 1 /\ n = (D * q) + r
    BY <2>2 DEF Divided
  <2>4. D * (q + 1) = (D * q) + (D * 1) /\ D * 1 = D /\ D * q \in Int
    BY <1>1, <2>3, Products
  <2>5. D * (q + 1) > n
    BY <1>1, <2>1, <2>3, <2>4
  <2>6. q >= 0
    <3>1. SUFFICES ASSUME q + 1 <= 0 PROVE FALSE
      BY <2>3
    <3>2. D * (q + 1) <= D * 0 /\ D * 0 = 0
      BY <1>1, <2>3, <3>1, ProductGrows
    <3> QED
      BY <2>1, <2>3, <2>4, <2>5, <3>2
  <2> QED
    BY <1>1, <2>1, <2>2, <2>3, <2>5, <2>6
<1>6. PICK f : /\ Walks(f, h, b, R)
               /\ tlsf_walk_pool(h, p) = {x \in {f[k] : k \in 0..R} : h.blk[x].size # 0}
  BY <1>3, <1>5, WalkIsRecursive
<1>7. /\ f[0] = b
      /\ \A k \in Nat : k <= R /\ k # 0 => k - 1 \in Nat /\ k - 1 <= R /\ f[k] = Walked(h, f[k - 1])
  BY <1>5, <1>6 DEF Walks
<1>8. ASSUME NEW k \in 0..R PROVE f[k] \in Heads(h) /\ b <= f[k] /\ f[k] <= s
  <2> DEFINE B == {i \in Nat : i <= R /\ ~ (f[i] \in Heads(h) /\ b <= f[i] /\ f[i] <= s)}
  <2>1. SUFFICES ASSUME B # {} PROVE FALSE
    OBVIOUS
  <2>2. PICK i \in B : \A j \in B : i <= j
    BY <2>1, Least
  <2>3. i # 0
    BY <1>4, <1>7, <2>2
  <2>4. i - 1 \in Nat /\ i - 1 <= R /\ ~ (i <= i - 1) /\ f[i] = Walked(h, f[i - 1])
    BY <1>7, <2>2, <2>3
  <2>5. f[i - 1] \in Heads(h) /\ b <= f[i - 1] /\ f[i - 1] <= s
    BY <2>2, <2>4
  <2> HIDE DEF B
  <2>6. f[i] \in Heads(h) /\ b <= f[i] /\ f[i] <= s
    BY <1>2, <1>3, <2>4, <2>5, WalkedIs
  <2> QED
    BY <2>2, <2>6 DEF B
<1>9. ASSUME NEW x \in BlocksIn(h, p), \A k \in 0..R : f[k] # x PROVE FALSE
  <2>1. x \in Heads(h) /\ x \in Nat /\ Sz(h, x) # 0 /\ b <= x /\ x <= s
    BY <1>2, <1>3, HeaderIs DEF BlocksIn
  <2> DEFINE T == {i \in Nat : i <= R /\ ~ (f[i] < x /\ f[i] >= b + (D * i))}
  <2>2. T = {}
    <3>1. SUFFICES ASSUME T # {} PROVE FALSE
      OBVIOUS
    <3>2. PICK i \in T : \A j \in T : i <= j
      BY <3>1, Least
    <3>3. i # 0
      <4>1. 0 \in 0..R /\ D * 0 = 0
        BY <1>5
      <4>2. b # x
        BY <1>7, <1>9, <4>1
      <4>3. f[0] < x /\ f[0] >= b + (D * 0)
        BY <1>3, <1>7, <2>1, <4>1, <4>2
      <4> QED
        BY <3>2, <4>3
    <3>4. i \in Nat /\ i <= R /\ i - 1 \in Nat /\ i - 1 <= R /\ ~ (i <= i - 1) /\ f[i] = Walked(h, f[i - 1])
      BY <1>7, <3>2, <3>3
    <3>5. f[i - 1] < x /\ f[i - 1] >= b + (D * (i - 1))
      BY <3>2, <3>4
    <3>6. PICK y, w : y = f[i - 1] /\ w = f[i]
      OBVIOUS
    <3>7. i - 1 \in 0..R /\ i \in 0..R
      BY <3>4
    <3> HIDE DEF T
    <3>8. y \in Heads(h) /\ b <= y /\ y <= s /\ w = Walked(h, y) /\ w # x
      BY <1>8, <1>9, <3>4, <3>6, <3>7
    <3>9. /\ y \in Nat /\ w \in Nat /\ (Sz(h, y) = 0 => y = s)
          /\ Sz(h, y) # 0 => w = NextOf(h, y) /\ w >= y + 4 * ALIGN_SIZE
      BY <1>2, <1>3, <3>8, WalkedIs
    <3>10. Sz(h, y) # 0
      BY <1>3, <2>1, <3>5, <3>6, <3>9
    <3>11. x <= y \/ w <= x
      <4>1. PICK z : z = Sizes(h)
        OBVIOUS
      <4>2. DOMAIN z = Heads(h) /\ z[y] = Sz(h, y) /\ NextOf(h, y) = After(z, y)
        BY <1>2, <3>8, <4>1, HeaderIs DEF Sizes, Heads
      <4>3. Tiled(z, P)
        BY <1>2, <4>1
      <4> QED
        BY <2>1, <3>8, <3>9, <3>10, <4>2, <4>3 DEF Tiled
    <3>12. w < x
      BY <2>1, <3>5, <3>6, <3>8, <3>9, <3>11
    <3>13. w >= b + (D * i)
      <4>1. PICK j \in Nat : j = i - 1
        BY <3>4
      <4>2. j + 1 = i
        BY <3>4, <4>1
      <4>3. D * (j + 1) = (D * j) + (D * 1) /\ D * 1 = D /\ D * j \in Int
        BY <1>1, Products
      <4>4. y >= b + (D * j) /\ w >= y + 4 * W
        BY <1>1, <3>5, <3>6, <3>9, <3>10, <4>1
      <4>5. w >= b + (D * (j + 1))
        BY <1>1, <1>3, <3>9, <4>3, <4>4
      <4> QED
        BY <4>2, <4>5
    <3> QED
      BY <3>2, <3>6, <3>12, <3>13 DEF T
  <2>3. f[R] < x /\ f[R] >= b + (D * R)
    <3>1. R <= R
      OBVIOUS
    <3> QED
      BY <2>2, <3>1
  <2>4. f[R] \in Nat
    <3>1. R \in 0..R
      OBVIOUS
    <3> QED
      BY <1>2, <1>8, <3>1, HeaderIs
  <2>5. D * R \in Int
    BY <1>1, Products
  <2> QED
    BY <1>3, <1>4, <1>5, <2>1, <2>3, <2>4, <2>5
<1>10. \A x : x \in tlsf_walk_pool(h, p) <=> x \in BlocksIn(h, p)
  BY <1>3, <1>6, <1>8, <1>9 DEF BlocksIn, Sz
<1> QED
  BY <1>10

-----------------------------------------------------------------------------
(* What a client may count on.                                             *)

LEMMA BlocksAre ==
  ASSUME IsHeap(heap)
  PROVE  /\ BlockAddrs = {x \in Heads(heap) : Sz(heap, x) # 0} /\ FreeBlocks = FreeOf(heap)
         /\ BlockAddrs \ FreeBlocks = UsedOf(heap)
<1>1. \A x \in Heads(heap) : heap.blk[x].free \in BOOLEAN
  BY HeaderIs
<1> QED
  BY <1>1 DEF BlockAddrs, FreeBlocks, FreeOf, UsedOf, IsBlock, Heads, Sz, Fr

LEMMA TiledFromGood == ASSUME Fitting(pools), Good(heap, pools) PROVE PoolsAreTiled
<1>1. PICK h : h = heap
  OBVIOUS
<1>2. IsHeap(h) /\ Tiled(Sizes(h), pools)
  BY <1>1 DEF Good, Loose
<1>3. PICK T : T = BlockAddrs
  OBVIOUS
<1>4. T = {x \in Heads(h) : Sz(h, x) # 0}
  BY <1>1, <1>2, <1>3, BlocksAre
<1>5. PICK z : z = Sizes(h)
  OBVIOUS
<1>6. DOMAIN z = Heads(h) /\ \A x \in Heads(h) : z[x] = Sz(h, x) /\ NextOf(h, x) = After(z, x)
  <2>1. DOMAIN z = Heads(h)
    BY <1>5 DEF Sizes, Heads
  <2> QED
    BY <1>2, <1>5, <2>1, HeaderIs
<1>7. /\ \A p \in pools : FirstBlock(p) \in DOMAIN z
      /\ \A x \in DOMAIN z : \E p \in pools :
           \/ x = TopOf(p) /\ z[x] = 0
           \/ z[x] >= 3 * ALIGN_SIZE
      /\ \A y \in DOMAIN z : \/ \E p \in pools : y = FirstBlock(p)
                             \/ \E x \in DOMAIN z : z[x] # 0 /\ After(z, x) = y
  <2>1. Tiled(z, pools)
    BY <1>2, <1>5
  <2> QED
    BY <2>1 DEF Tiled
<1>8. \A x \in T : /\ NextOf(h, x) \in Heads(h) /\ \A y \in T : NextOf(h, y) = NextOf(h, x) => y = x
                   /\ Sz(h, x) >= 3 * ALIGN_SIZE /\ Aligned(Sz(h, x))
  BY <1>2, <1>4, BlockIs
<1>9. {NextOf(h, b) : b \in T} \cup {FirstBlock(p) : p \in pools} = Heads(h)
  BY <1>4, <1>6, <1>7, <1>8
<1>10. \A x \in Heads(h) \ T : \E p \in pools : x = TopOf(p)
  <2>1. TAKE x \in Heads(h) \ T
  <2>2. z[x] = 0 /\ x \in DOMAIN z
    BY <1>4, <1>6
  <2>3. ~ (z[x] >= 3 * ALIGN_SIZE)
    BY <2>2, ConstantsAre
  <2> QED
    BY <1>7, <2>2, <2>3
<1>11. \A x \in T : h.blk[x].size >= block_size_min /\ h.blk[x].size % ALIGN_SIZE = 0
  <2>1. block_size_min = 3 * ALIGN_SIZE
    BY ConstantsAre
  <2> QED
    BY <1>8, <2>1 DEF Sz, Aligned
<1> QED
  BY <1>1, <1>3, <1>8, <1>9, <1>10, <1>11 DEF PoolsAreTiled, Heads, TopOf

LEMMA FlagsFromGood == ASSUME Fitting(pools), Good(heap, pools) PROVE FlagsAgree
<1>1. IsHeap(heap) /\ Tiled(Sizes(heap), pools)
  BY DEF Good, Loose
<1>2. SUFFICES ASSUME NEW b \in BlockAddrs
               PROVE  /\ heap.blk[NextOf(heap, b)].prevFree = heap.blk[b].free
                      /\ heap.blk[b].free => /\ heap.blk[NextOf(heap, b)].prevPhys = b
                                             /\ ~ heap.blk[NextOf(heap, b)].free
  BY DEF FlagsAgree
<1>3. PICK n : n = NextOf(heap, b)
  OBVIOUS
<1>4. b \in Heads(heap) /\ Sz(heap, b) # 0
  BY <1>1, BlocksAre
<1>5. n \in Heads(heap)
  BY <1>1, <1>3, <1>4, BlockIs
<1>6. OwnFlags(heap, b) /\ (Fr(heap, b) => ~ Fr(heap, n))
  BY <1>3, <1>4 DEF Good, Loose
<1>7. heap.blk[b].free \in BOOLEAN /\ heap.blk[n].free \in BOOLEAN /\ heap.blk[n].prevFree \in BOOLEAN
  BY <1>1, <1>4, <1>5, HeaderIs
<1> QED
  BY <1>3, <1>6, <1>7 DEF OwnFlags, Fr, Pf, Pp

LEMMA ListsFromGood == ASSUME Fitting(pools), Good(heap, pools) PROVE ListsAreExact
<1>1. IsHeap(heap) /\ Listed(heap, FreeOf(heap))
  <2>1. FreeOf(heap) \ {} = FreeOf(heap)
    OBVIOUS
  <2> QED
    BY <2>1 DEF Good, Loose
<1>2. FreeBlocks = FreeOf(heap)
  BY <1>1, BlocksAre
<1> QED
  BY <1>1, <1>2 DEF ListsAreExact, Listed, Sz

(* What clients hold, and what they asked for.                             *)
Served(h, l) ==
  /\ DOMAIN l = {ToPtr(b) : b \in UsedOf(h)}
  /\ \A b \in UsedOf(h) : Sz(h, b) >= l[ToPtr(b)].size /\ ToPtr(b) % l[ToPtr(b)].align = 0

LEMMA UsedPointer ==
  ASSUME NEW P, Fitting(P), NEW h, Good(h, P), NEW b \in UsedOf(h)
  PROVE  b \in Nat /\ ToPtr(b) \in Nat /\ FromPtr(ToPtr(b)) = b
<1>1. b \in Heads(h) /\ Loose(h, P, {})
  BY DEF UsedOf, Good
<1> QED
  BY <1>1, PointerIs

LEMMA ClientsFromGood == ASSUME Fitting(pools), Good(heap, pools), Served(heap, live) PROVE ClientsAreServed
<1>1. IsHeap(heap)
  BY DEF Good, Loose
<1>2. BlockAddrs \ FreeBlocks = UsedOf(heap)
  BY <1>1, BlocksAre
<1>3. ASSUME NEW p \in DOMAIN live PROVE tlsf_block_size(heap, p) >= live[p].size /\ p % live[p].align = 0
  <2>1. PICK b \in UsedOf(heap) : p = ToPtr(b)
    BY DEF Served
  <2>2. FromPtr(p) = b
    BY <2>1, UsedPointer
  <2> QED
    BY <2>1, <2>2 DEF Served, tlsf_block_size, Sz
<1> QED
  BY <1>2, <1>3 DEF ClientsAreServed, Served

LEMMA CheckFromGood == ASSUME NEW P, Fitting(P), NEW h, Good(h, P) PROVE tlsf_check(h)
<1>1. IsHeap(h) /\ Tiled(Sizes(h), P) /\ Loose(h, P, {}) /\ Listed(h, FreeOf(h))
  <2>1. FreeOf(h) \ {} = FreeOf(h)
    OBVIOUS
  <2> QED
    BY <2>1 DEF Good, Loose
<1>2. ASSUME NEW c \in Classes PROVE (c[1] \notin h.fl => c[2] \notin h.sl[c[1]]) /\ (c[2] \in h.sl[c[1]] <=> h.list[c] # << >>)
  BY <1>1 DEF Listed
<1>3. ASSUME NEW c \in Classes, NEW b \in ToSet(h.list[c])
      PROVE  /\ h.blk[b].free /\ ~ h.blk[b].prevFree /\ ~ h.blk[NextOf(h, b)].free /\ h.blk[NextOf(h, b)].prevFree
             /\ h.blk[b].size >= block_size_min /\ mapping_insert(h.blk[b].size) = c
  <2>1. b \in FreeOf(h) /\ mapping_insert(Sz(h, b)) = c
    BY <1>1 DEF Listed
  <2>2. PICK n : n = NextOf(h, b)
    OBVIOUS
  <2>3. b \in Heads(h) /\ Sz(h, b) # 0 /\ Fr(h, b) /\ b \in FreeOf(h) \ {}
    BY <2>1 DEF FreeOf
  <2>4. n \in Heads(h) /\ Sz(h, b) >= 3 * ALIGN_SIZE
    BY <1>1, <2>2, <2>3, BlockIs
  <2>5. ~ Pf(h, b) /\ ~ Fr(h, n)
    BY <1>1, <2>2, <2>3, FreeAfterUsed
  <2>6. Pf(h, n)
    BY <1>1, <2>2, <2>3 DEF Loose, OwnFlags
  <2>7. /\ (Fr(h, b) <=> h.blk[b].free) /\ (Pf(h, b) <=> h.blk[b].prevFree)
        /\ (Fr(h, n) <=> h.blk[n].free) /\ (Pf(h, n) <=> h.blk[n].prevFree)
    BY <1>1, <2>3, <2>4, HeaderIs
  <2> QED
    BY <2>1, <2>2, <2>3, <2>4, <2>5, <2>6, <2>7, ConstantsAre DEF Sz
<1> QED
  BY <1>2, <1>3 DEF tlsf_check

LEMMA PoolCheckFromGood ==
  ASSUME NEW P, Fitting(P), NEW h, Good(h, P), NEW p \in P
  PROVE  tlsf_check_pool(h, p)
<1>1. IsHeap(h) /\ Tiled(Sizes(h), P) /\ Loose(h, P, {})
  BY DEF Good, Loose
<1>2. PICK T : T = tlsf_walk_pool(h, p) /\ T = BlocksIn(h, p)
  BY WalkIs
<1>3. SUFFICES ASSUME NEW b \in T PROVE h.blk[b].prevFree = \E a \in T : NextOf(h, a) = b /\ h.blk[a].free
  BY <1>2 DEF tlsf_check_pool
<1>4. b \in Heads(h) /\ Sz(h, b) # 0 /\ FirstBlock(p) <= b /\ b <= TopOf(p) /\ b \in Nat
  BY <1>1, <1>2, HeaderIs DEF BlocksIn
<1>5. h.blk[b].prevFree \in BOOLEAN /\ (Pf(h, b) <=> h.blk[b].prevFree)
  BY <1>1, <1>4, HeaderIs
<1>6. ASSUME NEW a \in T, NextOf(h, a) = b, h.blk[a].free PROVE Pf(h, b)
  <2>1. a \in Heads(h) /\ Sz(h, a) # 0
    BY <1>2 DEF BlocksIn
  <2>2. Fr(h, a)
    BY <1>1, <1>6, <2>1, HeaderIs
  <2> QED
    BY <1>1, <1>6, <2>1, <2>2 DEF Loose, OwnFlags
<1>7. ASSUME Pf(h, b) PROVE \E a \in T : NextOf(h, a) = b /\ h.blk[a].free
  <2>1. PICK a \in FreeOf(h) \ {} : NextOf(h, a) = b /\ a < b
    BY <1>1, <1>4, <1>7, BlockBefore
  <2>2. a \in Heads(h) /\ Sz(h, a) # 0 /\ Fr(h, a) /\ h.blk[a].free /\ a \in Nat
    BY <1>1, <2>1, HeaderIs DEF FreeOf
  <2>3. PICK q \in P : FirstBlock(q) <= a /\ b <= TopOf(q)
    <3>1. PICK z : z = Sizes(h)
      OBVIOUS
    <3>2. DOMAIN z = Heads(h) /\ z[a] = Sz(h, a) /\ NextOf(h, a) = After(z, a) /\ Tiled(z, P)
      BY <1>1, <2>2, <3>1, HeaderIs DEF Sizes, Heads
    <3> QED
      BY <2>1, <2>2, <3>2, TileOf
  <2>4. FirstBlock(q) \in Nat /\ TopOf(q) \in Nat /\ FirstBlock(p) \in Nat /\ TopOf(p) \in Nat
    BY PoolIs
  <2>5. q = p
    <3>1. SUFFICES ASSUME q # p PROVE FALSE
      OBVIOUS
    <3>2. TopOf(p) < FirstBlock(q) \/ TopOf(q) < FirstBlock(p)
      BY <3>1, PoolsApart
    <3> QED
      BY <1>4, <2>1, <2>2, <2>3, <2>4, <3>2
  <2>6. a \in T
    BY <1>2, <1>4, <2>1, <2>2, <2>3, <2>4, <2>5 DEF BlocksIn
  <2> QED
    BY <2>1, <2>2, <2>6
<1> QED
  BY <1>5, <1>6, <1>7

LEMMA ChecksFromGood == ASSUME Fitting(pools), Good(heap, pools), Served(heap, live) PROVE ChecksPass
<1>1. IsHeap(heap) /\ Tiled(Sizes(heap), pools)
  BY DEF Good, Loose
<1>2. tlsf_check(heap) /\ \A pool \in pools : tlsf_check_pool(heap, pool)
  BY CheckFromGood, PoolCheckFromGood
<1>3. FreeBlocks = FreeOf(heap)
  BY <1>1, BlocksAre
<1>4. \A pool \in pools : tlsf_walk_pool(heap, pool) = BlocksIn(heap, pool)
  BY WalkIs
<1>5. \A x : x \in UsedOf(heap) <=> \E pool \in pools : x \in BlocksIn(heap, pool) \ FreeOf(heap)
  <2>1. ASSUME NEW x \in UsedOf(heap) PROVE \E pool \in pools : x \in BlocksIn(heap, pool) \ FreeOf(heap)
    <3>1. x \in Heads(heap) /\ Sz(heap, x) # 0 /\ x \notin FreeOf(heap)
      BY DEF UsedOf, FreeOf
    <3>2. PICK z : z = Sizes(heap)
      OBVIOUS
    <3>3. DOMAIN z = Heads(heap) /\ Tiled(z, pools)
      BY <1>1, <3>2 DEF Sizes, Heads
    <3>4. PICK p \in pools : FirstBlock(p) <= x /\ x <= TopOf(p)
      BY <3>1, <3>3, OwnPool
    <3> QED
      BY <3>1, <3>4 DEF BlocksIn
  <2>2. ASSUME NEW x, NEW pool \in pools, x \in BlocksIn(heap, pool) \ FreeOf(heap) PROVE x \in UsedOf(heap)
    BY <2>2 DEF BlocksIn, FreeOf, UsedOf
  <2> QED
    BY <2>1, <2>2
<1>6. UNION {{ToPtr(b) : b \in tlsf_walk_pool(heap, pool) \ FreeBlocks} : pool \in pools} = {ToPtr(b) : b \in UsedOf(heap)}
  BY <1>3, <1>4, <1>5
<1> QED
  BY <1>2, <1>6 DEF ChecksPass, Served

LEMMA SearchFromGood == ASSUME Fitting(pools), Good(heap, pools) PROVE SearchIsGoodFit
<1>1. PICK h : h = heap
  OBVIOUS
<1>2. IsHeap(h) /\ Tiled(Sizes(h), pools) /\ Listed(h, FreeOf(h)) /\ Good(h, pools)
  <2>1. FreeOf(h) \ {} = FreeOf(h)
    OBVIOUS
  <2> QED
    BY <1>1, <2>1 DEF Good, Loose
<1>3. FreeBlocks = FreeOf(h)
  BY <1>1, <1>2, BlocksAre
<1>4. ASSUME NEW n \in Requests, NEW size, size = adjust_request_size(n, ALIGN_SIZE), size # 0
      PROVE  /\ \A c \in Locate(h, size) : h.blk[Head(h.list[c])].size >= size
             /\ Locate(h, size) = {} =>
                  \A b \in FreeOf(h) : h.blk[b].size >= size => mapping_insert(h.blk[b].size) = mapping_insert(size)
  <2>1. n \in Nat /\ n < Bit[SizeBits]
    BY TlsfAssumption, ConstantsAre
  <2>2. Fits(size) /\ size < block_size_max
    BY <1>4, <2>1, WordIs, AdjustIs
  <2>3. ASSUME NEW c \in Locate(h, size) PROVE h.blk[Head(h.list[c])].size >= size
    <3>1. PICK b : b = Head(h.list[c])
      OBVIOUS
    <3>2. Sz(h, b) >= size
      BY <1>2, <2>2, <3>1, FoundIs
    <3> QED
      BY <3>1, <3>2 DEF Sz
  <2>4. ASSUME Locate(h, size) = {}, NEW b \in FreeOf(h), Sz(h, b) >= size
        PROVE  mapping_insert(Sz(h, b)) = mapping_insert(size)
    <3>1. size \in Nat /\ size % ALIGN_SIZE = 0
      BY <2>2 DEF Fits, Aligned
    <3>2. b \in Heads(h) /\ Sz(h, b) # 0
      BY DEF FreeOf
    <3>3. Sz(h, b) \in Nat /\ Sz(h, b) < block_size_max /\ mapping_insert(Sz(h, b)) \in Classes
      BY <1>2, <3>2, BlockIs
    <3>4. PICK d \in Classes : d = mapping_insert(Sz(h, b))
      BY <3>3
    <3>5. b \in ToSet(h.list[d])
      BY <1>2, <3>4 DEF Listed
    <3>6. h.list[d] # << >>
      BY <3>5 DEF ToSet
    <3>7. ~ FromOn(mapping_search(size), d)
      BY <1>2, <1>4, <2>2, <2>4, <3>1, <3>6, LocateIs
    <3>8. PICK x \in Nat : x = Sz(h, b)
      BY <3>3
    <3> QED
      BY <2>2, <2>4, <3>1, <3>3, <3>4, <3>7, <3>8, SearchFits
  <2> QED
    BY <2>3, <2>4 DEF Sz
<1> QED
  BY <1>1, <1>3, <1>4 DEF SearchIsGoodFit

LEMMA SoundFromGood == ASSUME Fitting(pools), Good(heap, pools), Served(heap, live) PROVE HeapIsSound
BY TiledFromGood, FlagsFromGood, ListsFromGood, ClientsFromGood, ChecksFromGood, SearchFromGood DEF HeapIsSound

-----------------------------------------------------------------------------
(* What the calls do to what clients hold.                                 *)

(* What a client holds after a call that answers q.                        *)
Given(l, k, q, size, a) ==
  IF q = Null THEN l ELSE [x \in DOMAIN k \cup {q} |-> IF x = q THEN [size |-> size, align |-> a] ELSE k[x]]

LEMMA ServedMore ==
  ASSUME NEW P, Fitting(P), NEW h, Good(h, P), NEW l, Served(h, l), NEW g, NEW q, NEW size, NEW a,
         Allocated(h, P, g, q, size, a), NEW m, m = Given(l, l, q, size, a)
  PROVE  Served(g, m)
<1>1. \A b \in UsedOf(h) : ToPtr(b) \in Nat /\ FromPtr(ToPtr(b)) = b
  BY UsedPointer
<1>2. \A b \in UsedOf(g) : ToPtr(b) \in Nat /\ FromPtr(ToPtr(b)) = b
  BY UsedPointer DEF Allocated
<1>3. CASE q = Null
  <2>1. \A b \in UsedOf(g) : ToPtr(b) # Null
    BY <1>2 DEF Null
  <2>2. g = h
    BY <1>3, <2>1 DEF Allocated
  <2> QED
    BY <1>3, <2>2 DEF Given
<1>4. CASE q # Null
  <2>1. PICK b \in UsedOf(g) : /\ q = ToPtr(b) /\ b \notin UsedOf(h) /\ UsedKept(h, g, {b})
                               /\ Sz(g, b) >= size /\ ToPtr(b) % a = 0
    BY <1>4 DEF Allocated
  <2>2. m = [x \in DOMAIN l \cup {q} |-> IF x = q THEN [size |-> size, align |-> a] ELSE l[x]]
    BY <1>4 DEF Given
  <2>3. UsedOf(g) = UsedOf(h) \cup {b} /\ \A x \in UsedOf(h) : Sz(g, x) = Sz(h, x) /\ ToPtr(x) # q
    BY <1>1, <1>2, <2>1 DEF UsedKept
  <2>4. DOMAIN m = {ToPtr(x) : x \in UsedOf(g)}
    BY <2>1, <2>2, <2>3 DEF Served
  <2>5. m[q].size = size /\ m[q].align = a
    BY <2>2
  <2>6. \A x \in UsedOf(h) : m[ToPtr(x)] = l[ToPtr(x)]
    BY <2>2, <2>3 DEF Served
  <2>7. \A x \in UsedOf(g) : Sz(g, x) >= m[ToPtr(x)].size /\ ToPtr(x) % m[ToPtr(x)].align = 0
    <3>1. ASSUME NEW x \in UsedOf(h) PROVE Sz(g, x) >= m[ToPtr(x)].size /\ ToPtr(x) % m[ToPtr(x)].align = 0
      BY <2>3, <2>6 DEF Served
    <3>2. Sz(g, b) >= m[ToPtr(b)].size /\ ToPtr(b) % m[ToPtr(b)].align = 0
      BY <2>1, <2>5, Zenon
    <3> QED
      BY <2>3, <3>1, <3>2, Zenon
  <2> QED
    BY <2>4, <2>7 DEF Served
<1> QED
  BY <1>3, <1>4

LEMMA ServedLess ==
  ASSUME NEW P, Fitting(P), NEW h, Good(h, P), NEW l, Served(h, l), NEW b \in UsedOf(h), NEW g,
         UsedKept(h, g, {b}), b \notin UsedOf(g), NEW m, m = [x \in DOMAIN l \ {ToPtr(b)} |-> l[x]]
  PROVE  Served(g, m)
<1>1. \A x \in UsedOf(h) : ToPtr(x) \in Nat /\ FromPtr(ToPtr(x)) = x
  BY UsedPointer
<1>2. UsedOf(g) = UsedOf(h) \ {b} /\ \A x \in UsedOf(g) : Sz(g, x) = Sz(h, x) /\ ToPtr(x) # ToPtr(b)
  BY <1>1 DEF UsedKept
<1>3. DOMAIN m = {ToPtr(x) : x \in UsedOf(g)}
  BY <1>2 DEF Served
<1>4. \A x \in UsedOf(g) : m[ToPtr(x)] = l[ToPtr(x)]
  BY <1>2 DEF Served
<1>5. \A x \in UsedOf(g) : Sz(g, x) >= m[ToPtr(x)].size /\ ToPtr(x) % m[ToPtr(x)].align = 0
  <2>1. TAKE x \in UsedOf(g)
  <2>2. Sz(h, x) >= l[ToPtr(x)].size /\ ToPtr(x) % l[ToPtr(x)].align = 0
    BY <1>2 DEF Served
  <2> QED
    BY <1>2, <1>4, <2>2
<1> QED
  BY <1>3, <1>5 DEF Served

LEMMA ServedAgain ==
  ASSUME NEW h, NEW l, Served(h, l), NEW g, UsedKept(h, g, {})
  PROVE  Served(g, l)
<1>1. UsedOf(g) = UsedOf(h) /\ \A x \in UsedOf(g) : Sz(g, x) = Sz(h, x)
  BY DEF UsedKept
<1>2. \A x \in UsedOf(g) : Sz(g, x) >= l[ToPtr(x)].size /\ ToPtr(x) % l[ToPtr(x)].align = 0
  <2>1. TAKE x \in UsedOf(g)
  <2>2. Sz(h, x) >= l[ToPtr(x)].size /\ ToPtr(x) % l[ToPtr(x)].align = 0
    BY <1>1 DEF Served
  <2> QED
    BY <1>1, <2>2
<1> QED
  BY <1>1, <1>2 DEF Served

LEMMA ServedMoved ==
  ASSUME NEW P, Fitting(P), NEW h, Good(h, P), NEW l, Served(h, l), NEW b \in UsedOf(h), NEW g, NEW q, NEW size,
         Reallocated(h, P, b, g, q, size), NEW k, k = [x \in DOMAIN l \ {ToPtr(b)} |-> l[x]], NEW m,
         m = Given(l, k, q, size, ALIGN_SIZE)
  PROVE  Served(g, m)
<1>1. \A x \in UsedOf(h) : ToPtr(x) \in Nat /\ FromPtr(ToPtr(x)) = x
  BY UsedPointer
<1>2. \A x \in UsedOf(g) : ToPtr(x) \in Nat /\ FromPtr(ToPtr(x)) = x
  BY UsedPointer DEF Reallocated
<1>3. CASE q = Null
  <2>1. \A x \in UsedOf(g) : ToPtr(x) # Null
    BY <1>2 DEF Null
  <2>2. g = h
    BY <1>3, <2>1 DEF Reallocated
  <2> QED
    BY <1>3, <2>2 DEF Given
<1>4. CASE q # Null
  <2>1. PICK d \in UsedOf(g) : /\ q = ToPtr(d) /\ UsedKept(h, g, {b, d}) /\ Sz(g, d) >= size
                               /\ d # b => d \notin UsedOf(h) /\ b \notin UsedOf(g)
    BY <1>4 DEF Reallocated
  <2>2. m = [x \in DOMAIN k \cup {q} |-> IF x = q THEN [size |-> size, align |-> ALIGN_SIZE] ELSE k[x]]
    BY <1>4 DEF Given
  <2>3. /\ UsedOf(g) = (UsedOf(h) \ {b}) \cup {d}
        /\ \A x \in UsedOf(g) \ {d} : x \in UsedOf(h) /\ Sz(g, x) = Sz(h, x) /\ ToPtr(x) # q /\ ToPtr(x) # ToPtr(b)
    BY <1>1, <1>2, <2>1 DEF UsedKept
  <2>4. DOMAIN k = {ToPtr(x) : x \in UsedOf(h) \ {b}}
    BY <1>1 DEF Served
  <2>5. DOMAIN m = {ToPtr(x) : x \in UsedOf(g)}
    BY <2>1, <2>2, <2>3, <2>4
  <2>6. m[q].size = size /\ m[q].align = ALIGN_SIZE
    BY <2>2
  <2>7. \A x \in UsedOf(g) \ {d} : m[ToPtr(x)] = l[ToPtr(x)]
    BY <2>2, <2>3, <2>4 DEF Served
  <2>8. ASSUME NEW x \in UsedOf(g) PROVE Sz(g, x) >= m[ToPtr(x)].size /\ ToPtr(x) % m[ToPtr(x)].align = 0
    <3>1. CASE x = d
      <4>1. ToPtr(d) % ALIGN_SIZE = 0
        <5>1. d \in Heads(g) /\ Loose(g, P, {})
          BY DEF UsedOf, Good, Reallocated
        <5> QED
          BY <5>1, PointerIs DEF Aligned
      <4> QED
        BY <2>1, <2>6, <3>1, <4>1, Zenon
    <3>2. CASE x # d
      <4>1. Sz(h, x) >= l[ToPtr(x)].size /\ ToPtr(x) % l[ToPtr(x)].align = 0 /\ Sz(g, x) = Sz(h, x)
        BY <2>3, <3>2 DEF Served
      <4>2. m[ToPtr(x)] = l[ToPtr(x)]
        BY <2>7, <3>2
      <4> QED
        BY <4>1, <4>2
    <3> QED
      BY <3>1, <3>2
  <2> QED
    BY <2>5, <2>8 DEF Served
<1> QED
  BY <1>3, <1>4

-----------------------------------------------------------------------------
(* The invariant of the allocator.                                         *)

HeapInv == Fitting(pools) /\ Good(heap, pools) /\ Served(heap, live)

LEMMA HeapInvInit == TlsfInit => HeapInv
<1>1. SUFFICES ASSUME TlsfInit PROVE HeapInv
  OBVIOUS
<1>2. PICK P : P = {FirstPool}
  OBVIOUS
<1>3. heap = AddPool(control_construct, FirstPool) /\ pools = P /\ live = << >> /\ {} \cup {FirstPool} = P
  BY <1>1, <1>2 DEF TlsfInit
<1>4. Fitting(P)
  BY <1>2, TlsfAssumption DEF Fitting
<1>5. Good(heap, P) /\ UsedKept(control_construct, heap, {})
  <2>1. Good(control_construct, {})
    BY NothingIsGood
  <2>2. Fitting({} \cup {FirstPool}) /\ FirstPool \notin {}
    BY <1>3, <1>4
  <2>3. Good(heap, {} \cup {FirstPool}) /\ UsedKept(control_construct, heap, {})
    BY <1>3, <2>1, <2>2, AddPoolIs
  <2> QED
    BY <1>3, <2>3
<1>6. Served(control_construct, << >>)
  <2>1. UsedOf(control_construct) = {}
    BY DEF UsedOf, Heads, control_construct
  <2> QED
    BY <2>1 DEF Served
<1>7. Served(heap, live)
  BY <1>3, <1>5, <1>6, ServedAgain
<1> QED
  BY <1>3, <1>4, <1>5, <1>7 DEF HeapInv

LEMMA RequestsFit == ASSUME NEW n \in Requests PROVE n \in Nat /\ n < Bit[SizeBits]
BY TlsfAssumption, ConstantsAre

LEMMA StepMalloc == ASSUME HeapInv, NEW n \in Requests, tlsf_malloc(n) PROVE HeapInv'
<1>1. PICK P, h, l, m, k : P = pools /\ h = heap /\ l = live /\ m = live' /\ k = heap'
  OBVIOUS
<1>2. Fitting(P) /\ Good(h, P) /\ Served(h, l)
  BY <1>1 DEF HeapInv
<1>3. PICK g, q : Malloc(h, n) = <<g, q>>
  BY DEF Malloc
<1>4. Allocated(h, P, g, q, n, ALIGN_SIZE)
  BY <1>2, <1>3, RequestsFit, MallocIs
<1>5. /\ k = g /\ pools' = P
      /\ m = Given(l, l, q, n, ALIGN_SIZE)
  BY <1>1, <1>3 DEF tlsf_malloc, Hold, Given
<1>6. Served(g, m)
  BY <1>2, <1>4, <1>5, ServedMore
<1>7. Good(g, P)
  BY <1>4 DEF Allocated
<1> QED
  BY <1>1, <1>2, <1>5, <1>6, <1>7 DEF HeapInv

LEMMA StepMemalign == ASSUME HeapInv, NEW e \in AlignBits, NEW n \in Requests, tlsf_memalign(Bit[e], n) PROVE HeapInv'
<1>1. PICK P, h, l, m, k : P = pools /\ h = heap /\ l = live /\ m = live' /\ k = heap'
  OBVIOUS
<1>2. Fitting(P) /\ Good(h, P) /\ Served(h, l)
  BY <1>1 DEF HeapInv
<1>3. PICK a : a = Bit[e]
  BY ZenonT(60)
<1>4. PICK g, q : Memalign(h, a, n) = <<g, q>>
  BY DEF Memalign
<1>5. Allocated(h, P, g, q, n, a)
  BY <1>2, <1>3, <1>4, RequestsFit, MemalignIs
<1>6. /\ k = g /\ pools' = P
      /\ m = Given(l, l, q, n, a)
  BY <1>1, <1>3, <1>4 DEF tlsf_memalign, Hold, Given
<1>7. Served(g, m)
  BY <1>2, <1>5, <1>6, ServedMore
<1>8. Good(g, P)
  BY <1>5 DEF Allocated
<1> QED
  BY <1>1, <1>2, <1>6, <1>7, <1>8 DEF HeapInv

(* What a client holds is the storage of a used block.                     *)
LEMMA HeldIs ==
  ASSUME NEW h, NEW l, Served(h, l), NEW p \in DOMAIN l
  PROVE  \E b \in UsedOf(h) : p = ToPtr(b)
BY DEF Served

LEMMA StepFree == ASSUME HeapInv, NEW p \in DOMAIN live, tlsf_free(p) PROVE HeapInv'
<1>1. PICK P, h, l, m, g : P = pools /\ h = heap /\ l = live /\ m = live' /\ g = heap'
  OBVIOUS
<1>2. Fitting(P) /\ Good(h, P) /\ Served(h, l)
  BY <1>1 DEF HeapInv
<1>3. PICK b \in UsedOf(h) : p = ToPtr(b)
  BY <1>1, <1>2, HeldIs
<1>4. g = Free(h, ToPtr(b)) /\ pools' = P /\ m = [x \in DOMAIN l \ {ToPtr(b)} |-> l[x]]
  BY <1>1, <1>3 DEF tlsf_free, Drop
<1>5. Good(g, P) /\ UsedKept(h, g, {b}) /\ b \notin UsedOf(g)
  BY <1>2, <1>4, FreeIs
<1>6. Served(g, m)
  BY <1>2, <1>4, <1>5, ServedLess
<1> QED
  BY <1>1, <1>2, <1>4, <1>5, <1>6 DEF HeapInv

LEMMA ReallocPair == ASSUME NEW h, NEW p, NEW n PROVE \E g, q : Realloc(h, p, n) = <<g, q>>
<1>1. PICK m, r : Malloc(h, n) = <<m, r>>
  BY DEF Malloc
<1>2. PICK b, c, adjust, cursize, combined, idle :
        /\ b = FromPtr(p) /\ c = NextOf(h, b) /\ adjust = adjust_request_size(n, ALIGN_SIZE)
        /\ cursize = h.blk[b].size /\ combined = cursize + h.blk[c].size + Overhead /\ idle = h.blk[c].free
  OBVIOUS
<1>3. PICK moved, grown : moved = Malloc(h, n) /\ grown = IF adjust > cursize THEN MarkUsed(MergeNext(h, b), b) ELSE h
  OBVIOUS
<1>4. Realloc(h, p, n) = CASE adjust = 0 -> <<h, Null>>
                           [] adjust > cursize /\ (~ idle \/ adjust > combined) ->
                                IF moved[2] = Null THEN moved ELSE <<Free(moved[1], p), moved[2]>>
                           [] OTHER -> <<TrimUsed(grown, b, adjust), p>>
  BY <1>2, <1>3, Zenon DEF Realloc
<1>5. moved = <<m, r>>
  BY <1>1, <1>3
<1> QED
  BY <1>4, <1>5

LEMMA StepRealloc == ASSUME HeapInv, NEW p \in DOMAIN live, NEW n \in Requests, tlsf_realloc(p, n) PROVE HeapInv'
<1>1. PICK P, h, l, m, f : P = pools /\ h = heap /\ l = live /\ m = live' /\ f = heap'
  OBVIOUS
<1>2. Fitting(P) /\ Good(h, P) /\ Served(h, l)
  BY <1>1 DEF HeapInv
<1>3. PICK b \in UsedOf(h) : p = ToPtr(b)
  BY <1>1, <1>2, HeldIs
<1>4. PICK t : t = Realloc(h, p, n)
  OBVIOUS
<1>5. PICK g, q : t = <<g, q>>
  BY <1>4, ReallocPair
<1>6. Reallocated(h, P, b, g, q, n)
  BY <1>2, <1>3, <1>4, <1>5, RequestsFit, ReallocIs
<1>7. PICK k : k = [x \in DOMAIN l \ {ToPtr(b)} |-> l[x]]
  OBVIOUS
<1>8. /\ f = g /\ pools' = P
      /\ m = Given(l, k, q, n, ALIGN_SIZE)
  <2>1. Drop(p) = k
    BY <1>1, <1>3, <1>7 DEF Drop
  <2>2. f = t[1] /\ pools' = P
    BY <1>1, <1>4 DEF tlsf_realloc
  <2>3. m = IF t[2] = Null THEN l
            ELSE [x \in DOMAIN k \cup {t[2]} |-> IF x = t[2] THEN [size |-> n, align |-> ALIGN_SIZE] ELSE k[x]]
    BY <1>1, <1>4, <2>1 DEF tlsf_realloc
  <2>4. t[1] = g /\ t[2] = q
    BY <1>5
  <2> QED
    BY <2>2, <2>3, <2>4 DEF Given
<1>9. Served(g, m)
  BY <1>2, <1>3, <1>6, <1>7, <1>8, ServedMoved
<1>10. Good(g, P)
  BY <1>6 DEF Reallocated
<1> QED
  BY <1>1, <1>2, <1>8, <1>9, <1>10 DEF HeapInv

LEMMA StepAddPool == ASSUME HeapInv, NEW pool \in Pools, tlsf_add_pool(pool) PROVE HeapInv'
<1>1. PICK P, h, l, g : P = pools /\ h = heap /\ l = live /\ g = heap'
  OBVIOUS
<1>2. Fitting(P) /\ Good(h, P) /\ Served(h, l)
  BY <1>1 DEF HeapInv
<1>3. CASE PoolFits(pool)
  <2>1. pool \notin P /\ g = AddPool(h, pool) /\ pools' = P \cup {pool} /\ live' = l
    BY <1>1, <1>3 DEF tlsf_add_pool
  <2>2. Fitting(P \cup {pool})
    BY <1>2, <1>3 DEF Fitting
  <2>3. Good(g, P \cup {pool}) /\ UsedKept(h, g, {})
    BY <1>2, <2>1, <2>2, AddPoolIs
  <2>4. Served(g, l)
    BY <1>2, <2>3, ServedAgain
  <2> QED
    BY <1>1, <2>1, <2>2, <2>3, <2>4 DEF HeapInv
<1>4. CASE ~ PoolFits(pool)
  <2>1. heap' = heap /\ pools' = pools /\ live' = live
    BY <1>4 DEF tlsf_add_pool
  <2> QED
    BY <2>1 DEF HeapInv
<1> QED
  BY <1>3, <1>4

LEMMA StepRemovePool == ASSUME HeapInv, NEW pool \in Pools, tlsf_remove_pool(pool) PROVE HeapInv'
<1>1. PICK P, h, l, g : P = pools /\ h = heap /\ l = live /\ g = heap'
  OBVIOUS
<1>2. Fitting(P) /\ Good(h, P) /\ Served(h, l)
  BY <1>1 DEF HeapInv
<1>3. pool \in P /\ PoolIsFree(h, pool) /\ g = RemovePool(h, pool) /\ pools' = P \ {pool} /\ live' = l
  BY <1>1 DEF tlsf_remove_pool
<1>4. Fitting(P \ {pool})
  BY <1>2 DEF Fitting
<1>5. Good(g, P \ {pool}) /\ UsedKept(h, g, {})
  BY <1>2, <1>3, RemovePoolIs
<1>6. Served(g, l)
  BY <1>2, <1>5, ServedAgain
<1> QED
  BY <1>1, <1>3, <1>4, <1>5, <1>6 DEF HeapInv

LEMMA HeapInvNext == HeapInv /\ [TlsfNext]_tlsf_vars => HeapInv'
<1>1. SUFFICES ASSUME HeapInv, [TlsfNext]_tlsf_vars PROVE HeapInv'
  OBVIOUS
<1>2. ASSUME NEW n \in Requests, tlsf_malloc(n) PROVE HeapInv'
  BY <1>1, <1>2, StepMalloc
<1>3. ASSUME NEW e \in AlignBits, NEW n \in Requests, tlsf_memalign(Bit[e], n) PROVE HeapInv'
  BY <1>1, <1>3, StepMemalign
<1>4. ASSUME NEW p \in DOMAIN live, tlsf_free(p) PROVE HeapInv'
  BY <1>1, <1>4, StepFree
<1>5. ASSUME NEW p \in DOMAIN live, NEW n \in Requests, tlsf_realloc(p, n) PROVE HeapInv'
  BY <1>1, <1>5, StepRealloc
<1>6. ASSUME NEW pool \in Pools, tlsf_add_pool(pool) PROVE HeapInv'
  BY <1>1, <1>6, StepAddPool
<1>7. ASSUME NEW pool \in Pools, tlsf_remove_pool(pool) PROVE HeapInv'
  BY <1>1, <1>7, StepRemovePool
<1>8. CASE UNCHANGED tlsf_vars
  BY <1>1, <1>8 DEF HeapInv, tlsf_vars
<1> QED
  BY <1>1, <1>2, <1>3, <1>4, <1>5, <1>6, <1>7, <1>8 DEF TlsfNext

(* HeapIsSound holds in every state of every heap (tlsf.c:353-1143): for   *)
(* every geometry of classes the static assertions allow, every set of     *)
(* pools and requests, after any sequence of malloc, memalign, free,       *)
(* realloc, add_pool and remove_pool, the blocks tile the pools, no two    *)
(* free neighbours are left apart, the lists and bitmaps list the free     *)
(* blocks by class, and clients hold aligned blocks of their own, as large *)
(* as they asked for.                                                      *)
THEOREM HeapIsSoundAlways == TlsfSpec => []HeapIsSound
<1>1. HeapInv => HeapIsSound
  BY SoundFromGood DEF HeapInv
<1> QED
  BY <1>1, HeapInvInit, HeapInvNext, PTL DEF TlsfSpec
=============================================================================
