-------------------------------- MODULE Stats --------------------------------
(***************************************************************************)
(* The registry of statistics counters (src/core/stats.c, stats.h):        *)
(* registration holds the mutex, everything else reads the table and the   *)
(* atomic values without it, also while a counter is being registered.     *)
(***************************************************************************)
EXTENDS Integers, Sequences, FiniteSets, FiniteSetsExt

CONSTANTS
  Callers, CounterNames, Categories,
  counter_capacity,
  MaxCounterCalls,     (* bound: calls of a thread                         *)
  UINT32_MAX           (* no counter, no holder, and a name not set yet    *)

ASSUME StatsAssumption ==
  /\ counter_capacity \in Nat
  /\ UINT32_MAX \notin CounterNames \cup Categories \cup Callers

VARIABLES
  counters,   (* the counters below counter_count                          *)
  stats_lock, (* the holder of the mutex, or UINT32_MAX                    *)
  call,       (* thread -> its call, with what it reads                    *)
  counted,    (* thread -> calls made                                      *)
  owed,       (* id -> increments since it was reset                       *)
  changes     (* id -> switches so far                                     *)

stats_vars == <<counters, stats_lock, call, counted, owed, changes>>

NoCall == [op |-> "idle"]
Ids == DOMAIN counters
Has(id, name, category) == counters[id].name = name /\ counters[id].category = category

Call(t, c) ==
  /\ call[t].op = "idle" /\ counted[t] < MaxCounterCalls
  /\ counted' = [counted EXCEPT ![t] = @ + 1]
  /\ call' = [call EXCEPT ![t] = c]

(* Under the mutex: the slot counts before it has its name.                *)
stats_register_counter(t, name, category) ==
  /\ stats_lock = UINT32_MAX
  /\ IF Len(counters) >= counter_capacity
     THEN /\ Call(t, [op |-> "registered", id |-> UINT32_MAX, name |-> name, category |-> category])
          /\ UNCHANGED <<counters, stats_lock, owed, changes>>
     ELSE /\ Call(t, [op |-> "register", id |-> Len(counters) + 1, name |-> name, category |-> category])
          /\ counters' = Append(counters, [value |-> 0, enabled |-> TRUE, name |-> UINT32_MAX, category |-> UINT32_MAX])
          /\ stats_lock' = t
          /\ owed' = Append(owed, 0) /\ changes' = Append(changes, 0)

Fill(t) ==
  /\ call[t].op = "register"
  /\ counters' = [counters EXCEPT ![call[t].id].name = call[t].name, ![call[t].id].category = call[t].category]
  /\ stats_lock' = UINT32_MAX
  /\ call' = [call EXCEPT ![t].op = "registered"]
  /\ UNCHANGED <<counted, owed, changes>>

(* The walk over the table of stats_find_counter and stats_enable_category:*)
(* it reads the count again for every entry.                               *)
stats_find_counter(t, name, category) ==
  /\ Call(t, [op |-> "find", at |-> 1, name |-> name, category |-> category, id |-> UINT32_MAX,
              known |-> {i \in Ids : Has(i, name, category)}])
  /\ UNCHANGED <<counters, stats_lock, owed, changes>>

stats_enable_category(t, category, enabled) ==
  /\ Call(t, [op |-> "switch", at |-> 1, category |-> category, enabled |-> enabled,
              known |-> {<<i, changes[i]>> : i \in {i \in Ids : counters[i].category = category}}])
  /\ UNCHANGED <<counters, stats_lock, owed, changes>>

Walk(t) ==
  /\ call[t].op \in {"find", "switch"}
  /\ LET c == call[t]
     IN  IF c.at > Len(counters)
         THEN /\ call' = [call EXCEPT ![t].op = IF c.op = "find" THEN "found" ELSE "switched"]
              /\ UNCHANGED <<counters, changes>>
         ELSE IF c.op = "find"
              THEN /\ call' = [call EXCEPT ![t] = IF Has(c.at, c.name, c.category)
                                                  THEN [c EXCEPT !.op = "found", !.id = c.at]
                                                  ELSE [c EXCEPT !.at = @ + 1]]
                   /\ UNCHANGED <<counters, changes>>
              ELSE LET hit == counters[c.at].category = c.category
                   IN  /\ call' = [call EXCEPT ![t].at = @ + 1]
                       /\ counters' = IF hit THEN [counters EXCEPT ![c.at].enabled = c.enabled] ELSE counters
                       /\ changes' = IF hit THEN [changes EXCEPT ![c.at] = @ + 1] ELSE changes
  /\ UNCHANGED <<stats_lock, counted, owed>>

(* The macro looks whether the counter is enabled, then adds.              *)
stats_inc(t, id) ==
  /\ Call(t, [op |-> IF counters[id].enabled THEN "add" ELSE "done", id |-> id])
  /\ UNCHANGED <<counters, stats_lock, owed, changes>>

Add(t) ==
  /\ call[t].op = "add"
  /\ counters' = [counters EXCEPT ![call[t].id].value = @ + 1]
  /\ owed' = [owed EXCEPT ![call[t].id] = @ + 1]
  /\ call' = [call EXCEPT ![t].op = "done"]
  /\ UNCHANGED <<stats_lock, counted, changes>>

stats_reset_counter(t, id) ==
  /\ Call(t, [op |-> "done"])
  /\ counters' = [counters EXCEPT ![id].value = 0]
  /\ owed' = [owed EXCEPT ![id] = 0]
  /\ UNCHANGED <<stats_lock, changes>>

stats_enable_counter(t, id, enabled) ==
  /\ Call(t, [op |-> "done"])
  /\ counters' = [counters EXCEPT ![id].enabled = enabled]
  /\ changes' = [changes EXCEPT ![id] = @ + 1]
  /\ UNCHANGED <<stats_lock, owed>>

stats_reset_counter_by_name(t) ==
  /\ call[t].op = "found" /\ call[t].id # UINT32_MAX
  /\ counters' = [counters EXCEPT ![call[t].id].value = 0]
  /\ owed' = [owed EXCEPT ![call[t].id] = 0]
  /\ call' = [call EXCEPT ![t] = NoCall]
  /\ UNCHANGED <<stats_lock, counted, changes>>

ReturnCall(t) ==
  /\ call[t].op \in {"registered", "found", "switched", "done"}
  /\ call' = [call EXCEPT ![t] = NoCall]
  /\ UNCHANGED <<counters, stats_lock, counted, owed, changes>>

StatsInit ==
  /\ counters = << >> /\ stats_lock = UINT32_MAX /\ owed = << >> /\ changes = << >>
  /\ call = [t \in Callers |-> NoCall] /\ counted = [t \in Callers |-> 0]

StatsNext ==
  \E t \in Callers :
    \/ Fill(t) \/ Walk(t) \/ Add(t) \/ stats_reset_counter_by_name(t) \/ ReturnCall(t)
    \/ \E id \in Ids : stats_inc(t, id) \/ stats_reset_counter(t, id)
    \/ \E category \in Categories :
         \/ \E name \in CounterNames : stats_register_counter(t, name, category) \/ stats_find_counter(t, name, category)
         \/ \E enabled \in BOOLEAN : stats_enable_category(t, category, enabled)
    \/ \E id \in Ids, enabled \in BOOLEAN : stats_enable_counter(t, id, enabled)

StatsSpec == StatsInit /\ [][StatsNext]_stats_vars

-----------------------------------------------------------------------------
(* CountersAreTheirs: a registered id has its caller's name and no other   *)
(* caller's; a search finds what was registered when it began, the first   *)
(* of the name, and a counter with another name never; a category that was *)
(* switched is switched in every counter it had, unless that was switched  *)
(* again; and no increment gets lost (stats.c:50-162).                     *)
CountersAreTheirs ==
  /\ \A id \in Ids : counters[id].value = owed[id]
  /\ \A t \in Callers :
       LET c == call[t]
       IN  /\ c.op = "registered" /\ c.id # UINT32_MAX =>
                /\ Has(c.id, c.name, c.category)
                /\ \A u \in Callers \ {t} : call[u].op \in {"register", "registered"} => call[u].id # c.id
           /\ c.op = "found" =>
                /\ c.id # UINT32_MAX => Has(c.id, c.name, c.category)
                /\ c.known # {} => c.id = Min(c.known)
           /\ c.op = "switched" =>
                \A k \in c.known : changes[k[1]] = k[2] + 1 => counters[k[1]].enabled = c.enabled
=============================================================================
