-------------------------- MODULE ArenaDiagnostics --------------------------
(***************************************************************************)
(* Two observers of arenas: the table of the call sites that allocate from *)
(* one (arena_alloc_tracker.c), and the watchdog of arenas that only grow  *)
(* (arena_watchdog.c).  They share nothing.                                *)
(***************************************************************************)
EXTENDS Integers, Sequences, FiniteSets, SequencesExt

-----------------------------------------------------------------------------
(***************************************************************************)
(* src/core/arena_alloc_tracker.c: a table of the call sites that allocate *)
(* from an arena, with open addressing, and the report of its largest.     *)
(* Every operation holds the table's mutex from its first line to its last.*)
(***************************************************************************)
CONSTANTS
  Sites,                (* call sites                                      *)
  Hash,                 (* site -> slot it hashes to                       *)
  TRACKER_TABLE_SIZE,
  Sizes, MaxRecords     (* bounds: sizes, allocations of a site since a    *)
                        (* reset                                           *)

ASSUME AllocAssumption ==
  /\ TRACKER_TABLE_SIZE \in Nat \ {0} /\ Sizes \subseteq Nat
  /\ Hash \in [Sites -> 0..TRACKER_TABLE_SIZE - 1]

VARIABLES
  slots,    (* occupied slot -> its entry                                  *)
  top,      (* the last report                                             *)
  records   (* site -> what it allocated since the reset, for the          *)
            (* properties                                                  *)

alloc_vars == <<slots, top, records>>

TableSlots == 0..TRACKER_TABLE_SIZE - 1
Occupied == DOMAIN slots

(* Slots in the order a probe visits them, and where it stops.             *)
Probe(site) == [p \in 1..TRACKER_TABLE_SIZE |-> (Hash[site] + p - 1) % TRACKER_TABLE_SIZE]
Stops(site) == {p \in 1..TRACKER_TABLE_SIZE :
                  Probe(site)[p] \in Occupied => slots[Probe(site)[p]].site = site}

(* An entry grows by an allocation; a slot becomes the site's entry.       *)
Grown(entry, size) == [entry EXCEPT !.total = @ + size, !.count = @ + 1]
Entered(site, size) ==
  LET at == Probe(site)[CHOOSE p \in Stops(site) : \A q \in Stops(site) : p <= q]
  IN  [i \in Occupied \cup {at} |->
         IF i # at THEN slots[i]
         ELSE IF at \in Occupied THEN Grown(slots[at], size)
         ELSE [site |-> site, total |-> size, count |-> 1]]

(* A site finds no slot when the table is full of others.                  *)
arena_alloc_tracker_record(site, size) ==
  /\ records[site].count < MaxRecords
  /\ slots' = IF Stops(site) = {} THEN slots ELSE Entered(site, size)
  /\ records' = [records EXCEPT ![site] = Grown(@, size)]
  /\ UNCHANGED top

Untouched == [site \in Sites |-> [total |-> 0, count |-> 0]]

arena_alloc_tracker_reset == slots' = << >> /\ records' = Untouched /\ UNCHANGED top

(* Insertion into the n largest seen so far: the smaller ones move up, the *)
(* last of n falls out.                                                    *)
Insert(result, entry, n) ==
  LET smaller == {j \in DOMAIN result : entry.total > result[j].total}
      place == IF smaller = {} THEN Len(result) + 1
               ELSE CHOOSE j \in smaller : \A k \in smaller : j <= k
  IN  [j \in 1..IF Len(result) < n THEN Len(result) + 1 ELSE Len(result) |->
         IF j < place THEN result[j] ELSE IF j = place THEN entry ELSE result[j - 1]]

(* The n largest, slot by slot.                                            *)
Largest(n) ==
  LET result[i \in 0..TRACKER_TABLE_SIZE] ==
        IF i = 0 THEN << >>
        ELSE IF i - 1 \in Occupied THEN Insert(result[i - 1], slots[i - 1], n) ELSE result[i - 1]
  IN  result[TRACKER_TABLE_SIZE]

arena_alloc_tracker_get_top(max_entries) ==
  LET n == IF Cardinality(Occupied) < max_entries THEN Cardinality(Occupied) ELSE max_entries
  IN  /\ top' = [n |-> max_entries, of |-> Largest(n), table |-> {slots[i] : i \in Occupied}]
      /\ UNCHANGED <<slots, records>>

AllocInit == slots = << >> /\ top = [n |-> 0, of |-> << >>, table |-> {}] /\ records = Untouched

AllocNext ==
  \/ \E site \in Sites, size \in Sizes : arena_alloc_tracker_record(site, size)
  \/ arena_alloc_tracker_reset
  \/ \E n \in 1..TRACKER_TABLE_SIZE : arena_alloc_tracker_get_top(n)

AllocSpec == AllocInit /\ [][AllocNext]_alloc_vars

-----------------------------------------------------------------------------
(* TotalsAreExact: a call site has one entry with the bytes and the number *)
(* of its allocations since the reset, and a site that has none was        *)
(* dropped by a table full of others (arena_alloc_tracker.c:63-106).       *)
TotalsAreExact ==
  \A site \in Sites :
    LET mine == {i \in Occupied : slots[i].site = site}
    IN  /\ Cardinality(mine) <= 1
        /\ \A i \in mine : slots[i].count = records[site].count /\ slots[i].total = records[site].total
        /\ mine = {} /\ records[site].count # 0 => Cardinality(Occupied) = TRACKER_TABLE_SIZE

(* ReportsAreTop: a report lists as many entries as it was asked for or    *)
(* the table has, largest first, and nothing larger was left out           *)
(* (arena_alloc_tracker.c:110-173).                                        *)
ReportsAreTop ==
  LET shown == {top.of[i] : i \in DOMAIN top.of}
  IN  /\ shown \subseteq top.table /\ Cardinality(shown) = Len(top.of)
      /\ Len(top.of) = top.n \/ shown = top.table
      /\ \A i, j \in DOMAIN top.of : i < j => top.of[i].total >= top.of[j].total
      /\ \A e \in top.table \ shown, s \in shown : e.total <= s.total

-----------------------------------------------------------------------------
(***************************************************************************)
(* src/core/arena_watchdog.c: it samples the position of every arena now   *)
(* and then, keeps the last samples of each in a ring, and warns about     *)
(* arenas that only grow.  Arenas come and go between two samples, and a   *)
(* new one may get the address of an old one.                              *)
(***************************************************************************)
CONSTANTS
  Addresses, MaxPos, MaxLives,    (* bounds: where arenas are, how full,   *)
                                  (* and how many are made                 *)
  MaxSamples,                     (* bound: samples taken                  *)
  WATCHDOG_RING_SIZE,
  MinGrowth                       (* min_growth_bytes                      *)

ASSUME WatchdogAssumption ==
  /\ IsFiniteSet(Addresses) /\ MaxPos \in Nat /\ MaxLives \in Nat
  /\ WATCHDOG_RING_SIZE \in Nat /\ WATCHDOG_RING_SIZE >= 3

VARIABLES
  arenas,       (* address -> 0, or when its arena was made               *)
  lives,        (* creation timestamps handed out                          *)
  entries,      (* s_watchdog.entries                                      *)
  threshold,    (* growth_threshold                                        *)
  alerts,       (* the arenas the last update warned about                 *)
  seenBy,       (* birth -> positions sampled, for the properties          *)
  walked        (* arenas of the last update                               *)

watchdog_vars == <<arenas, lives, entries, threshold, alerts, seenBy, walked>>

LiveArenas == {a \in Addresses : arenas[a] # 0}

-----------------------------------------------------------------------------

find_entry(list, a, birth) == {i \in DOMAIN list : list[i].arena = a /\ list[i].birth = birth}

NewEntry(a) ==
  [arena |-> a, birth |-> arenas[a], samples |-> [i \in 0..WATCHDOG_RING_SIZE - 1 |-> 0],
   index |-> 0, count |-> 0, lastAlert |-> 0, seen |-> FALSE]

(* The last threshold samples.                                             *)
Samples(e) ==
  [i \in 1..threshold |->
     e.samples[(e.index + WATCHDOG_RING_SIZE - threshold + i - 1) % WATCHDOG_RING_SIZE]]

check_monotonic_growth(e) ==
  /\ e.count >= threshold
  /\ \A i \in 2..threshold : Samples(e)[i] > Samples(e)[i - 1]
  /\ Samples(e)[threshold] - Samples(e)[1] >= MinGrowth

Sampled(e, position) ==
  [e EXCEPT !.samples[e.index] = position, !.index = (@ + 1) % WATCHDOG_RING_SIZE,
            !.count = IF @ < WATCHDOG_RING_SIZE THEN @ + 1 ELSE @, !.seen = TRUE]

(* One call of the callback: w holds the entries and the warnings so far.  *)
sample_arena_callback(w, a, position) ==
  LET found == find_entry(w.entries, a, arenas[a])
      list == IF found = {} THEN Append(w.entries, NewEntry(a)) ELSE w.entries
      at == IF found = {} THEN Len(list) ELSE CHOOSE i \in found : \A j \in found : i <= j
      e == Sampled(list[at], position)
      warns == check_monotonic_growth(e) /\ position # e.lastAlert
  IN  [entries |-> [list EXCEPT ![at] = IF warns THEN [e EXCEPT !.lastAlert = position] ELSE e],
       alerts |-> IF warns THEN w.alerts \cup {arenas[a]} ELSE w.alerts]

(* remove_entry swaps the last entry in; i stays to look at that one.  So  *)
(* the loop runs once for every entry.                                     *)
Cleaned(s) ==
  IF s.list[s.i].seen THEN [list |-> [s.list EXCEPT ![s.i].seen = FALSE], i |-> s.i + 1]
  ELSE [list |-> Front([s.list EXCEPT ![s.i] = Last(s.list)]), i |-> s.i]

cleanup_stale_entries(list) ==
  LET loop[k \in 0..Len(list)] == IF k = 0 THEN [list |-> list, i |-> 1] ELSE Cleaned(loop[k - 1])
  IN  loop[Len(list)].list

(* arena_tracker_iterate_all with the callback.                            *)
Iterated(order, pos) ==
  LET w[k \in 0..Len(order)] ==
        IF k = 0 THEN [entries |-> entries, alerts |-> {}]
        ELSE sample_arena_callback(w[k - 1], order[k], pos[order[k]])
  IN  w[Len(order)]

(* The interval is over: every arena of the tracker's list, in its order.  *)
arena_watchdog_update(order, pos) ==
  LET w == Iterated(order, pos)
  IN  /\ Cardinality({s \in (DOMAIN seenBy) \X (1..MaxSamples) : s[2] <= Len(seenBy[s[1]])}) < MaxSamples
      /\ entries' = cleanup_stale_entries(w.entries)
      /\ alerts' = w.alerts
      /\ walked' = {arenas[a] : a \in LiveArenas}
      /\ seenBy' = [b \in DOMAIN seenBy |->
                      IF \E a \in LiveArenas : arenas[a] = b
                      THEN Append(seenBy[b], pos[CHOOSE a \in LiveArenas : arenas[a] = b])
                      ELSE seenBy[b]]
      /\ UNCHANGED <<arenas, lives, threshold>>

(* The threshold is clamped to 2 samples at least and the ring at most.    *)
arena_watchdog_set_growth_threshold(samples) ==
  /\ threshold' = IF samples < 2 THEN 2
                  ELSE IF samples > WATCHDOG_RING_SIZE THEN WATCHDOG_RING_SIZE ELSE samples
  /\ alerts' = {}
  /\ UNCHANGED <<arenas, lives, entries, seenBy, walked>>

-----------------------------------------------------------------------------
(* What the arenas do meanwhile.                                           *)

MakeArena(a) ==
  /\ arenas[a] = 0 /\ lives < MaxLives
  /\ lives' = lives + 1
  /\ arenas' = [arenas EXCEPT ![a] = lives + 1]
  /\ UNCHANGED <<entries, threshold, alerts, seenBy, walked>>

DestroyArena(a) ==
  /\ arenas[a] # 0
  /\ arenas' = [arenas EXCEPT ![a] = 0]
  /\ UNCHANGED <<lives, entries, threshold, alerts, seenBy, walked>>

WatchdogInit ==
  /\ arenas = [a \in Addresses |-> 0] /\ lives = 0
  /\ entries = << >> /\ threshold = 3 /\ alerts = {}
  /\ seenBy = [b \in 1..MaxLives |-> << >>] /\ walked = {}

(* The live arenas, oldest first.                                          *)
Orders ==
  {order \in [1..Cardinality(LiveArenas) -> LiveArenas] :
     /\ \A a \in LiveArenas : \E i \in DOMAIN order : order[i] = a
     /\ \A i, j \in DOMAIN order : i < j => arenas[order[i]] < arenas[order[j]]}

WatchdogNext ==
  \/ \E order \in Orders, pos \in [LiveArenas -> 1..MaxPos] : arena_watchdog_update(order, pos)
  \/ \E n \in 1..WATCHDOG_RING_SIZE + 1 :
       threshold # n /\ arena_watchdog_set_growth_threshold(n)
  \/ \E a \in Addresses : MakeArena(a) \/ DestroyArena(a)

WatchdogSpec == WatchdogInit /\ [][WatchdogNext]_watchdog_vars

-----------------------------------------------------------------------------
(* EntriesAreLive: the entries stand for the arenas that the last update   *)
(* walked, one each, with every sample of theirs that the ring holds; an   *)
(* arena that was gone has none (arena_watchdog.c:127-188).                *)
EntriesAreLive ==
  /\ {entries[i].birth : i \in DOMAIN entries} = walked
  /\ Len(entries) = Cardinality(walked)
  /\ \A i \in DOMAIN entries :
       LET mine == seenBy[entries[i].birth]
       IN  entries[i].count = IF Len(mine) < WATCHDOG_RING_SIZE THEN Len(mine) ELSE WATCHDOG_RING_SIZE

(* GrowthIsReal: a warning is about an arena whose own last samples, as    *)
(* many as the threshold, grew each time and by the minimum together; what *)
(* an older arena did at its address does not count                        *)
(* (arena_watchdog.c:99-173).                                              *)
GrowthIsReal ==
  \A b \in alerts :
    LET mine == seenBy[b]
        last == SubSeq(mine, Len(mine) - threshold + 1, Len(mine))
    IN  /\ Len(mine) >= threshold
        /\ \A i \in 2..threshold : last[i] > last[i - 1]
        /\ last[threshold] - last[1] >= MinGrowth
=============================================================================
