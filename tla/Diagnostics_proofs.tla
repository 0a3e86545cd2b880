-------------------------- MODULE Diagnostics_proofs --------------------------
(***************************************************************************)
(* Proofs that the diagnostics of the core tell the truth: the counters of *)
(* stats.c, the scopes of perf_scope.c, the totals of call sites of        *)
(* arena_alloc_tracker.c and the samples of arena_watchdog.c, each by an   *)
(* invariant of its own, for all values of their constants.                *)
(***************************************************************************)
EXTENDS Diagnostics, FiniteSetTheorems, SequenceTheorems, WellFoundedInduction, TLAPS

LEMMA Least ==
  ASSUME NEW T, T \subseteq Nat, T # {}
  PROVE  \E x \in T : \A y \in T : x <= y
<1> DEFINE R == OpToRel(<, Nat)
<1>1. IsWellFoundedOn(R, Nat)
  BY NatLessThanWellFounded
<1>2. \A x, y \in Nat : x < y => <<x, y>> \in R
  BY DEF OpToRel
<1> HIDE DEF R
<1>3. PICK x \in T : \A y \in T : ~ (<<y, x>> \in R)
  BY <1>1, WFMin
<1>4. \A y \in T : ~ (y < x)
  BY <1>2, <1>3
<1>5. \A y \in T : x <= y
  BY <1>4
<1> QED
  BY <1>5

(* A loop of N rounds: F of the round and of what the one before left.     *)
StaysIn(N, S, F) == \A i \in 1..N, s \in S : F[<<i, s>>] \in S
IsRun(N, S, x, F, f) == f \in [0..N -> S] /\ f[0] = x /\ \A i \in 1..N : f[i] = F[<<i, f[i - 1]>>]
HasRun(N, S, x, F) == \E f : IsRun(N, S, x, F, f)

LEMMA Loop ==
  ASSUME NEW N \in Nat, NEW S, NEW x \in S, NEW F, StaysIn(N, S, F)
  PROVE  HasRun(N, S, x, F)
<1> DEFINE Runs(f, k) == f[0] = x /\ \A i \in 1..k : f[i] = F[<<i, f[i - 1]>>]
           B == {k \in 0..N : ~ \E f \in [0..k -> S] : Runs(f, k)}
<1> SUFFICES ASSUME B # {} PROVE FALSE
  BY DEF HasRun, IsRun
<1>0. B \subseteq Nat
  OBVIOUS
<1>1. PICK k \in B : \A j \in B : k <= j
  <2> HIDE DEF B
  <2> QED
    BY <1>0, Least
<1>2. k \in 0..N /\ ~ \E f \in [0..k -> S] : Runs(f, k)
  OBVIOUS
<1>3. k # 0
  <2> SUFFICES ASSUME k = 0 PROVE FALSE
    OBVIOUS
  <2>1. PICK f : f = [i \in 0..0 |-> x]
    OBVIOUS
  <2>2. f \in [0..0 -> S] /\ f[0] = x /\ 1..0 = {}
    BY <2>1
  <2> QED
    BY <1>2, <2>2
<1>4. k - 1 \in 0..N /\ ~ (k <= k - 1) /\ (k - 1) + 1 = k
  BY <1>2, <1>3
<1>5. k - 1 \notin B
  BY <1>1, <1>4
<1>6. PICK f \in [0..(k - 1) -> S] : Runs(f, k - 1)
  BY <1>4, <1>5
<1>7. PICK g : g = [i \in 0..k |-> IF i = k THEN F[<<k, f[k - 1]>>] ELSE f[i]]
  OBVIOUS
<1>8. k \in 1..N /\ k - 1 \in 0..(k - 1)
  BY <1>2, <1>3
<1>9. f[k - 1] \in S /\ F[<<k, f[k - 1]>>] \in S
  BY <1>6, <1>8 DEF StaysIn
<1>10. g \in [0..k -> S] /\ (\A i \in 0..(k - 1) : g[i] = f[i]) /\ g[k] = F[<<k, f[k - 1]>>]
  BY <1>2, <1>3, <1>6, <1>7, <1>9
<1>11. g[0] = x
  <2>1. 0 \in 0..(k - 1)
    BY <1>2, <1>3
  <2> QED
    BY <1>6, <1>10, <2>1
<1>12. ASSUME NEW i \in 1..k PROVE g[i] = F[<<i, g[i - 1]>>]
  <2>1. i - 1 \in 0..(k - 1)
    BY <1>2, <1>12
  <2>2. CASE i = k
    BY <1>10, <2>1, <2>2
  <2>3. CASE i # k
    <3>1. i \in 1..(k - 1) /\ i \in 0..(k - 1)
      BY <1>2, <2>3
    <3> QED
      BY <1>6, <1>10, <2>1, <3>1
  <2> QED
    BY <2>2, <2>3
<1>13. Runs(g, k)
  BY <1>11, <1>12
<1> QED
  BY <1>2, <1>10, <1>13

LEMMA ModuloOnce ==
  ASSUME NEW R \in Nat \ {0}, NEW a \in Nat, a < 2 * R
  PROVE  a % R = IF a < R THEN a ELSE a - R
OBVIOUS

-----------------------------------------------------------------------------
(***************************************************************************)
(* Proofs about the totals of call sites, for any sites, hash and size of  *)
(* the table.  The slots a probe passes before it reaches an entry are     *)
(* occupied, so that a site is not entered again before its entry.         *)
(***************************************************************************)

SiteEntry == [site : Sites, total : Nat, count : Nat]

AllocTypes ==
  /\ slots \in [Occupied -> SiteEntry] /\ Occupied \subseteq TableSlots
  /\ records \in [Sites -> [total : Nat, count : Nat]]
  /\ \A site \in Sites : records[site].count = 0 => records[site].total = 0

EntriesOK ==
  /\ \A i \in Occupied : /\ slots[i].total = records[slots[i].site].total
                         /\ slots[i].count = records[slots[i].site].count
  /\ \A i, j \in Occupied : slots[i].site = slots[j].site => i = j

PathsOK ==
  \A i \in Occupied : \A p \in 1..TRACKER_TABLE_SIZE :
    Probe(slots[i].site)[p] = i => \A q \in 1..p - 1 : Probe(slots[i].site)[q] \in Occupied

DroppedOK ==
  \A site \in Sites :
    records[site].count # 0 => Occupied = TableSlots \/ \E i \in Occupied : slots[i].site = site

AllocInv == AllocTypes /\ EntriesOK /\ PathsOK /\ DroppedOK /\ ReportsAreTop

(* A probe visits every slot once.                                         *)
LEMMA ProbeVisits ==
  ASSUME NEW site \in Sites
  PROVE  /\ Probe(site) \in [1..TRACKER_TABLE_SIZE -> TableSlots]
         /\ \A i \in TableSlots : \E p \in 1..TRACKER_TABLE_SIZE : Probe(site)[p] = i
         /\ \A p, q \in 1..TRACKER_TABLE_SIZE : Probe(site)[p] = Probe(site)[q] => p = q
<1>1. PICK R \in Nat \ {0} : R = TRACKER_TABLE_SIZE
  BY AllocAssumption
<1>2. PICK h \in 0..R - 1 : h = Hash[site]
  BY <1>1, AllocAssumption
<1>3. ASSUME NEW p \in 1..R PROVE Probe(site)[p] = IF h + p - 1 < R THEN h + p - 1 ELSE h + p - 1 - R
  <2>1. PICK a \in Nat : a = h + p - 1 /\ a < 2 * R
    BY <1>3
  <2>2. a % R = IF a < R THEN a ELSE a - R
    BY <2>1, ModuloOnce
  <2> QED
    BY <1>1, <1>2, <2>1, <2>2 DEF Probe
<1>4. Probe(site) = [p \in 1..R |-> Probe(site)[p]]
  BY <1>1 DEF Probe
<1>5. \A p \in 1..R : Probe(site)[p] \in 0..R - 1
  BY <1>3
<1>6. ASSUME NEW i \in 0..R - 1 PROVE \E p \in 1..R : Probe(site)[p] = i
  <2>1. CASE i >= h
    <3>1. i - h + 1 \in 1..R /\ h + (i - h + 1) - 1 = i /\ i < R
      BY <2>1
    <3> QED
      BY <1>3, <3>1
  <2>2. CASE i < h
    <3>1. PICK p \in 1..R : p = i + R - h + 1
      BY <2>2
    <3>2. h + p - 1 = i + R /\ ~ (i + R < R) /\ i + R - R = i
      BY <3>1
    <3>3. Probe(site)[p] = i
      BY <1>3, <3>2
    <3> QED
      BY <3>3
  <2> QED
    BY <2>1, <2>2
<1>7. \A p, q \in 1..R : Probe(site)[p] = Probe(site)[q] => p = q
  BY <1>3
<1> QED
  BY <1>1, <1>4, <1>5, <1>6, <1>7 DEF TableSlots

LEMMA GrownEntry ==
  ASSUME NEW e \in SiteEntry, NEW size \in Nat
  PROVE  /\ Grown(e, size) \in SiteEntry /\ Grown(e, size).site = e.site
         /\ Grown(e, size).total = e.total + size /\ Grown(e, size).count = e.count + 1
<1>1. e = [site |-> e.site, total |-> e.total, count |-> e.count] /\ e.site \in Sites /\ e.total \in Nat /\ e.count \in Nat
  BY DEF SiteEntry
<1>2. PICK t, c \in Nat : t = e.total + size /\ c = e.count + 1
  BY <1>1
<1>3. Grown(e, size) = [e EXCEPT !.total = t, !.count = c]
  BY <1>2 DEF Grown
<1> QED
  BY <1>1, <1>2, <1>3 DEF SiteEntry

LEMMA GrownRecord ==
  ASSUME NEW e \in [total : Nat, count : Nat], NEW size \in Nat
  PROVE  /\ Grown(e, size) \in [total : Nat, count : Nat]
         /\ Grown(e, size).total = e.total + size /\ Grown(e, size).count = e.count + 1
<1>1. e = [total |-> e.total, count |-> e.count] /\ e.total \in Nat /\ e.count \in Nat
  OBVIOUS
<1>2. PICK t, c \in Nat : t = e.total + size /\ c = e.count + 1
  BY <1>1
<1>3. Grown(e, size) = [e EXCEPT !.total = t, !.count = c]
  BY <1>2 DEF Grown
<1> QED
  BY <1>1, <1>2, <1>3

LEMMA RecordKeeps ==
  ASSUME AllocInv, NEW site \in Sites, NEW size \in Sizes, arena_alloc_tracker_record(site, size)
  PROVE  AllocInv'
<1>1. PICK R \in Nat \ {0} : R = TRACKER_TABLE_SIZE
  BY AllocAssumption
<1>2. size \in Nat
  BY AllocAssumption
<1>3. /\ Probe(site) \in [1..R -> TableSlots]
      /\ \A i \in TableSlots : \E p \in 1..R : Probe(site)[p] = i
      /\ \A p, q \in 1..R : Probe(site)[p] = Probe(site)[q] => p = q
  BY <1>1, ProbeVisits
<1>14. PICK old \in [total : Nat, count : Nat] : old = records[site]
  BY DEF AllocInv, AllocTypes
<1>15. PICK new : new = Grown(old, size)
  OBVIOUS
<1>4. old = records[site] /\ new = Grown(old, size)
  BY <1>14, <1>15
<1>5. /\ new \in [total : Nat, count : Nat] /\ new.total = old.total + size /\ new.count = old.count + 1
      /\ new.count # 0
  <2>1. old.count \in Nat
    OBVIOUS
  <2>2. new \in [total : Nat, count : Nat] /\ new.total = old.total + size /\ new.count = old.count + 1
    BY <1>2, <1>4, GrownRecord
  <2> QED
    BY <2>1, <2>2
<1>6. /\ records' = [records EXCEPT ![site] = new] /\ top' = top
      /\ slots' = IF Stops(site) = {} THEN slots ELSE Entered(site, size)
  BY <1>4 DEF arena_alloc_tracker_record
<1>7. /\ records' \in [Sites -> [total : Nat, count : Nat]] /\ records'[site] = new
      /\ \A s \in Sites : s # site => records'[s] = records[s]
  BY <1>5, <1>6 DEF AllocInv, AllocTypes
<1>8. \A s \in Sites : records'[s].count = 0 => records'[s].total = 0
  BY <1>5, <1>7 DEF AllocInv, AllocTypes
<1>9. ReportsAreTop'
  BY <1>6 DEF AllocInv, ReportsAreTop
<1>10. \A i \in Occupied : slots[i] \in SiteEntry /\ slots[i].site \in Sites /\ i \in TableSlots
  BY DEF AllocInv, AllocTypes, SiteEntry
<1>11. \A p \in 1..R : p \in Stops(site) <=> (Probe(site)[p] \in Occupied => slots[Probe(site)[p]].site = site)
  BY <1>1 DEF Stops
<1>12. CASE Stops(site) = {}
  <2>1. slots' = slots /\ Occupied' = Occupied
    BY <1>6, <1>12 DEF Occupied
  <2>2. \A i \in TableSlots : i \in Occupied /\ slots[i].site # site
    BY <1>3, <1>11, <1>12
  <2>3. AllocTypes'
    BY <1>7, <1>8, <2>1 DEF AllocInv, AllocTypes
  <2>4. EntriesOK'
    BY <1>7, <1>10, <2>1, <2>2 DEF AllocInv, EntriesOK
  <2>5. PathsOK'
    BY <2>1 DEF AllocInv, PathsOK, Probe
  <2>6. Occupied = TableSlots
    BY <1>10, <2>2
  <2>7. DroppedOK'
    BY <2>1, <2>6 DEF DroppedOK
  <2> QED
    BY <1>9, <2>3, <2>4, <2>5, <2>7 DEF AllocInv
<1>13. CASE Stops(site) # {}
  <2>1. Stops(site) \subseteq Nat
    BY <1>1 DEF Stops
  <2>2. PICK p : p = CHOOSE o \in Stops(site) : \A q \in Stops(site) : o <= q
    OBVIOUS
  <2>3. p \in Stops(site) /\ \A q \in Stops(site) : p <= q
    BY <1>13, <2>1, <2>2, Least
  <2>4. PICK at : at = Probe(site)[p]
    OBVIOUS
  <2>5. p \in 1..R /\ at \in TableSlots /\ (at \in Occupied => slots[at].site = site)
    BY <1>1, <1>3, <2>3, <2>4 DEF Stops
  <2>6. \A q \in 1..p - 1 : Probe(site)[q] \in Occupied
    <3> SUFFICES ASSUME NEW q \in 1..p - 1 PROVE Probe(site)[q] \in Occupied
      OBVIOUS
    <3>1. q \in 1..R /\ ~ (p <= q)
      BY <2>5
    <3> QED
      BY <1>11, <2>3, <3>1
  <2>7. PICK e : e = IF at \in Occupied THEN Grown(slots[at], size) ELSE [site |-> site, total |-> size, count |-> 1]
    OBVIOUS
  <2>8. slots' = [i \in Occupied \cup {at} |-> IF i # at THEN slots[i] ELSE e]
    BY <1>6, <1>13, <2>2, <2>4, <2>7 DEF Entered
  <2>9. /\ Occupied' = Occupied \cup {at} /\ slots'[at] = e
        /\ \A i \in Occupied : i # at => slots'[i] = slots[i]
    BY <2>8 DEF Occupied
  <2>10. e \in SiteEntry /\ e.site = site /\ e.total = new.total /\ e.count = new.count
    <3>1. CASE at \in Occupied
      <4>1. slots[at] \in SiteEntry /\ slots[at].site = site /\ slots[at].total = old.total /\ slots[at].count = old.count
        BY <1>4, <1>10, <2>5, <3>1 DEF AllocInv, EntriesOK
      <4>2. e = Grown(slots[at], size)
        BY <2>7, <3>1
      <4>3. PICK d \in SiteEntry : d = slots[at]
        BY <4>1
      <4>4. e \in SiteEntry /\ e.site = d.site /\ e.total = d.total + size /\ e.count = d.count + 1
        BY <1>2, <4>2, <4>3, GrownEntry
      <4> QED
        BY <1>5, <4>1, <4>3, <4>4
    <3>2. CASE at \notin Occupied
      <4>1. ASSUME NEW i \in Occupied, slots[i].site = site PROVE FALSE
        <5>1. PICK r \in 1..R : Probe(site)[r] = i
          BY <1>3, <1>10, <4>1
        <5>2. \A q \in 1..r - 1 : Probe(site)[q] \in Occupied
          BY <1>1, <4>1, <5>1 DEF AllocInv, PathsOK
        <5>3. r \in Stops(site) /\ p <= r
          BY <1>11, <2>3, <4>1, <5>1
        <5>4. p # r
          BY <2>4, <3>2, <4>1, <5>1
        <5>5. p \in 1..r - 1
          BY <2>5, <5>3, <5>4
        <5> QED
          BY <2>4, <3>2, <5>2, <5>5
      <4>2. old.count = 0 /\ old.total = 0
        BY <1>4, <2>5, <3>2, <4>1 DEF AllocInv, DroppedOK, AllocTypes
      <4> QED
        BY <1>2, <1>5, <2>7, <3>2, <4>2 DEF SiteEntry
    <3> QED
      BY <3>1, <3>2
  <2>11. AllocTypes'
    <3>1. \A i \in Occupied' : slots'[i] \in SiteEntry
      BY <1>10, <2>9, <2>10
    <3>2. slots' = [i \in Occupied' |-> slots'[i]]
      BY <2>8, <2>9
    <3>3. Occupied' \subseteq TableSlots
      BY <1>10, <2>5, <2>9
    <3> QED
      BY <1>7, <1>8, <3>1, <3>2, <3>3 DEF AllocTypes
  <2>12. \A i \in Occupied' : i # at => i \in Occupied /\ slots'[i] = slots[i]
    BY <2>9
  <2>13. \A i \in Occupied : i # at => slots[i].site # site
    <3> SUFFICES ASSUME NEW i \in Occupied, i # at, slots[i].site = site PROVE FALSE
      OBVIOUS
    <3>1. at \notin Occupied
      BY <2>5 DEF AllocInv, EntriesOK
    <3>2. PICK r \in 1..R : Probe(site)[r] = i
      BY <1>3, <1>10
    <3>3. \A q \in 1..r - 1 : Probe(site)[q] \in Occupied
      BY <1>1, <3>2 DEF AllocInv, PathsOK
    <3>4. r \in Stops(site) /\ p <= r
      BY <1>11, <2>3, <3>2
    <3>5. p \in 1..r - 1
      BY <2>4, <2>5, <3>2, <3>4
    <3> QED
      BY <2>4, <3>1, <3>3, <3>5
  <2>14. EntriesOK'
    <3>1. ASSUME NEW i \in Occupied'
          PROVE  /\ slots'[i].total = records'[slots'[i].site].total
                 /\ slots'[i].count = records'[slots'[i].site].count
      <4>1. CASE i = at
        BY <1>7, <2>9, <2>10, <4>1
      <4>2. CASE i # at
        BY <1>7, <1>10, <2>12, <2>13, <4>2 DEF AllocInv, EntriesOK
      <4> QED
        BY <4>1, <4>2
    <3>2. ASSUME NEW i \in Occupied', NEW j \in Occupied', slots'[i].site = slots'[j].site PROVE i = j
      BY <2>9, <2>10, <2>12, <2>13, <3>2 DEF AllocInv, EntriesOK
    <3> QED
      BY <3>1, <3>2 DEF EntriesOK
  <2>15. PathsOK'
    <3> SUFFICES ASSUME NEW i \in Occupied', NEW r \in 1..R, Probe(slots'[i].site)[r] = i, NEW q \in 1..r - 1
                 PROVE  Probe(slots'[i].site)[q] \in Occupied'
      BY <1>1 DEF PathsOK, Probe
    <3>1. CASE i = at
      <4>1. r = p
        BY <1>3, <2>4, <2>5, <2>9, <2>10, <3>1
      <4> QED
        BY <2>6, <2>9, <2>10, <3>1, <4>1
    <3>2. CASE i # at
      BY <1>1, <2>9, <2>12, <3>2 DEF AllocInv, PathsOK
    <3> QED
      BY <3>1, <3>2
  <2>16. DroppedOK'
    <3> SUFFICES ASSUME NEW s \in Sites, records'[s].count # 0
                 PROVE  Occupied' = TableSlots \/ \E i \in Occupied' : slots'[i].site = s
      BY DEF DroppedOK
    <3>1. CASE s = site
      BY <2>9, <2>10, <3>1
    <3>2. CASE s # site
      <4>1. Occupied = TableSlots \/ \E i \in Occupied : slots[i].site = s
        BY <1>7, <3>2 DEF AllocInv, DroppedOK
      <4>2. Occupied = TableSlots => Occupied' = TableSlots
        BY <2>5, <2>9
      <4>3. ASSUME NEW i \in Occupied, slots[i].site = s PROVE \E j \in Occupied' : slots'[j].site = s
        <5>1. i # at
          BY <2>5, <3>2, <4>3
        <5> QED
          BY <2>9, <4>3, <5>1
      <4> QED
        BY <4>1, <4>2, <4>3
    <3> QED
      BY <3>1, <3>2
  <2> QED
    BY <1>9, <2>11, <2>14, <2>15, <2>16 DEF AllocInv
<1> QED
  BY <1>12, <1>13

LEMMA ResetKeepsTotals == ASSUME AllocInv, arena_alloc_tracker_reset PROVE AllocInv'
<1>1. slots' = << >> /\ records' = Untouched /\ top' = top
  BY DEF arena_alloc_tracker_reset
<1>2. Occupied' = {} /\ slots' = [i \in {} |-> i]
  BY <1>1 DEF Occupied
<1>3. \A site \in Sites : records'[site].count = 0 /\ records'[site].total = 0
  BY <1>1 DEF Untouched
<1>4. records' \in [Sites -> [total : Nat, count : Nat]]
  BY <1>1 DEF Untouched
<1>5. AllocTypes'
  BY <1>2, <1>3, <1>4 DEF AllocTypes
<1>6. EntriesOK' /\ PathsOK' /\ DroppedOK'
  BY <1>2, <1>3 DEF EntriesOK, PathsOK, DroppedOK
<1>7. ReportsAreTop'
  BY <1>1 DEF AllocInv, ReportsAreTop
<1> QED
  BY <1>5, <1>6, <1>7 DEF AllocInv

(* What the loop of a report keeps: the largest of the entries seen so far,*)
(* largest first, one of a site; all of them unless the report is full.    *)
TopOf(res, seenEntries, n) ==
  /\ res \in Seq(SiteEntry) /\ Len(res) <= n
  /\ \A a \in 1..Len(res) : res[a] \in seenEntries
  /\ \A a, b \in 1..Len(res) : a < b => res[a].total >= res[b].total /\ res[a].site # res[b].site
  /\ \A d \in seenEntries : \/ \E a \in 1..Len(res) : res[a] = d
                            \/ Len(res) = n /\ \A a \in 1..Len(res) : d.total <= res[a].total

LEMMA Inserted ==
  ASSUME NEW res \in Seq(SiteEntry), NEW e \in SiteEntry, NEW n \in Nat
  PROVE  \E p \in 1..Len(res) + 1 :
           /\ Insert(res, e, n)
                = [j \in 1..IF Len(res) < n THEN Len(res) + 1 ELSE Len(res) |->
                     IF j < p THEN res[j] ELSE IF j = p THEN e ELSE res[j - 1]]
           /\ \A j \in 1..Len(res) : j < p => e.total <= res[j].total
           /\ p <= Len(res) => e.total > res[p].total
<1>1. PICK m \in Nat : m = Len(res) /\ DOMAIN res = 1..m
  OBVIOUS
<1>2. \A j \in 1..m : res[j].total \in Nat /\ e.total \in Nat
  <2>1. \A j \in 1..m : res[j] \in SiteEntry
    BY <1>1
  <2> QED
    BY <2>1 DEF SiteEntry
<1> DEFINE smaller == {j \in DOMAIN res : e.total > res[j].total}
           p == IF smaller = {} THEN Len(res) + 1 ELSE CHOOSE j \in smaller : \A k \in smaller : j <= k
<1>5. Insert(res, e, n)
        = [j \in 1..IF Len(res) < n THEN Len(res) + 1 ELSE Len(res) |->
             IF j < p THEN res[j] ELSE IF j = p THEN e ELSE res[j - 1]]
  BY DEF Insert
<1>3. smaller = {j \in DOMAIN res : e.total > res[j].total}
  OBVIOUS
<1> HIDE DEF smaller
<1>8. CASE smaller = {}
  <2>1. \A j \in 1..m : e.total <= res[j].total
    BY <1>1, <1>2, <1>3, <1>8
  <2>2. p = m + 1 /\ p \in 1..m + 1 /\ ~ (p <= m)
    BY <1>1, <1>8
  <2> HIDE DEF p
  <2> QED
    BY <1>1, <1>5, <2>1, <2>2
<1>7. CASE smaller # {}
  <2>1. smaller \subseteq Nat
    BY <1>1, <1>3
  <2>2. p \in smaller /\ \A k \in smaller : p <= k
    BY <1>7, <2>1, Least
  <2>3. p \in 1..m /\ e.total > res[p].total
    BY <1>1, <1>3, <2>2
  <2>4. ASSUME NEW j \in 1..m, j < p PROVE e.total <= res[j].total
    <3>1. j \notin smaller
      BY <2>2, <2>3, <2>4
    <3> QED
      BY <1>1, <1>2, <1>3, <3>1
  <2>5. p \in 1..m + 1
    BY <2>3
  <2> HIDE DEF p
  <2> QED
    BY <1>1, <1>5, <2>3, <2>4, <2>5
<1> QED
  BY <1>7, <1>8

LEMMA InsertedType ==
  ASSUME NEW res \in Seq(SiteEntry), NEW e \in SiteEntry, NEW n \in Nat
  PROVE  Insert(res, e, n) \in Seq(SiteEntry)
<1>1. PICK m, l \in Nat : m = Len(res) /\ DOMAIN res = 1..m /\ l = IF m < n THEN m + 1 ELSE m
  OBVIOUS
<1>2. PICK p \in 1..m + 1 :
        Insert(res, e, n) = [j \in 1..l |-> IF j < p THEN res[j] ELSE IF j = p THEN e ELSE res[j - 1]]
  <2>1. PICK p \in 1..Len(res) + 1 :
          /\ Insert(res, e, n)
            = [j \in 1..IF Len(res) < n THEN Len(res) + 1 ELSE Len(res) |->
                 IF j < p THEN res[j] ELSE IF j = p THEN e ELSE res[j - 1]]
          /\ \A j \in 1..Len(res) : j < p => e.total <= res[j].total
          /\ p <= Len(res) => e.total > res[p].total
    BY Inserted
  <2>2. p \in 1..m + 1 /\ (IF Len(res) < n THEN Len(res) + 1 ELSE Len(res)) = l
    BY <1>1
  <2> QED
    BY <2>1, <2>2
<1>3. ASSUME NEW j \in 1..l PROVE (IF j < p THEN res[j] ELSE IF j = p THEN e ELSE res[j - 1]) \in SiteEntry
  <2>1. \A k \in 1..m : res[k] \in SiteEntry
    BY <1>1
  <2>2. j < p => j \in 1..m
    OBVIOUS
  <2>3. ~ (j < p) /\ j # p => j - 1 \in 1..m
    BY <1>1
  <2> QED
    BY <2>1, <2>2, <2>3
<1> QED
  BY <1>2, <1>3

LEMMA InsertKeepsTop ==
  ASSUME NEW n \in Nat, n # 0, NEW E, E \subseteq SiteEntry, NEW e \in SiteEntry, \A d \in E : d.site # e.site,
         NEW res, TopOf(res, E, n)
  PROVE  TopOf(Insert(res, e, n), E \cup {e}, n)
<1>1. PICK m, l \in Nat : m = Len(res) /\ l = IF m < n THEN m + 1 ELSE m
  BY DEF TopOf
<1>2. /\ res \in Seq(SiteEntry) /\ DOMAIN res = 1..m /\ m <= n
      /\ \A a \in 1..m : res[a] \in E
      /\ \A a, b \in 1..m : a < b => res[a].total >= res[b].total /\ res[a].site # res[b].site
      /\ \A d \in E : \/ \E a \in 1..m : res[a] = d
                      \/ m = n /\ \A a \in 1..m : d.total <= res[a].total
  BY <1>1 DEF TopOf
<1>3. \A d \in E : d.total \in Nat
  BY DEF SiteEntry
<1>4. e.total \in Nat /\ \A a \in 1..m : res[a].total \in Nat
  BY <1>2, <1>3 DEF SiteEntry
<1>5. PICK p \in 1..m + 1 :
        /\ Insert(res, e, n) = [j \in 1..l |-> IF j < p THEN res[j] ELSE IF j = p THEN e ELSE res[j - 1]]
        /\ \A j \in 1..m : j < p => e.total <= res[j].total
        /\ p <= m => e.total > res[p].total
  BY <1>1, <1>2, Inserted
<1>6. PICK new : new = Insert(res, e, n)
  OBVIOUS
<1>7. new \in Seq(SiteEntry) /\ Len(new) = l /\ l <= n
  <2>1. new \in Seq(SiteEntry)
    BY <1>2, <1>6, InsertedType
  <2>2. DOMAIN new = 1..l
    BY <1>5, <1>6
  <2>3. l <= n
    BY <1>1, <1>2
  <2> QED
    BY <2>1, <2>2, <2>3
<1>8. ASSUME NEW j \in 1..l
      PROVE  /\ j < p => j \in 1..m /\ new[j] = res[j] /\ e.total <= new[j].total
             /\ j = p => new[j] = e
             /\ j > p => j - 1 \in 1..m /\ j - 1 >= p /\ new[j] = res[j - 1] /\ new[j].total < e.total
  <2>1. new[j] = IF j < p THEN res[j] ELSE IF j = p THEN e ELSE res[j - 1]
    BY <1>5, <1>6
  <2>2. ASSUME j < p PROVE j \in 1..m /\ new[j] = res[j] /\ e.total <= new[j].total
    <3>1. j \in 1..m
      BY <2>2
    <3> QED
      BY <1>5, <2>1, <2>2, <3>1
  <2>3. ASSUME j > p PROVE j - 1 \in 1..m /\ j - 1 >= p /\ new[j] = res[j - 1] /\ new[j].total < e.total
    <3>1. j - 1 \in 1..m /\ j - 1 >= p /\ p \in 1..m /\ ~ (j < p) /\ j # p
      BY <1>1, <2>3
    <3>2. res[p].total >= res[j - 1].total
      <4>1. CASE j - 1 = p
        BY <1>4, <3>1, <4>1
      <4>2. CASE j - 1 # p
        BY <1>2, <3>1, <4>2
      <4> QED
        BY <4>1, <4>2
    <3> QED
      BY <1>4, <1>5, <2>1, <3>1, <3>2
  <2> QED
    BY <2>1, <2>2, <2>3
<1>9. \A j \in 1..l : j < p \/ j = p \/ j > p
  OBVIOUS
<1>10. \A j \in 1..l : new[j] \in E \cup {e}
  BY <1>2, <1>8, <1>9
<1>11. ASSUME NEW a \in 1..l, NEW b \in 1..l, a < b
       PROVE  new[a].total >= new[b].total /\ new[a].site # new[b].site
  <2>1. CASE b < p
    BY <1>2, <1>8, <1>11, <2>1
  <2>2. CASE b = p
    <3>1. a < p
      BY <1>11, <2>2
    <3> QED
      BY <1>2, <1>8, <2>2, <3>1
  <2>3. CASE b > p /\ a < p
    <3>1. a \in 1..m /\ b - 1 \in 1..m /\ a < b - 1 /\ new[a] = res[a] /\ new[b] = res[b - 1]
      BY <1>8, <2>3
    <3> QED
      BY <1>2, <3>1
  <2>4. CASE b > p /\ a = p
    <3>1. b - 1 \in 1..m /\ new[b] = res[b - 1] /\ new[b].total < e.total /\ new[a] = e
      BY <1>8, <2>4
    <3>2. new[b].total \in Nat /\ new[b] \in E
      BY <1>2, <1>4, <3>1
    <3> QED
      BY <1>4, <3>1, <3>2
  <2>5. CASE b > p /\ a > p
    <3>1. a - 1 \in 1..m /\ b - 1 \in 1..m /\ a - 1 < b - 1 /\ new[a] = res[a - 1] /\ new[b] = res[b - 1]
      BY <1>8, <1>11, <2>5
    <3> QED
      BY <1>2, <3>1
  <2> QED
    BY <1>9, <2>1, <2>2, <2>3, <2>4, <2>5
<1>12. ASSUME NEW d \in E \cup {e}
       PROVE  \/ \E a \in 1..l : new[a] = d
              \/ l = n /\ \A a \in 1..l : d.total <= new[a].total
  <2>1. CASE d = e
    <3>1. CASE p <= l
      <4>1. p \in 1..l
        BY <3>1
      <4> QED
        BY <1>8, <2>1, <4>1
    <3>2. CASE ~ (p <= l)
      <4>1. l = n /\ \A a \in 1..l : a < p
        BY <1>1, <1>2, <3>2
      <4> QED
        BY <1>8, <2>1, <4>1
    <3> QED
      BY <3>1, <3>2
  <2>2. CASE d \in E /\ \E a \in 1..m : res[a] = d
    <3>1. PICK a \in 1..m : res[a] = d
      BY <2>2
    <3>2. CASE a < p
      <4>1. a \in 1..l
        BY <1>1
      <4> QED
        BY <1>8, <3>1, <3>2, <4>1
    <3>3. CASE ~ (a < p) /\ a + 1 <= l
      <4>1. a + 1 \in 1..l /\ a + 1 > p /\ (a + 1) - 1 = a
        BY <3>3
      <4>2. new[a + 1] = res[a]
        BY <1>8, <4>1
      <4> QED
        BY <3>1, <4>1, <4>2
    <3>4. CASE ~ (a < p) /\ ~ (a + 1 <= l)
      <4>1. a = m /\ l = m /\ l = n
        BY <1>1, <1>2, <3>4
      <4>2. ASSUME NEW j \in 1..l PROVE d.total <= new[j].total
        <5>1. CASE j < p
          <6>1. j \in 1..m /\ j < a
            BY <3>4, <4>1, <5>1
          <6> QED
            BY <1>2, <1>4, <1>8, <3>1, <5>1, <6>1
        <5>2. CASE j = p
          <6>1. p <= m /\ e.total > res[p].total /\ p \in 1..m
            BY <1>5, <4>1, <5>2
          <6>2. res[p].total >= res[a].total
            <7>1. CASE p = a
              BY <1>4, <6>1, <7>1
            <7>2. CASE p # a
              BY <1>2, <3>4, <6>1, <7>2
            <7> QED
              BY <7>1, <7>2
          <6> QED
            BY <1>4, <1>8, <3>1, <5>2, <6>1, <6>2
        <5>3. CASE j > p
          <6>1. j - 1 \in 1..m /\ j - 1 < a /\ new[j] = res[j - 1]
            BY <1>8, <4>1, <5>3
          <6> QED
            BY <1>2, <1>4, <3>1, <6>1
        <5> QED
          BY <1>9, <5>1, <5>2, <5>3
      <4> QED
        BY <4>1, <4>2
    <3> QED
      BY <3>2, <3>3, <3>4
  <2>3. CASE d \in E /\ ~ \E a \in 1..m : res[a] = d
    <3>1. m = n /\ (\A a \in 1..m : d.total <= res[a].total) /\ d.total \in Nat
      BY <1>2, <1>3, <2>3
    <3>2. l = n
      BY <1>1, <3>1
    <3>3. ASSUME NEW j \in 1..l PROVE d.total <= new[j].total
      <4>1. CASE j < p
        BY <1>8, <3>1, <4>1
      <4>2. CASE j = p
        <5>1. p \in 1..m /\ e.total > res[p].total /\ d.total <= res[p].total
          BY <1>5, <3>1, <3>2, <4>2
        <5> QED
          BY <1>4, <1>8, <3>1, <4>2, <5>1
      <4>3. CASE j > p
        BY <1>8, <3>1, <4>3
      <4> QED
        BY <1>9, <4>1, <4>2, <4>3
    <3> QED
      BY <3>2, <3>3
  <2> QED
    BY <2>1, <2>2, <2>3
<1> QED
  BY <1>6, <1>7, <1>10, <1>11, <1>12 DEF TopOf

(* The loop over the slots.                                                *)
LEMMA LargestRuns ==
  ASSUME AllocTypes, NEW n \in Nat, NEW R \in Nat, R = TRACKER_TABLE_SIZE
  PROVE  \E r \in [0..R -> Seq(SiteEntry)] :
           /\ r[0] = << >> /\ Largest(n) = r[R]
           /\ \A i \in 1..R : r[i] = IF i - 1 \in Occupied THEN Insert(r[i - 1], slots[i - 1], n) ELSE r[i - 1]
<1>13. PICK S : S = Seq(SiteEntry)
  OBVIOUS
<1>14. PICK F : F = [x \in (1..R) \X S |-> IF x[1] - 1 \in Occupied THEN Insert(x[2], slots[x[1] - 1], n) ELSE x[2]]
  OBVIOUS
<1>1. ASSUME NEW i \in 1..R, NEW s \in S
      PROVE  F[<<i, s>>] \in S /\ F[<<i, s>>] = IF i - 1 \in Occupied THEN Insert(s, slots[i - 1], n) ELSE s
  <2>1. F[<<i, s>>] = IF i - 1 \in Occupied THEN Insert(s, slots[i - 1], n) ELSE s
    BY <1>14
  <2>2. CASE i - 1 \in Occupied
    <3>1. PICK e \in SiteEntry : e = slots[i - 1]
      BY <2>2 DEF AllocTypes
    <3>2. Insert(s, e, n) \in Seq(SiteEntry)
      BY <1>13, InsertedType
    <3> QED
      BY <1>13, <2>1, <2>2, <3>1, <3>2
  <2> QED
    BY <2>1, <2>2
<1>2. << >> \in S
  BY <1>13
<1>12. \A i \in 1..R, s \in S : F[<<i, s>>] \in S
  BY <1>1
<1>3. PICK f \in [0..R -> S] : f[0] = << >> /\ \A i \in 1..R : f[i] = F[<<i, f[i - 1]>>]
  <2>1. PICK x \in S : x = << >>
    BY <1>2
  <2>2. StaysIn(R, S, F)
    BY <1>12 DEF StaysIn
  <2>3. HasRun(R, S, x, F)
    BY <2>2, Loop
  <2> QED
    BY <2>1, <2>3 DEF HasRun, IsRun
<1>4. ASSUME NEW i \in 1..R
      PROVE f[i] = IF i - 1 \in Occupied THEN Insert(f[i - 1], slots[i - 1], n) ELSE f[i - 1]
  <2>1. i - 1 \in 0..R
    BY <1>4
  <2> QED
    BY <1>1, <1>3, <2>1
<1> DEFINE result[i \in 0..R] ==
             IF i = 0 THEN << >>
             ELSE IF i - 1 \in Occupied THEN Insert(result[i - 1], slots[i - 1], n) ELSE result[i - 1]
<1>5. Largest(n) = result[R]
  BY DEF Largest
<1>6. f = [i \in 0..R |-> IF i = 0 THEN << >>
                          ELSE IF i - 1 \in Occupied THEN Insert(f[i - 1], slots[i - 1], n) ELSE f[i - 1]]
  BY <1>3, <1>4
<1>7. \E g : g = [i \in 0..R |-> IF i = 0 THEN << >>
                          ELSE IF i - 1 \in Occupied THEN Insert(g[i - 1], slots[i - 1], n) ELSE g[i - 1]]
  BY <1>6
<1>8. result = [i \in 0..R |-> IF i = 0 THEN << >>
                  ELSE IF i - 1 \in Occupied THEN Insert(result[i - 1], slots[i - 1], n) ELSE result[i - 1]]
  BY <1>7
<1> HIDE DEF result
<1>9. \A i \in 0..R : result[i] = f[i]
  <2> DEFINE B == {i \in 0..R : result[i] # f[i]}
  <2> SUFFICES ASSUME B # {} PROVE FALSE
    OBVIOUS
  <2>0. B \subseteq Nat
    OBVIOUS
  <2>1. PICK i \in B : \A j \in B : i <= j
    <3> HIDE DEF B
    <3> QED
      BY <2>0, Least
  <2>2. i # 0
    BY <1>3, <1>8
  <2>3. i - 1 \in 0..R /\ ~ (i <= i - 1) /\ i \in 1..R
    BY <2>2
  <2>4. result[i - 1] = f[i - 1]
    BY <2>1, <2>3
  <2>5. result[i] = f[i]
    BY <1>4, <1>8, <2>2, <2>3, <2>4
  <2> QED
    BY <2>5
<1>10. R \in 0..R
  OBVIOUS
<1> QED
  BY <1>3, <1>4, <1>5, <1>9, <1>10, <1>13

LEMMA LargestIsTop ==
  ASSUME AllocTypes, EntriesOK, NEW n \in Nat, Occupied # {} => n # 0
  PROVE  TopOf(Largest(n), {slots[i] : i \in Occupied}, n)
<1>1. PICK R \in Nat : R = TRACKER_TABLE_SIZE
  BY AllocAssumption
<1>2. PICK r \in [0..R -> Seq(SiteEntry)] :
        /\ r[0] = << >> /\ Largest(n) = r[R]
        /\ \A i \in 1..R : r[i] = IF i - 1 \in Occupied THEN Insert(r[i - 1], slots[i - 1], n) ELSE r[i - 1]
  BY <1>1, LargestRuns
<1> DEFINE E(i) == {slots[j] : j \in {j \in Occupied : j < i}}
           B == {i \in 0..R : ~ TopOf(r[i], E(i), n)}
<1>3. \A j \in Occupied : j \in 0..R - 1 /\ slots[j] \in SiteEntry
  BY <1>1 DEF AllocTypes, TableSlots
<1>4. B = {}
  <2> SUFFICES ASSUME B # {} PROVE FALSE
    OBVIOUS
  <2>0. B \subseteq Nat
    OBVIOUS
  <2>1. PICK i \in B : \A j \in B : i <= j
    <3> HIDE DEF B
    <3> QED
      BY <2>0, Least
  <2>2. i \in 0..R /\ ~ TopOf(r[i], E(i), n)
    OBVIOUS
  <2>3. i # 0
    <3> SUFFICES ASSUME i = 0 PROVE FALSE
      OBVIOUS
    <3>1. E(0) = {}
      BY <1>3
    <3>2. r[0] = << >> /\ << >> \in Seq(SiteEntry) /\ Len(<< >>) = 0 /\ 1..0 = {}
      BY <1>2
    <3>3. TopOf(<< >>, {}, n)
      BY <3>2 DEF TopOf
    <3> QED
      BY <2>2, <3>1, <3>2, <3>3
  <2>4. i \in 1..R /\ i - 1 \in 0..R /\ ~ (i <= i - 1)
    BY <2>2, <2>3
  <2>5. TopOf(r[i - 1], E(i - 1), n)
    BY <2>1, <2>4
  <2>6. \A j \in Occupied : j < i <=> j < i - 1 \/ j = i - 1
    BY <1>3, <2>4
  <2>7. CASE i - 1 \in Occupied
    <3>1. PICK e \in SiteEntry : e = slots[i - 1]
      BY <1>3, <2>7
    <3>2. E(i) = E(i - 1) \cup {e}
      BY <2>6, <2>7, <3>1
    <3>3. E(i - 1) \subseteq SiteEntry
      BY <1>3
    <3>4. \A d \in E(i - 1) : d.site # e.site
      <4> SUFFICES ASSUME NEW j \in Occupied, j < i - 1 PROVE slots[j].site # e.site
        OBVIOUS
      <4>1. j # i - 1
        BY <1>3, <2>4
      <4> QED
        BY <2>7, <3>1, <4>1 DEF EntriesOK
    <3>5. r[i] = Insert(r[i - 1], e, n)
      BY <1>2, <2>4, <2>7, <3>1
    <3>6. n # 0
      BY <2>7
    <3> HIDE DEF E
    <3>7. TopOf(Insert(r[i - 1], e, n), E(i - 1) \cup {e}, n)
      BY <2>5, <3>3, <3>4, <3>6, InsertKeepsTop
    <3> QED
      BY <2>2, <3>2, <3>5, <3>7
  <2>8. CASE i - 1 \notin Occupied
    <3>1. E(i) = E(i - 1)
      BY <2>6, <2>8
    <3>2. r[i] = r[i - 1]
      BY <1>2, <2>4, <2>8
    <3> HIDE DEF E
    <3> QED
      BY <2>2, <2>5, <3>1, <3>2
  <2> QED
    BY <2>7, <2>8
<1>5. E(R) = {slots[i] : i \in Occupied}
  <2>1. \A j \in Occupied : j < R
    BY <1>3
  <2> QED
    BY <2>1
<1>6. R \in 0..R
  OBVIOUS
<1>7. TopOf(r[R], E(R), n)
  BY <1>4, <1>6
<1> QED
  BY <1>2, <1>5, <1>7

LEMMA GetTopKeeps ==
  ASSUME AllocInv, NEW max \in 1..TRACKER_TABLE_SIZE, arena_alloc_tracker_get_top(max)
  PROVE  AllocInv'
<1>1. PICK table, c, n, of :
        /\ table = {slots[i] : i \in Occupied} /\ c = Cardinality(Occupied)
        /\ n = (IF c < max THEN c ELSE max) /\ of = Largest(n)
  OBVIOUS
<1>2. top' = [n |-> max, of |-> of, table |-> table] /\ slots' = slots /\ records' = records
  BY <1>1 DEF arena_alloc_tracker_get_top
<1>3. max \in Nat /\ max # 0
  BY AllocAssumption
<1>4. IsFiniteSet(Occupied) /\ c \in Nat /\ (Occupied # {} => c # 0)
  <2>1. IsFiniteSet(TableSlots)
    BY AllocAssumption, FS_Interval DEF TableSlots
  <2>2. IsFiniteSet(Occupied)
    BY <2>1, FS_Subset DEF AllocInv, AllocTypes
  <2> QED
    BY <1>1, <2>2, FS_CardinalityType, FS_EmptySet
<1>5. n \in Nat /\ (Occupied # {} => n # 0)
  BY <1>1, <1>3, <1>4
<1>6. TopOf(of, table, n)
  BY <1>1, <1>5, LargestIsTop DEF AllocInv
<1>7. PICK m \in Nat : m = Len(of) /\ DOMAIN of = 1..m
  BY <1>6 DEF TopOf
<1>8. PICK shown : shown = {of[i] : i \in 1..m}
  OBVIOUS
<1>9. /\ \A a \in 1..m : of[a] \in table
      /\ \A a, b \in 1..m : a < b => of[a].total >= of[b].total /\ of[a].site # of[b].site
      /\ \A d \in table : \/ \E a \in 1..m : of[a] = d
                          \/ m = n /\ \A a \in 1..m : d.total <= of[a].total
  BY <1>6, <1>7 DEF TopOf
<1>10. shown \subseteq table
  BY <1>8, <1>9
<1>11. IsFiniteSet(shown) /\ Cardinality(shown) = m
  <2>1. IsFiniteSet(1..m) /\ Cardinality(1..m) = m
    BY FS_Interval
  <2>2. of \in Surjection(1..m, shown)
    BY <1>6, <1>7, <1>8 DEF Surjection, TopOf
  <2>3. \A a, b \in 1..m : of[a] = of[b] => a = b
    BY <1>9
  <2>4. of \in Injection(1..m, shown)
    BY <2>2, <2>3 DEF Injection, IsInjective, Surjection
  <2> QED
    BY <2>1, <2>2, <2>4, FS_Surjection
<1>12. m = max \/ shown = table
  <2>1. CASE m # n
    BY <1>8, <1>9, <1>10, <2>1
  <2>2. CASE m = n /\ n # max
    <3>1. m = c
      BY <1>1, <2>2
    <3>2. slots \in Surjection(Occupied, table)
      BY <1>1 DEF Surjection, AllocInv, AllocTypes
    <3>3. IsFiniteSet(table) /\ Cardinality(table) <= c
      BY <1>1, <1>4, <3>2, FS_Surjection
    <3>4. Cardinality(shown) <= Cardinality(table) /\ (Cardinality(table) = Cardinality(shown) => table = shown)
      BY <1>10, <3>3, FS_Subset
    <3>5. Cardinality(table) \in Nat
      BY <3>3, FS_CardinalityType
    <3> QED
      BY <1>4, <1>11, <3>1, <3>3, <3>4, <3>5
  <2> QED
    BY <2>1, <2>2
<1>13. \A e \in table \ shown, s \in shown : e.total <= s.total
  BY <1>8, <1>9
<1>14. ReportsAreTop'
  <2>1. top'.of = of /\ top'.n = max /\ top'.table = table
    BY <1>2
  <2>2. {top'.of[i] : i \in DOMAIN top'.of} = shown
    BY <1>7, <1>8, <2>1
  <2> QED
    BY <1>7, <1>9, <1>10, <1>11, <1>12, <1>13, <2>1, <2>2 DEF ReportsAreTop
<1>15. AllocTypes' /\ EntriesOK' /\ PathsOK' /\ DroppedOK'
  <2>1. slots' = slots /\ records' = records /\ Occupied' = Occupied
    BY <1>2 DEF Occupied
  <2>2. AllocTypes'
    BY <2>1 DEF AllocInv, AllocTypes
  <2>3. EntriesOK'
    BY <2>1 DEF AllocInv, EntriesOK
  <2>4. PathsOK'
    BY <2>1 DEF AllocInv, PathsOK, Probe
  <2>5. DroppedOK'
    BY <2>1 DEF AllocInv, DroppedOK
  <2> QED
    BY <2>2, <2>3, <2>4, <2>5
<1> QED
  BY <1>14, <1>15 DEF AllocInv

LEMMA AllocStarts == AllocInit => AllocInv
<1> SUFFICES ASSUME AllocInit PROVE AllocInv
  OBVIOUS
<1>1. slots = << >> /\ records = Untouched /\ top = [n |-> 0, of |-> << >>, table |-> {}]
  BY DEF AllocInit
<1>2. Occupied = {} /\ slots = [i \in {} |-> i]
  BY <1>1 DEF Occupied
<1>3. \A site \in Sites : records[site].count = 0 /\ records[site].total = 0
  BY <1>1 DEF Untouched
<1>4. records \in [Sites -> [total : Nat, count : Nat]]
  BY <1>1 DEF Untouched
<1>5. AllocTypes
  BY <1>2, <1>3, <1>4 DEF AllocTypes
<1>6. EntriesOK /\ PathsOK /\ DroppedOK
  BY <1>2, <1>3 DEF EntriesOK, PathsOK, DroppedOK
<1>7. ReportsAreTop
  <2>1. top.of = << >> /\ top.n = 0 /\ top.table = {} /\ DOMAIN top.of = {} /\ Len(top.of) = 0
    BY <1>1
  <2>2. {top.of[i] : i \in DOMAIN top.of} = {}
    BY <2>1
  <2> QED
    BY <2>1, <2>2, FS_EmptySet DEF ReportsAreTop
<1> QED
  BY <1>5, <1>6, <1>7 DEF AllocInv

LEMMA AllocSteps == ASSUME AllocInv, [AllocNext]_alloc_vars PROVE AllocInv'
<1>1. ASSUME UNCHANGED alloc_vars PROVE AllocInv'
  <2>1. slots' = slots /\ records' = records /\ top' = top
    BY <1>1 DEF alloc_vars
  <2>6. Occupied' = Occupied
    BY <2>1 DEF Occupied
  <2>2. AllocTypes'
    BY <2>1, <2>6 DEF AllocInv, AllocTypes
  <2>3. EntriesOK'
    BY <2>1, <2>6 DEF AllocInv, EntriesOK
  <2>4. PathsOK'
    BY <2>1, <2>6 DEF AllocInv, PathsOK, Probe
  <2>5. DroppedOK'
    BY <2>1, <2>6 DEF AllocInv, DroppedOK
  <2>7. ReportsAreTop'
    BY <2>1 DEF AllocInv, ReportsAreTop
  <2> QED
    BY <2>2, <2>3, <2>4, <2>5, <2>7 DEF AllocInv
<1> QED
  BY <1>1, RecordKeeps, ResetKeepsTotals, GetTopKeeps DEF AllocNext

LEMMA InvariantSaysTotals == AllocInv => TotalsAreExact
<1> SUFFICES ASSUME AllocInv, NEW site \in Sites, NEW mine, mine = {i \in Occupied : slots[i].site = site}
             PROVE  /\ Cardinality(mine) <= 1
                    /\ \A i \in mine : slots[i].count = records[site].count /\ slots[i].total = records[site].total
                    /\ mine = {} /\ records[site].count # 0 => Cardinality(Occupied) = TRACKER_TABLE_SIZE
  BY DEF TotalsAreExact
<1>1. Cardinality(mine) <= 1
  <2>1. CASE mine = {}
    BY <2>1, FS_EmptySet
  <2>2. CASE mine # {}
    <3>1. PICK i \in mine : TRUE
      BY <2>2
    <3>2. mine = {i}
      BY <3>1 DEF AllocInv, EntriesOK
    <3>3. Cardinality(mine) = 1
      BY <3>2, FS_Singleton
    <3> QED
      BY <3>3
  <2> QED
    BY <2>1, <2>2
<1>2. \A i \in mine : slots[i].count = records[site].count /\ slots[i].total = records[site].total
  BY DEF AllocInv, EntriesOK
<1>3. ASSUME mine = {}, records[site].count # 0 PROVE Cardinality(Occupied) = TRACKER_TABLE_SIZE
  <2>1. Occupied = TableSlots
    BY <1>3 DEF AllocInv, DroppedOK
  <2>2. PICK R \in Nat \ {0} : R = TRACKER_TABLE_SIZE
    BY AllocAssumption
  <2>3. Cardinality(0..R - 1) = R
    <3>1. Cardinality(0..R - 1) = IF 0 > R - 1 THEN 0 ELSE R - 1 - 0 + 1
      BY FS_Interval
    <3> QED
      BY <3>1
  <2> QED
    BY <2>1, <2>2, <2>3 DEF TableSlots
<1> QED
  BY <1>1, <1>2, <1>3

(* TotalsAreExactAlways: for any sites, hash and size of the table, a call *)
(* site has one entry with what it allocated since the reset, and none only*)
(* when the table is full of others (arena_alloc_tracker.c:63-106).        *)
THEOREM TotalsAreExactAlways == AllocSpec => []TotalsAreExact
<1>1. AllocInit => AllocInv
  BY AllocStarts
<1>2. AllocInv /\ [AllocNext]_alloc_vars => AllocInv'
  BY AllocSteps
<1>3. AllocInv => TotalsAreExact
  BY InvariantSaysTotals
<1> QED
  BY <1>1, <1>2, <1>3, PTL DEF AllocSpec

(* ReportsAreTopAlways: and a report has the largest, sorted               *)
(* (arena_alloc_tracker.c:110-173).                                        *)
THEOREM ReportsAreTopAlways == AllocSpec => []ReportsAreTop
<1>1. AllocInit => AllocInv
  BY AllocStarts
<1>2. AllocInv /\ [AllocNext]_alloc_vars => AllocInv'
  BY AllocSteps
<1>3. AllocInv => ReportsAreTop
  BY DEF AllocInv
<1> QED
  BY <1>1, <1>2, <1>3, PTL DEF AllocSpec

-----------------------------------------------------------------------------
(***************************************************************************)
(* Proofs about the watchdog, for any arenas, positions and ring.  An entry*)
(* holds the last samples of the arena it was made for, in its ring; it is *)
(* found by the arena's birth, which no other live arena has; and after the*)
(* walk the entries marked as seen are those of the live arenas.           *)
(***************************************************************************)

WatchEntry ==
  [arena : Addresses, birth : 1..MaxLives, samples : [0..WATCHDOG_RING_SIZE - 1 -> Nat],
   index : 0..WATCHDOG_RING_SIZE - 1, count : 0..WATCHDOG_RING_SIZE, lastAlert : Nat, seen : BOOLEAN]

(* The slot of the ring written d samples ago.                             *)
Back(p, d) == IF p >= d THEN p - d ELSE p + WATCHDOG_RING_SIZE - d

(* The ring holds the last samples of an arena.                            *)
Holds(e, mine) ==
  /\ e.count = IF Len(mine) < WATCHDOG_RING_SIZE THEN Len(mine) ELSE WATCHDOG_RING_SIZE
  /\ \A d \in 1..e.count : e.samples[Back(e.index, d)] = mine[Len(mine) + 1 - d]

(* What a warning says of the samples of an arena.                         *)
Grew(mine) ==
  LET last == SubSeq(mine, Len(mine) - threshold + 1, Len(mine))
  IN  /\ Len(mine) >= threshold
      /\ \A i \in 2..threshold : last[i] > last[i - 1]
      /\ last[threshold] - last[1] >= MinGrowth

WatchdogTypes ==
  /\ lives \in 0..MaxLives /\ arenas \in [Addresses -> 0..lives]
  /\ entries \in Seq(WatchEntry) /\ threshold \in 2..WATCHDOG_RING_SIZE
  /\ seenBy \in [1..MaxLives -> Seq(Nat)] /\ walked \subseteq 1..lives

BirthsOK ==
  /\ \A a, c \in LiveArenas : arenas[a] = arenas[c] => a = c
  /\ \A b \in lives + 1..MaxLives : seenBy[b] = << >>
  /\ \A a \in LiveArenas : arenas[a] \notin walked => seenBy[arenas[a]] = << >>

WatchedOK ==
  /\ \A b \in walked : \E i \in 1..Len(entries) : entries[i].birth = b
  /\ \A i, j \in 1..Len(entries) : entries[i].birth = entries[j].birth => i = j
  /\ \A i \in 1..Len(entries) :
       /\ entries[i].birth \in walked /\ ~ entries[i].seen /\ Holds(entries[i], seenBy[entries[i].birth])
       /\ \A a \in LiveArenas : entries[i].birth = arenas[a] => entries[i].arena = a

WatchdogInv == WatchdogTypes /\ BirthsOK /\ WatchedOK /\ GrowthIsReal

LEMMA EntryFields ==
  ASSUME NEW e \in WatchEntry
  PROVE  /\ e.arena \in Addresses /\ e.birth \in 1..MaxLives
         /\ e.samples \in [0..WATCHDOG_RING_SIZE - 1 -> Nat] /\ e.index \in 0..WATCHDOG_RING_SIZE - 1
         /\ e.count \in 0..WATCHDOG_RING_SIZE /\ e.lastAlert \in Nat /\ e.seen \in BOOLEAN
BY DEF WatchEntry

LEMMA SampledFields ==
  ASSUME NEW e \in WatchEntry, NEW position \in Nat
  PROVE  /\ Sampled(e, position) \in WatchEntry
         /\ Sampled(e, position).arena = e.arena /\ Sampled(e, position).birth = e.birth
         /\ Sampled(e, position).seen = TRUE
         /\ Sampled(e, position).samples = [e.samples EXCEPT ![e.index] = position]
         /\ Sampled(e, position).index = IF e.index + 1 < WATCHDOG_RING_SIZE THEN e.index + 1 ELSE 0
         /\ Sampled(e, position).count = IF e.count < WATCHDOG_RING_SIZE THEN e.count + 1 ELSE e.count
<1>0. PICK d : d = Sampled(e, position)
  OBVIOUS
<1>1. PICK R \in Nat : R = WATCHDOG_RING_SIZE /\ R >= 3
  BY WatchdogAssumption
<1>2. /\ e.arena \in Addresses /\ e.birth \in 1..MaxLives /\ e.samples \in [0..R - 1 -> Nat]
      /\ e.index \in 0..R - 1 /\ e.count \in 0..R /\ e.lastAlert \in Nat
  BY <1>1, EntryFields
<1>3. PICK s, i, c : /\ s = [e.samples EXCEPT ![e.index] = position]
                     /\ i = (e.index + 1) % R /\ c = IF e.count < R THEN e.count + 1 ELSE e.count
  OBVIOUS
<1>4. s \in [0..R - 1 -> Nat] /\ c \in 0..R
  BY <1>2, <1>3
<1>5. i = (IF e.index + 1 < R THEN e.index + 1 ELSE 0) /\ i \in 0..R - 1
  <2>1. PICK a \in Nat : a = e.index + 1 /\ a < 2 * R
    BY <1>2
  <2>2. a % R = IF a < R THEN a ELSE a - R
    BY <1>1, <2>1, ModuloOnce
  <2> QED
    BY <1>2, <1>3, <2>1, <2>2
<1>6. d = [e EXCEPT !.samples = s, !.index = i, !.count = c, !.seen = TRUE]
  BY <1>0, <1>1, <1>3 DEF Sampled
<1>7. /\ d.arena = e.arena /\ d.birth = e.birth /\ d.seen = TRUE /\ d.samples = s
      /\ d.index = i /\ d.count = c /\ d.lastAlert = e.lastAlert
  BY <1>6 DEF WatchEntry
<1>8. d \in WatchEntry
  BY <1>1, <1>4, <1>5, <1>6 DEF WatchEntry
<1> QED
  BY <1>0, <1>1, <1>3, <1>5, <1>7, <1>8

After(p) == IF p + 1 < WATCHDOG_RING_SIZE THEN p + 1 ELSE 0

LEMMA RingBack ==
  ASSUME NEW p \in 0..WATCHDOG_RING_SIZE - 1, NEW k \in 1..WATCHDOG_RING_SIZE
  PROVE  /\ After(p) \in 0..WATCHDOG_RING_SIZE - 1 /\ Back(After(p), 1) = p
         /\ k # 1 => /\ Back(After(p), k) = Back(p, k - 1)
                     /\ Back(After(p), k) # p /\ Back(After(p), k) \in 0..WATCHDOG_RING_SIZE - 1
<1>0. PICK q : q = After(p)
  OBVIOUS
<1>1. PICK R \in Nat : R = WATCHDOG_RING_SIZE /\ R >= 3
  BY WatchdogAssumption
<1>2. \A x, y \in Nat : Back(x, y) = IF x >= y THEN x - y ELSE x + R - y
  BY <1>1 DEF Back
<1>3. q \in 0..R - 1 /\ k \in 1..R /\ p \in 0..R - 1 /\ q = IF p + 1 < R THEN p + 1 ELSE 0
  BY <1>0, <1>1 DEF After
<1>4. Back(q, 1) = p
  BY <1>1, <1>2, <1>3
<1>5. ASSUME k # 1 PROVE Back(q, k) = Back(p, k - 1) /\ Back(q, k) # p /\ Back(q, k) \in 0..R - 1
  <2>1. k \in Nat /\ k - 1 \in Nat /\ p \in Nat /\ q \in Nat
    BY <1>3
  <2>2. Back(q, k) = (IF q >= k THEN q - k ELSE q + R - k)
    BY <1>2, <2>1
  <2>3. Back(p, k - 1) = (IF p >= k - 1 THEN p - (k - 1) ELSE p + R - (k - 1))
    BY <1>2, <2>1
  <2> QED
    BY <1>1, <1>3, <1>5, <2>2, <2>3
<1> QED
  BY <1>0, <1>1, <1>3, <1>4, <1>5

(* Taking a sample moves every older one a slot back.                      *)
LEMMA SampleHolds ==
  ASSUME NEW e \in WatchEntry, NEW mine \in Seq(Nat), Holds(e, mine), NEW position \in Nat
  PROVE  Holds(Sampled(e, position), Append(mine, position))
<1>0. PICK d : d = Sampled(e, position)
  OBVIOUS
<1>1. PICK R \in Nat : R = WATCHDOG_RING_SIZE /\ R >= 3
  BY WatchdogAssumption
<1>9. PICK n \in Nat : n = Len(mine)
  OBVIOUS
<1>10. PICK p \in 0..R - 1, c \in 0..R, s \in [0..R - 1 -> Nat] : p = e.index /\ c = e.count /\ s = e.samples
  BY <1>1, EntryFields
<1>11. PICK q : q = IF p + 1 < R THEN p + 1 ELSE 0
  OBVIOUS
<1>2. p = e.index /\ q = (IF p + 1 < R THEN p + 1 ELSE 0) /\ c = e.count /\ n = Len(mine) /\ s = e.samples
  BY <1>9, <1>10, <1>11
<1>3. /\ d.samples = [s EXCEPT ![p] = position] /\ d.index = q
      /\ d.count = IF c < R THEN c + 1 ELSE c
  <2>1. /\ d.samples = [e.samples EXCEPT ![e.index] = position]
        /\ d.index = IF e.index + 1 < WATCHDOG_RING_SIZE THEN e.index + 1 ELSE 0
        /\ d.count = IF e.count < WATCHDOG_RING_SIZE THEN e.count + 1 ELSE e.count
    BY <1>0, SampledFields
  <2> QED
    BY <1>1, <1>2, <2>1
<1>4. /\ c = (IF n < R THEN n ELSE R)
      /\ \A k \in 1..c : s[Back(p, k)] = mine[n + 1 - k]
  BY <1>1, <1>2 DEF Holds
<1>5. PICK new \in Seq(Nat) : new = Append(mine, position)
  OBVIOUS
<1>6. Len(new) = n + 1 /\ new[n + 1] = position /\ \A i \in 1..n : new[i] = mine[i]
  BY <1>2, <1>5
<1>7. d.count = IF n + 1 < R THEN n + 1 ELSE R
  BY <1>3, <1>4
<1>8. ASSUME NEW k \in 1..d.count PROVE d.samples[Back(q, k)] = new[Len(new) + 1 - k]
  <2>1. k \in 1..R /\ k - 1 <= c /\ k <= n + 1
    BY <1>3, <1>4, <1>7
  <2>2. CASE k = 1
    <3>1. Back(q, 1) = p
      <4>1. p \in 0..WATCHDOG_RING_SIZE - 1 /\ k \in 1..WATCHDOG_RING_SIZE
        BY <1>1, <2>1
      <4>2. q = After(p)
        BY <1>1, <1>2 DEF After
      <4> QED
        BY <4>1, <4>2, RingBack
    <3>2. Len(new) + 1 - k = n + 1
      BY <1>6, <2>2
    <3> QED
      BY <1>3, <1>6, <2>2, <3>1, <3>2
  <2>3. CASE k # 1
    <3>1. k - 1 \in 1..c /\ k - 1 < R
      BY <2>1, <2>3
    <3>2. Back(q, k) = Back(p, k - 1) /\ Back(q, k) # p /\ Back(q, k) \in 0..R - 1
      <4>1. p \in 0..WATCHDOG_RING_SIZE - 1 /\ k \in 1..WATCHDOG_RING_SIZE
        BY <1>1, <2>1
      <4>2. q = After(p)
        BY <1>1, <1>2 DEF After
      <4> QED
        BY <1>1, <2>3, <4>1, <4>2, RingBack
    <3>3. d.samples[Back(q, k)] = s[Back(p, k - 1)]
      BY <1>3, <3>2
    <3>4. s[Back(p, k - 1)] = mine[n + 1 - (k - 1)]
      BY <1>4, <3>1
    <3>5. n + 1 - (k - 1) = (n + 1) + 1 - k /\ n + 1 - (k - 1) \in 1..n
      BY <1>4, <2>1, <2>3, <3>1
    <3> QED
      BY <1>6, <3>3, <3>4, <3>5
  <2> QED
    BY <2>2, <2>3
<1> QED
  BY <1>0, <1>1, <1>3, <1>5, <1>6, <1>7, <1>8 DEF Holds

(* A warning reads the samples of the arena.                               *)
LEMMA WarningIsReal ==
  ASSUME threshold \in 2..WATCHDOG_RING_SIZE, NEW e \in WatchEntry, NEW mine \in Seq(Nat), Holds(e, mine),
         check_monotonic_growth(e)
  PROVE  Grew(mine)
<1>1. PICK R \in Nat : R = WATCHDOG_RING_SIZE /\ R >= 3
  BY WatchdogAssumption
<1>10. PICK n \in Nat : n = Len(mine)
  OBVIOUS
<1>11. PICK p \in 0..R - 1, c \in 0..R, s \in [0..R - 1 -> Nat] : p = e.index /\ c = e.count /\ s = e.samples
  BY <1>1, EntryFields
<1>12. PICK t \in 2..R : t = threshold
  BY <1>1
<1>2. p = e.index /\ c = e.count /\ n = Len(mine) /\ s = e.samples /\ t = threshold
  BY <1>10, <1>11, <1>12
<1>3. /\ c = (IF n < R THEN n ELSE R) /\ c >= t /\ n >= t
      /\ \A k \in 1..c : s[Back(p, k)] = mine[n + 1 - k]
  BY <1>1, <1>2 DEF Holds, check_monotonic_growth
<1>4. ASSUME NEW i \in 1..t PROVE Samples(e)[i] = mine[n - t + i]
  <2>1. PICK a \in Nat : a = p + R - t + i - 1 /\ a < 2 * R
    BY <1>4
  <2>2. a % R = IF a < R THEN a ELSE a - R
    <3>1. R \in Nat \ {0} /\ a \in Nat /\ a < 2 * R
      BY <1>1, <2>1
    <3> QED
      BY <3>1, ModuloOnce
  <2>3. Back(p, t + 1 - i) = a % R
    BY <1>1, <2>1, <2>2 DEF Back
  <2>4. Samples(e)[i] = s[a % R]
    BY <1>1, <1>2, <2>1 DEF Samples
  <2>5. t + 1 - i \in 1..c /\ n + 1 - (t + 1 - i) = n - t + i
    BY <1>3
  <2> QED
    BY <1>3, <2>3, <2>4, <2>5
<1>5. PICK last : last = SubSeq(mine, Len(mine) - threshold + 1, Len(mine))
  OBVIOUS
<1>6. ASSUME NEW i \in 1..t PROVE last[i] = mine[n - t + i]
  <2>1. n - t + 1 \in 1..n /\ n \in 1..n
    BY <1>3
  <2>2. PICK f \in 1..n : f = n - t + 1
    BY <2>1
  <2>3. last = SubSeq(mine, f, n)
    BY <1>2, <1>5, <2>2
  <2>4. \A j \in f..n : mine[j] \in Nat
    <3>1. \A j \in f..n : j \in 1..n
      OBVIOUS
    <3> QED
      BY <1>2, <3>1
  <2>5. \A j \in 1..n - f + 1 : SubSeq(mine, f, n)[j] = mine[f + j - 1]
    BY <2>4, SubSeqProperties
  <2>6. i \in 1..n - f + 1 /\ f + i - 1 = n - t + i
    BY <2>2
  <2> QED
    BY <2>3, <2>5, <2>6
<1>7. \A i \in 1..t : last[i] = Samples(e)[i]
  BY <1>4, <1>6
<1>8. \A i \in 2..t : last[i] > last[i - 1]
  <2> SUFFICES ASSUME NEW i \in 2..t PROVE last[i] > last[i - 1]
    OBVIOUS
  <2>1. i \in 1..t /\ i - 1 \in 1..t
    OBVIOUS
  <2> QED
    BY <1>2, <1>7, <2>1 DEF check_monotonic_growth
<1>9. last[t] - last[1] >= MinGrowth
  <2>1. t \in 1..t /\ 1 \in 1..t
    OBVIOUS
  <2> QED
    BY <1>2, <1>7, <2>1 DEF check_monotonic_growth
<1> QED
  BY <1>2, <1>3, <1>5, <1>8, <1>9 DEF Grew

-----------------------------------------------------------------------------
(* The callback finds or makes the entry of the arena and samples it.      *)

WatchWork == [entries : Seq(WatchEntry), alerts : SUBSET (1..MaxLives)]

(* The entry the callback works on, and what it leaves there.              *)
FoundOrMade(w, a, list, at) ==
  /\ list \in Seq(WatchEntry) /\ at \in 1..Len(list)
  /\ \/ /\ \A i \in 1..Len(w.entries) : ~ (w.entries[i].arena = a /\ w.entries[i].birth = arenas[a])
        /\ list = Append(w.entries, NewEntry(a)) /\ at = Len(w.entries) + 1
     \/ list = w.entries /\ list[at].arena = a /\ list[at].birth = arenas[a]

CalledBack(w, new, a, position, list, at, e) ==
  /\ e \in WatchEntry /\ e.arena = list[at].arena /\ e.birth = list[at].birth /\ e.seen = TRUE
  /\ \A mine : Holds(Sampled(list[at], position), mine) => Holds(e, mine)
  /\ new \in WatchWork /\ new.entries = [list EXCEPT ![at] = e]
  /\ \/ new.alerts = w.alerts
     \/ new.alerts = w.alerts \cup {arenas[a]} /\ check_monotonic_growth(Sampled(list[at], position))

LEMMA LiveBirth ==
  ASSUME WatchdogTypes, NEW a \in LiveArenas
  PROVE  a \in Addresses /\ arenas[a] \in 1..lives /\ arenas[a] \in 1..MaxLives
BY WatchdogAssumption DEF WatchdogTypes, LiveArenas

LEMMA NewEntryFields ==
  ASSUME WatchdogTypes, NEW a \in LiveArenas
  PROVE  /\ NewEntry(a) \in WatchEntry /\ NewEntry(a).arena = a /\ NewEntry(a).birth = arenas[a]
         /\ ~ NewEntry(a).seen /\ Holds(NewEntry(a), << >>)
<1>1. PICK R \in Nat : R = WATCHDOG_RING_SIZE /\ R >= 3
  BY WatchdogAssumption
<1>2. PICK s \in [0..R - 1 -> Nat], b \in 1..MaxLives : s = [i \in 0..R - 1 |-> 0] /\ b = arenas[a]
  BY LiveBirth
<1>3. NewEntry(a) = [arena |-> a, birth |-> b, samples |-> s, index |-> 0, count |-> 0, lastAlert |-> 0, seen |-> FALSE]
  BY <1>1, <1>2 DEF NewEntry
<1>4. a \in Addresses /\ 0 \in 0..R - 1 /\ 0 \in 0..R
  BY <1>1, LiveBirth
<1>5. NewEntry(a) \in WatchEntry
  BY <1>1, <1>3, <1>4 DEF WatchEntry
<1>6. NewEntry(a).count = 0 /\ Len(<< >>) = 0 /\ 0 < R /\ 1..0 = {}
  BY <1>1, <1>3
<1>7. Holds(NewEntry(a), << >>)
  BY <1>1, <1>6 DEF Holds
<1> QED
  BY <1>2, <1>3, <1>5, <1>7

LEMMA FindsOrMakes ==
  ASSUME WatchdogTypes, NEW w \in WatchWork, NEW a \in LiveArenas, NEW position \in Nat
  PROVE  \E list, at :
           /\ FoundOrMade(w, a, list, at)
           /\ \A e, warns :
                /\ e = Sampled(list[at], position) /\ warns = (check_monotonic_growth(e) /\ position # e.lastAlert)
                => sample_arena_callback(w, a, position)
                     = [entries |-> [list EXCEPT ![at] = IF warns THEN [e EXCEPT !.lastAlert = position] ELSE e],
                        alerts |-> IF warns THEN w.alerts \cup {arenas[a]} ELSE w.alerts]
<1> DEFINE found == find_entry(w.entries, a, arenas[a])
           list == IF found = {} THEN Append(w.entries, NewEntry(a)) ELSE w.entries
           at == IF found = {} THEN Len(list) ELSE CHOOSE i \in found : \A j \in found : i <= j
<1>1. w.entries \in Seq(WatchEntry)
  BY DEF WatchWork
<1>2. PICK n \in Nat : n = Len(w.entries) /\ DOMAIN w.entries = 1..n
  BY <1>1
<1>3. found = {i \in 1..n : w.entries[i].arena = a /\ w.entries[i].birth = arenas[a]}
  BY <1>2 DEF find_entry
<1>4. ASSUME NEW e, NEW warns, e = Sampled(list[at], position),
             warns = (check_monotonic_growth(e) /\ position # e.lastAlert)
      PROVE  sample_arena_callback(w, a, position)
               = [entries |-> [list EXCEPT ![at] = IF warns THEN [e EXCEPT !.lastAlert = position] ELSE e],
                  alerts |-> IF warns THEN w.alerts \cup {arenas[a]} ELSE w.alerts]
  <2>1. sample_arena_callback(w, a, position)
          = LET d == Sampled(list[at], position)
                warning == check_monotonic_growth(d) /\ position # d.lastAlert
            IN  [entries |-> [list EXCEPT ![at] = IF warning THEN [d EXCEPT !.lastAlert = position] ELSE d],
                 alerts |-> IF warning THEN w.alerts \cup {arenas[a]} ELSE w.alerts]
    BY DEF sample_arena_callback
  <2> HIDE DEF list, at
  <2> QED
    BY <1>4, <2>1
<1>5. FoundOrMade(w, a, list, at)
  <2> HIDE DEF found
  <2>1. CASE found = {}
    <3>1. list = Append(w.entries, NewEntry(a)) /\ at = Len(list)
      BY <2>1
    <3> HIDE DEF list, at
    <3>2. list \in Seq(WatchEntry) /\ Len(list) = n + 1
      BY <1>1, <1>2, <3>1, NewEntryFields
    <3>3. \A i \in 1..Len(w.entries) : ~ (w.entries[i].arena = a /\ w.entries[i].birth = arenas[a])
      BY <1>2, <1>3, <2>1
    <3> QED
      BY <1>2, <3>1, <3>2, <3>3 DEF FoundOrMade
  <2>2. CASE found # {}
    <3>1. found \subseteq Nat
      BY <1>2, <1>3
    <3>2. PICK least : least = CHOOSE i \in found : \A j \in found : i <= j
      OBVIOUS
    <3>3. least \in found
      BY <2>2, <3>1, <3>2, Least
    <3>4. list = w.entries /\ at = least
      BY <2>2, <3>2
    <3> HIDE DEF list, at
    <3> QED
      BY <1>1, <1>2, <1>3, <3>3, <3>4 DEF FoundOrMade
  <2> QED
    BY <2>1, <2>2
<1> HIDE DEF list, at
<1> QED
  BY <1>4, <1>5

LEMMA CallbackIs ==
  ASSUME WatchdogTypes, NEW w \in WatchWork, NEW a \in LiveArenas, NEW position \in Nat
  PROVE  \E list, at, e : /\ FoundOrMade(w, a, list, at)
                          /\ CalledBack(w, sample_arena_callback(w, a, position), a, position, list, at, e)
<1>1. PICK list, at :
        /\ FoundOrMade(w, a, list, at)
        /\ \A e, warns :
             /\ e = Sampled(list[at], position) /\ warns = (check_monotonic_growth(e) /\ position # e.lastAlert)
             => sample_arena_callback(w, a, position)
                  = [entries |-> [list EXCEPT ![at] = IF warns THEN [e EXCEPT !.lastAlert = position] ELSE e],
                     alerts |-> IF warns THEN w.alerts \cup {arenas[a]} ELSE w.alerts]
  BY FindsOrMakes
<1>2. PICK d \in WatchEntry : d = list[at]
  BY <1>1 DEF FoundOrMade
<1>3. PICK s \in WatchEntry : s = Sampled(d, position)
  BY SampledFields
<1>4. s.arena = d.arena /\ s.birth = d.birth /\ s.seen = TRUE
  BY <1>3, SampledFields
<1>5. PICK warns : warns = (check_monotonic_growth(s) /\ position # s.lastAlert)
  OBVIOUS
<1>6. PICK e : e = IF warns THEN [s EXCEPT !.lastAlert = position] ELSE s
  OBVIOUS
<1>7. PICK new : new = sample_arena_callback(w, a, position)
  OBVIOUS
<1>8. new = [entries |-> [list EXCEPT ![at] = e], alerts |-> IF warns THEN w.alerts \cup {arenas[a]} ELSE w.alerts]
  BY <1>1, <1>2, <1>3, <1>5, <1>6, <1>7
<1>9. /\ e \in WatchEntry /\ e.arena = s.arena /\ e.birth = s.birth /\ e.seen = s.seen
      /\ e.samples = s.samples /\ e.index = s.index /\ e.count = s.count
  <2>1. CASE warns
    BY <1>6, <2>1 DEF WatchEntry
  <2>2. CASE ~ warns
    BY <1>6, <2>2
  <2> QED
    BY <2>1, <2>2
<1>10. \A mine : Holds(s, mine) => Holds(e, mine)
  BY <1>9 DEF Holds
<1>11. PICK changed : changed = [list EXCEPT ![at] = e]
  OBVIOUS
<1>12. changed \in Seq(WatchEntry)
  BY <1>1, <1>9, <1>11 DEF FoundOrMade
<1>13. w.alerts \in SUBSET (1..MaxLives) /\ w.alerts \cup {arenas[a]} \in SUBSET (1..MaxLives)
  BY LiveBirth DEF WatchWork
<1>14. new \in WatchWork /\ new.entries = changed
  <2>1. CASE warns
    BY <1>8, <1>11, <1>12, <1>13, <2>1 DEF WatchWork
  <2>2. CASE ~ warns
    BY <1>8, <1>11, <1>12, <1>13, <2>2 DEF WatchWork
  <2> QED
    BY <2>1, <2>2
<1>15. \/ new.alerts = w.alerts
       \/ new.alerts = w.alerts \cup {arenas[a]} /\ check_monotonic_growth(s)
  BY <1>5, <1>8
<1>16. CalledBack(w, new, a, position, list, at, e)
  BY <1>2, <1>3, <1>4, <1>9, <1>10, <1>11, <1>14, <1>15 DEF CalledBack
<1> QED
  BY <1>1, <1>7, <1>16

(* After k arenas of the walk: an entry is that of an arena walked before, *)
(* untouched, or of one of the k, with its new sample.                     *)
Status(e, k, order, pos) ==
  /\ \A a \in LiveArenas : e.birth = arenas[a] => e.arena = a
  /\ \/ /\ ~ e.seen /\ e.birth \in walked /\ Holds(e, seenBy[e.birth])
        /\ \A j \in 1..k : e.birth # arenas[order[j]]
     \/ /\ e.seen
        /\ \E j \in 1..k : e.birth = arenas[order[j]] /\ Holds(e, Append(seenBy[e.birth], pos[order[j]]))

Underway(w, k, order, pos) ==
  /\ w \in WatchWork
  /\ \A i, j \in 1..Len(w.entries) : w.entries[i].birth = w.entries[j].birth => i = j
  /\ \A i \in 1..Len(w.entries) : Status(w.entries[i], k, order, pos)
  /\ \A b \in walked : \E i \in 1..Len(w.entries) : w.entries[i].birth = b
  /\ \A j \in 1..k : \E i \in 1..Len(w.entries) : w.entries[i].birth = arenas[order[j]]
  /\ \A b \in w.alerts : \E j \in 1..k : b = arenas[order[j]] /\ Grew(Append(seenBy[b], pos[order[j]]))

(* Every live arena once.                                                  *)
Walks(order, n) ==
  /\ order \in [1..n -> LiveArenas]
  /\ \A a \in LiveArenas : \E i \in 1..n : order[i] = a
  /\ \A i, j \in 1..n : arenas[order[i]] = arenas[order[j]] => i = j

LEMMA OrdersWalk ==
  ASSUME WatchdogTypes, NEW order \in Orders
  PROVE  \E n \in Nat : Len(order) = n /\ Walks(order, n)
<1>1. IsFiniteSet(LiveArenas)
  BY WatchdogAssumption, FS_Subset DEF LiveArenas
<1>2. PICK n \in Nat : n = Cardinality(LiveArenas)
  BY <1>1, FS_CardinalityType
<1>3. /\ order \in [1..n -> LiveArenas] /\ \A a \in LiveArenas : \E i \in DOMAIN order : order[i] = a
      /\ \A i, j \in DOMAIN order : i < j => arenas[order[i]] < arenas[order[j]]
  BY <1>2 DEF Orders
<1>4. ASSUME NEW i \in 1..n, NEW j \in 1..n, arenas[order[i]] = arenas[order[j]] PROVE i = j
  <2>1. arenas[order[i]] \in 1..lives /\ arenas[order[j]] \in 1..lives /\ lives \in Nat
    BY <1>3, LiveBirth, WatchdogAssumption DEF WatchdogTypes
  <2>2. ~ (i < j) /\ ~ (j < i)
    BY <1>3, <1>4, <2>1
  <2> QED
    BY <2>2
<1>5. Len(order) = n
  BY <1>3
<1> QED
  BY <1>3, <1>4, <1>5 DEF Walks

LEMMA CallbackKeeps ==
  ASSUME WatchdogTypes, BirthsOK, NEW n \in Nat, NEW order, Walks(order, n),
         NEW pos \in [LiveArenas -> Nat], NEW k \in 1..n, NEW w, Underway(w, k - 1, order, pos)
  PROVE  Underway(sample_arena_callback(w, order[k], pos[order[k]]), k, order, pos)
<1>1. PICK a \in LiveArenas, position \in Nat, b \in 1..lives :
        a = order[k] /\ position = pos[a] /\ b = arenas[a]
  BY LiveBirth DEF Walks
<1>2. w \in WatchWork /\ k - 1 \in Nat /\ 1..k = (1..k - 1) \cup {k}
  BY DEF Underway
<1>3. PICK new : new = sample_arena_callback(w, a, position)
  OBVIOUS
<1>4. PICK list, at, e : FoundOrMade(w, a, list, at) /\ CalledBack(w, new, a, position, list, at, e)
  BY <1>2, <1>3, CallbackIs
<1>5. \A j \in 1..k - 1 : arenas[order[j]] # b
  BY <1>1 DEF Walks
<1>6. PICK m \in Nat : m = Len(w.entries)
  BY <1>2 DEF WatchWork
<1>7. w.entries \in Seq(WatchEntry) /\ \A i \in 1..m : w.entries[i] \in WatchEntry
  BY <1>2, <1>6 DEF WatchWork
<1>8. PICK l \in Nat : l = Len(list) /\ DOMAIN list = 1..l /\ at \in 1..l
  BY <1>4 DEF FoundOrMade
<1>9. /\ list[at] \in WatchEntry /\ list[at].arena = a /\ list[at].birth = b /\ Holds(list[at], seenBy[b])
      /\ \A i \in 1..l : i # at => i \in 1..m /\ list[i] = w.entries[i] /\ w.entries[i].birth # b
      /\ \A i \in 1..m : i \in 1..l /\ list[i] = w.entries[i]
  <2>1. CASE /\ \A i \in 1..m : ~ (w.entries[i].arena = a /\ w.entries[i].birth = b)
             /\ list = Append(w.entries, NewEntry(a)) /\ at = m + 1
    <3>1. l = m + 1 /\ list[at] = NewEntry(a) /\ \A i \in 1..m : i \in 1..l /\ list[i] = w.entries[i]
      BY <1>6, <1>7, <1>8, <2>1
    <3>2. \A i \in 1..m : w.entries[i].birth # b
      BY <1>1, <1>6, <2>1 DEF Underway, Status
    <3>3. b \notin walked
      BY <1>2, <1>6, <3>2 DEF Underway
    <3>4. seenBy[b] = << >>
      BY <1>1, <3>3 DEF BirthsOK
    <3>5. \A i \in 1..l : i # at => i \in 1..m
      BY <2>1, <3>1
    <3> QED
      BY <1>1, <3>1, <3>2, <3>4, <3>5, NewEntryFields
  <2>2. CASE list = w.entries /\ list[at].arena = a /\ list[at].birth = b
    <3>1. l = m
      BY <1>6, <1>8, <2>2
    <3>2. Status(list[at], k - 1, order, pos)
      BY <1>6, <1>8, <2>2, <3>1 DEF Underway
    <3>3. Holds(list[at], seenBy[b])
      BY <1>5, <2>2, <3>2 DEF Status
    <3>4. \A i \in 1..l : i # at => w.entries[i].birth # b
      BY <1>6, <1>8, <2>2, <3>1 DEF Underway
    <3> QED
      BY <1>7, <1>8, <2>2, <3>1, <3>3, <3>4
  <2> QED
    BY <1>1, <1>4, <1>6, <2>1, <2>2 DEF FoundOrMade
<1>10. PICK mine \in Seq(Nat) : mine = Append(seenBy[b], position)
  <2>1. b \in 1..MaxLives
    BY <1>1, LiveBirth
  <2>2. PICK old \in Seq(Nat) : old = seenBy[b]
    BY <2>1 DEF WatchdogTypes
  <2>3. Append(old, position) \in Seq(Nat)
    OBVIOUS
  <2> QED
    BY <2>2, <2>3
<1>11. PICK s \in WatchEntry : s = Sampled(list[at], position) /\ Holds(s, mine)
  <2>1. PICK d \in WatchEntry : d = list[at]
    BY <1>9
  <2>2. seenBy[b] \in Seq(Nat)
    <3>1. b \in 1..MaxLives
      BY <1>1, LiveBirth
    <3> QED
      BY <3>1 DEF WatchdogTypes
  <2>3. Sampled(d, position) \in WatchEntry
    BY SampledFields
  <2>4. Holds(d, seenBy[b])
    BY <1>9, <2>1
  <2>5. Holds(Sampled(d, position), mine)
    BY <1>10, <2>2, <2>4, SampleHolds
  <2> QED
    BY <2>1, <2>3, <2>5
<1>12. e \in WatchEntry /\ e.arena = a /\ e.birth = b /\ e.seen /\ Holds(e, mine)
  BY <1>4, <1>9, <1>11 DEF CalledBack
<1>13. /\ new \in WatchWork /\ Len(new.entries) = l /\ new.entries[at] = e
       /\ \A i \in 1..l : i # at => new.entries[i] = list[i]
  <2>1. list \in Seq(WatchEntry)
    BY <1>4 DEF FoundOrMade
  <2> QED
    BY <1>4, <1>8, <2>1 DEF CalledBack
<1>14. \A i, j \in 1..l : new.entries[i].birth = new.entries[j].birth => i = j
  <2>1. \A i \in 1..l : i # at => new.entries[i] = w.entries[i] /\ i \in 1..m /\ new.entries[i].birth # b
    BY <1>9, <1>13
  <2>2. new.entries[at].birth = b
    BY <1>12, <1>13
  <2>3. \A i, j \in 1..m : w.entries[i].birth = w.entries[j].birth => i = j
    BY <1>6 DEF Underway
  <2> QED
    BY <2>1, <2>2, <2>3
<1>15. ASSUME NEW i \in 1..l PROVE Status(new.entries[i], k, order, pos)
  <2>1. CASE i = at
    <3>1. \A c \in LiveArenas : e.birth = arenas[c] => e.arena = c
      BY <1>1, <1>12 DEF BirthsOK
    <3>2. k \in 1..k /\ e.birth = arenas[order[k]] /\ Holds(e, Append(seenBy[e.birth], pos[order[k]]))
      BY <1>1, <1>10, <1>12
    <3>3. Status(e, k, order, pos)
      BY <1>12, <3>1, <3>2 DEF Status
    <3> QED
      BY <1>13, <2>1, <3>3
  <2>2. CASE i # at
    <3>1. PICK d : d = w.entries[i] /\ new.entries[i] = d /\ d.birth # b /\ i \in 1..m
      BY <1>9, <1>13, <2>2
    <3>2. Status(d, k - 1, order, pos)
      BY <1>6, <3>1 DEF Underway
    <3>3. Status(d, k, order, pos)
      BY <1>1, <1>2, <3>1, <3>2 DEF Status
    <3> QED
      BY <3>1, <3>3
  <2> QED
    BY <2>1, <2>2
<1>16. \A i \in 1..m : i \in 1..l /\ new.entries[i].birth = w.entries[i].birth
  <2>1. \A i \in 1..m : i = at => new.entries[i].birth = w.entries[i].birth
    BY <1>9, <1>12, <1>13
  <2> QED
    BY <1>9, <1>13, <2>1
<1>17. \A c \in walked : \E i \in 1..l : new.entries[i].birth = c
  BY <1>6, <1>16 DEF Underway
<1>18. \A j \in 1..k : \E i \in 1..l : new.entries[i].birth = arenas[order[j]]
  <2>1. \A j \in 1..k - 1 : \E i \in 1..l : new.entries[i].birth = arenas[order[j]]
    BY <1>6, <1>16 DEF Underway
  <2>2. new.entries[at].birth = arenas[order[k]]
    BY <1>1, <1>12, <1>13
  <2> QED
    BY <1>2, <1>8, <2>1, <2>2
<1>19. \A c \in new.alerts : \E j \in 1..k : c = arenas[order[j]] /\ Grew(Append(seenBy[c], pos[order[j]]))
  <2>1. \A c \in w.alerts : \E j \in 1..k : c = arenas[order[j]] /\ Grew(Append(seenBy[c], pos[order[j]]))
    BY <1>2 DEF Underway
  <2>2. new.alerts = w.alerts \/ (new.alerts = w.alerts \cup {b} /\ check_monotonic_growth(s))
    <3>1. \/ new.alerts = w.alerts
          \/ new.alerts = w.alerts \cup {arenas[a]} /\ check_monotonic_growth(Sampled(list[at], position))
      BY <1>4 DEF CalledBack
    <3>2. check_monotonic_growth(Sampled(list[at], position)) => check_monotonic_growth(s)
      BY <1>11
    <3> QED
      BY <1>1, <3>1, <3>2
  <2>3. ASSUME check_monotonic_growth(s) PROVE Grew(Append(seenBy[b], pos[order[k]]))
    <3>1. Grew(mine)
      BY <1>11, <2>3, WarningIsReal DEF WatchdogTypes
    <3> QED
      BY <1>1, <1>10, <3>1
  <2> QED
    BY <1>1, <1>2, <2>1, <2>2, <2>3
<1>20. Underway(new, k, order, pos)
  BY <1>13, <1>14, <1>15, <1>17, <1>18, <1>19 DEF Underway
<1> QED
  BY <1>1, <1>3, <1>20

(* The callback runs for every arena of the order.                         *)
IteratesBy(r, order, pos, n) ==
  /\ r \in [0..n -> WatchWork]
  /\ r[0] = [entries |-> entries, alerts |-> {}] /\ Iterated(order, pos) = r[n]
  /\ \A i \in 1..n : r[i] = sample_arena_callback(r[i - 1], order[i], pos[order[i]])

LEMMA IteratedRuns ==
  ASSUME WatchdogTypes, NEW n \in Nat, NEW order, Walks(order, n), Len(order) = n, NEW pos \in [LiveArenas -> Nat]
  PROVE  \E r : IteratesBy(r, order, pos, n)
<1>1. PICK S : S = WatchWork
  OBVIOUS
<1>2. PICK F : F = [x \in (1..n) \X S |-> sample_arena_callback(x[2], order[x[1]], pos[order[x[1]]])]
  OBVIOUS
<1>3. PICK start : start = [entries |-> entries, alerts |-> {}]
  OBVIOUS
<1>4. start \in S
  BY <1>1, <1>3 DEF WatchWork, WatchdogTypes
<1>5. ASSUME NEW i \in 1..n, NEW s \in S
      PROVE  F[<<i, s>>] \in S /\ F[<<i, s>>] = sample_arena_callback(s, order[i], pos[order[i]])
  <2>1. F[<<i, s>>] = sample_arena_callback(s, order[i], pos[order[i]])
    BY <1>2
  <2>2. PICK a \in LiveArenas, position \in Nat : a = order[i] /\ position = pos[a]
    BY DEF Walks
  <2>3. PICK new : new = sample_arena_callback(s, a, position)
    OBVIOUS
  <2>4. PICK list, at, e : CalledBack(s, new, a, position, list, at, e)
    BY <1>1, <2>3, CallbackIs
  <2>5. new \in S
    BY <1>1, <2>4 DEF CalledBack
  <2> QED
    BY <2>1, <2>2, <2>3, <2>5
<1>6. StaysIn(n, S, F)
  BY <1>5 DEF StaysIn
<1>7. HasRun(n, S, start, F)
  BY <1>4, <1>6, Loop
<1>8. PICK f \in [0..n -> S] : f[0] = start /\ \A i \in 1..n : f[i] = F[<<i, f[i - 1]>>]
  BY <1>7 DEF HasRun, IsRun
<1>9. ASSUME NEW i \in 1..n
      PROVE  f[i] = sample_arena_callback(f[i - 1], order[i], pos[order[i]])
  <2>1. i - 1 \in 0..n
    BY <1>9
  <2> QED
    BY <1>5, <1>8, <2>1
<1> DEFINE w[k \in 0..n] ==
             IF k = 0 THEN [entries |-> entries, alerts |-> {}]
             ELSE sample_arena_callback(w[k - 1], order[k], pos[order[k]])
<1>10. Iterated(order, pos) = w[n]
  BY DEF Iterated
<1>11. f = [k \in 0..n |-> IF k = 0 THEN [entries |-> entries, alerts |-> {}]
                           ELSE sample_arena_callback(f[k - 1], order[k], pos[order[k]])]
  BY <1>3, <1>8, <1>9
<1>12. \E g : g = [k \in 0..n |-> IF k = 0 THEN [entries |-> entries, alerts |-> {}]
                                  ELSE sample_arena_callback(g[k - 1], order[k], pos[order[k]])]
  BY <1>11
<1>13. w = [k \in 0..n |-> IF k = 0 THEN [entries |-> entries, alerts |-> {}]
                           ELSE sample_arena_callback(w[k - 1], order[k], pos[order[k]])]
  BY <1>12
<1> HIDE DEF w
<1>14. \A i \in 0..n : w[i] = f[i]
  <2> DEFINE B == {i \in 0..n : w[i] # f[i]}
  <2> SUFFICES ASSUME B # {} PROVE FALSE
    OBVIOUS
  <2>0. B \subseteq Nat
    OBVIOUS
  <2>1. PICK i \in B : \A j \in B : i <= j
    <3> HIDE DEF B
    <3> QED
      BY <2>0, Least
  <2>2. i # 0
    BY <1>3, <1>8, <1>13
  <2>3. i - 1 \in 0..n /\ ~ (i <= i - 1) /\ i \in 1..n
    BY <2>2
  <2>4. w[i - 1] = f[i - 1]
    BY <2>1, <2>3
  <2>5. w[i] = f[i]
    BY <1>9, <1>13, <2>2, <2>3, <2>4
  <2> QED
    BY <2>5
<1>15. n \in 0..n
  OBVIOUS
<1> QED
  BY <1>1, <1>3, <1>8, <1>9, <1>10, <1>14, <1>15 DEF IteratesBy

LEMMA IteratedWalks ==
  ASSUME WatchdogInv, NEW n \in Nat, NEW order, Walks(order, n), Len(order) = n, NEW pos \in [LiveArenas -> Nat]
  PROVE  Underway(Iterated(order, pos), n, order, pos)
<1>0. WatchdogTypes /\ BirthsOK
  BY DEF WatchdogInv
<1>5. PICK r : IteratesBy(r, order, pos, n)
  BY <1>0, IteratedRuns
<1>1. /\ r \in [0..n -> WatchWork]
      /\ r[0] = [entries |-> entries, alerts |-> {}] /\ Iterated(order, pos) = r[n]
      /\ \A i \in 1..n : r[i] = sample_arena_callback(r[i - 1], order[i], pos[order[i]])
  BY <1>5 DEF IteratesBy
<1>2. Underway(r[0], 0, order, pos)
  <2>1. r[0] \in WatchWork /\ r[0].entries = entries /\ r[0].alerts = {} /\ 1..0 = {}
    <3>1. 0 \in 0..n
      OBVIOUS
    <3>2. r[0] \in WatchWork
      BY <1>1, <3>1
    <3>3. PICK first : first = r[0]
      OBVIOUS
    <3>4. first = [entries |-> entries, alerts |-> {}]
      BY <1>1, <3>3
    <3>5. first.entries = entries /\ first.alerts = {}
      BY <3>4
    <3> QED
      BY <3>2, <3>3, <3>5
  <2>2. \A i \in 1..Len(entries) : Status(entries[i], 0, order, pos)
    BY <2>1 DEF WatchdogInv, WatchedOK, Status
  <2> QED
    BY <2>1, <2>2 DEF WatchdogInv, WatchedOK, Underway
<1> DEFINE B == {i \in 0..n : ~ Underway(r[i], i, order, pos)}
<1>3. B = {}
  <2> SUFFICES ASSUME B # {} PROVE FALSE
    OBVIOUS
  <2>0. B \subseteq Nat
    OBVIOUS
  <2>1. PICK i \in B : \A j \in B : i <= j
    <3> HIDE DEF B
    <3> QED
      BY <2>0, Least
  <2>2. i \in 0..n /\ ~ Underway(r[i], i, order, pos)
    OBVIOUS
  <2>3. i # 0
    BY <1>2, <2>2
  <2>4. i - 1 \in 0..n /\ ~ (i <= i - 1) /\ i \in 1..n
    BY <2>2, <2>3
  <2>5. Underway(r[i - 1], i - 1, order, pos)
    BY <2>1, <2>4
  <2>6. Underway(sample_arena_callback(r[i - 1], order[i], pos[order[i]]), i, order, pos)
    BY <1>0, <2>4, <2>5, CallbackKeeps
  <2> QED
    BY <1>1, <2>2, <2>4, <2>6
<1>4. n \in 0..n
  OBVIOUS
<1> QED
  BY <1>1, <1>3, <1>4

-----------------------------------------------------------------------------
(* The clean-up keeps the entries seen and marks them as not seen.         *)

CleanWork == [list : Seq(WatchEntry), i : Nat]

Distinct(list) == \A i, j \in 1..Len(list) : list[i].birth = list[j].birth => i = j

Unseen(e) == [e EXCEPT !.seen = FALSE]
MarkedOf(list, e) == \E m \in 1..Len(list) : list[m].seen /\ e = Unseen(list[m])
ElementOf(list, e) == \E m \in 1..Len(list) : e = list[m]

Cleaning(s, k, list) ==
  /\ s \in CleanWork /\ s.i \in 1..Len(s.list) + 1 /\ (s.i - 1) + (Len(list) - Len(s.list)) = k
  /\ Distinct(s.list)
  /\ \A j \in 1..s.i - 1 : MarkedOf(list, s.list[j])
  /\ \A j \in s.i..Len(s.list) : ElementOf(list, s.list[j])
  /\ \A m \in 1..Len(list) : list[m].seen => \E j \in 1..Len(s.list) : s.list[j].birth = list[m].birth

LEMMA UnseenFields ==
  ASSUME NEW e \in WatchEntry
  PROVE  /\ Unseen(e) \in WatchEntry /\ ~ Unseen(e).seen
         /\ Unseen(e).birth = e.birth /\ Unseen(e).arena = e.arena
         /\ Unseen(e).samples = e.samples /\ Unseen(e).index = e.index /\ Unseen(e).count = e.count
BY DEF WatchEntry, Unseen

LEMMA CleanedKeeps ==
  ASSUME NEW list \in Seq(WatchEntry), Distinct(list), NEW k \in 1..Len(list), NEW s, Cleaning(s, k - 1, list)
  PROVE  Cleaning(Cleaned(s), k, list)
<1>1. PICK N \in Nat : N = Len(list) /\ DOMAIN list = 1..N
  OBVIOUS
<1>2. PICK l \in Seq(WatchEntry), i \in Nat : l = s.list /\ i = s.i
  BY DEF Cleaning, CleanWork
<1>3. PICK n \in Nat : n = Len(l) /\ DOMAIN l = 1..n
  OBVIOUS
<1>4. /\ i \in 1..n /\ (i - 1) + (N - n) = k - 1
      /\ \A j \in 1..n, o \in 1..n : l[j].birth = l[o].birth => j = o
      /\ \A j \in 1..i - 1 : MarkedOf(list, l[j])
      /\ \A j \in i..n : ElementOf(list, l[j])
      /\ \A m \in 1..N : list[m].seen => \E j \in 1..n : l[j].birth = list[m].birth
  <2>1. i \in 1..n + 1 /\ (i - 1) + (N - n) = k - 1 /\ k \in 1..N
    BY <1>1, <1>2, <1>3 DEF Cleaning
  <2>2. i \in 1..n
    BY <2>1
  <2> QED
    BY <1>1, <1>2, <1>3, <2>1, <2>2 DEF Cleaning, Distinct
<1>5. PICK at \in 1..N : l[i] = list[at]
  <2>1. i \in i..n
    BY <1>4
  <2>2. ElementOf(list, l[i])
    BY <1>4, <2>1
  <2> QED
    BY <1>1, <2>2 DEF ElementOf
<1>9. k \in 1..N
  BY <1>1
<1>6. PICK e \in WatchEntry : e = l[i]
  BY <1>3, <1>4
<1>7. CASE e.seen
  <2>1. PICK d \in WatchEntry : d = Unseen(e) /\ d.birth = e.birth
    BY UnseenFields
  <2>2. PICK new : new = [l EXCEPT ![i] = d]
    OBVIOUS
  <2>3. Cleaned(s) = [list |-> new, i |-> i + 1]
    BY <1>2, <1>6, <1>7, <2>1, <2>2 DEF Cleaned, Unseen
  <2>4. new \in Seq(WatchEntry) /\ Len(new) = n /\ new[i] = d /\ \A j \in 1..n : j # i => new[j] = l[j]
    BY <1>3, <1>4, <2>2
  <2>5. \A j \in 1..n : new[j].birth = l[j].birth
    BY <1>6, <2>1, <2>4
  <2>6. \A j \in 1..n, o \in 1..n : new[j].birth = new[o].birth => j = o
    BY <1>4, <2>5
  <2>7. \A j \in 1..i : MarkedOf(list, new[j])
    <3> SUFFICES ASSUME NEW j \in 1..i PROVE MarkedOf(list, new[j])
      OBVIOUS
    <3>1. CASE j = i
      BY <1>1, <1>5, <1>6, <1>7, <2>1, <2>4, <3>1 DEF MarkedOf
    <3>2. CASE j # i
      <4>1. j \in 1..i - 1 /\ j \in 1..n
        BY <1>4, <3>2
      <4>2. new[j] = l[j]
        BY <2>4, <3>2, <4>1
      <4> QED
        BY <1>4, <4>1, <4>2
    <3> QED
      BY <3>1, <3>2
  <2>8. \A j \in i + 1..n : ElementOf(list, new[j])
    <3> SUFFICES ASSUME NEW j \in i + 1..n PROVE ElementOf(list, new[j])
      OBVIOUS
    <3>1. j \in i..n /\ j \in 1..n /\ j # i
      BY <1>4
    <3> QED
      BY <1>4, <2>4, <3>1
  <2>9. \A m \in 1..N : list[m].seen => \E j \in 1..n : new[j].birth = list[m].birth
    BY <1>4, <2>5
  <2>10. PICK t : t = Cleaned(s)
    OBVIOUS
  <2>11. t \in CleanWork /\ t.list = new /\ t.i = i + 1
    BY <2>3, <2>4, <2>10 DEF CleanWork
  <2>12. i + 1 \in 1..n + 1 /\ (i + 1) - 1 = i /\ ((i + 1) - 1) + (N - n) = k
    BY <1>4, <1>9
  <2>13. Cleaning(t, k, list)
    <3>1. (i + 1) - 1 = i
      BY <2>12
    <3>2. \A j \in 1..t.i - 1 : MarkedOf(list, t.list[j])
      BY <2>7, <2>11, <3>1
    <3>3. \A j \in t.i..Len(t.list) : ElementOf(list, t.list[j])
      BY <2>4, <2>8, <2>11
    <3>4. t.i \in 1..Len(t.list) + 1 /\ (t.i - 1) + (Len(list) - Len(t.list)) = k
      BY <1>1, <2>4, <2>11, <2>12
    <3>5. Distinct(t.list)
      BY <2>4, <2>6, <2>11 DEF Distinct
    <3>6. \A m \in 1..Len(list) : list[m].seen => \E j \in 1..Len(t.list) : t.list[j].birth = list[m].birth
      BY <1>1, <2>4, <2>9, <2>11
    <3> QED
      BY <2>11, <3>2, <3>3, <3>4, <3>5, <3>6 DEF Cleaning
  <2> QED
    BY <2>10, <2>13
<1>8. CASE ~ e.seen
  <2>1. PICK d \in WatchEntry : d = l[n] /\ d = Last(l)
    BY <1>3, <1>4 DEF Last
  <2>2. PICK moved : moved = [l EXCEPT ![i] = d]
    OBVIOUS
  <2>3. moved \in Seq(WatchEntry) /\ Len(moved) = n /\ moved[i] = d /\ \A j \in 1..n : j # i => moved[j] = l[j]
    BY <1>3, <1>4, <2>2
  <2>4. PICK new : new = Front(moved)
    OBVIOUS
  <2>5. Cleaned(s) = [list |-> new, i |-> i]
    BY <1>2, <1>6, <1>8, <2>1, <2>2, <2>4 DEF Cleaned
  <2>6. new = SubSeq(moved, 1, n - 1)
    BY <2>3, <2>4 DEF Front
  <2>7. new \in Seq(WatchEntry) /\ Len(new) = n - 1 /\ \A j \in 1..n - 1 : new[j] = moved[j]
    <3>1. PICK p \in Nat : p = n - 1
      BY <1>4
    <3>2. \A j \in 1..p : moved[j] \in WatchEntry
      BY <2>3, <3>1
    <3>3. new = SubSeq(moved, 1, p)
      BY <2>6, <3>1
    <3>4. /\ SubSeq(moved, 1, p) \in Seq(WatchEntry) /\ Len(SubSeq(moved, 1, p)) = IF 1 <= p THEN p - 1 + 1 ELSE 0
          /\ \A j \in 1..p - 1 + 1 : SubSeq(moved, 1, p)[j] = moved[1 + j - 1]
      BY <3>2, SubSeqProperties
    <3>5. Len(new) = p
      BY <3>3, <3>4
    <3>6. \A j \in 1..p : new[j] = moved[j]
      BY <3>3, <3>4
    <3> QED
      BY <3>1, <3>3, <3>4, <3>5, <3>6
  <2>8. \A j \in 1..n - 1 : j \in 1..n /\ j # n /\ new[j] = IF j = i THEN l[n] ELSE l[j]
    BY <2>1, <2>3, <2>7
  <2>9. n \in 1..n /\ n - 1 \in Nat
    BY <1>4
  <2>10. \A j \in 1..n - 1, o \in 1..n - 1 : new[j].birth = new[o].birth => j = o
    <3> SUFFICES ASSUME NEW j \in 1..n - 1, NEW o \in 1..n - 1, new[j].birth = new[o].birth PROVE j = o
      OBVIOUS
    <3>1. j \in 1..n /\ o \in 1..n /\ j # n /\ o # n /\ n \in 1..n
      BY <2>8, <2>9
    <3>2. CASE j = i /\ o = i
      BY <3>2
    <3>3. CASE j = i /\ o # i
      <4>1. l[n].birth = l[o].birth
        BY <2>8, <3>3
      <4> QED
        BY <1>4, <3>1, <4>1
    <3>4. CASE j # i /\ o = i
      <4>1. l[j].birth = l[n].birth
        BY <2>8, <3>4
      <4> QED
        BY <1>4, <3>1, <4>1
    <3>5. CASE j # i /\ o # i
      <4>1. l[j].birth = l[o].birth
        BY <2>8, <3>5
      <4> QED
        BY <1>4, <3>1, <4>1
    <3> QED
      BY <3>2, <3>3, <3>4, <3>5
  <2>11. \A j \in 1..i - 1 : MarkedOf(list, new[j])
    <3> SUFFICES ASSUME NEW j \in 1..i - 1 PROVE MarkedOf(list, new[j])
      OBVIOUS
    <3>1. j \in 1..n - 1 /\ j # i
      BY <1>4
    <3> QED
      BY <1>4, <2>8, <3>1
  <2>12. \A j \in i..n - 1 : ElementOf(list, new[j])
    <3> SUFFICES ASSUME NEW j \in i..n - 1 PROVE ElementOf(list, new[j])
      OBVIOUS
    <3>1. j \in 1..n - 1 /\ j \in i..n /\ n \in i..n
      BY <1>4
    <3> QED
      BY <1>4, <2>8, <3>1
  <2>13. ASSUME NEW m \in 1..N, list[m].seen PROVE \E j \in 1..n - 1 : new[j].birth = list[m].birth
    <3>1. PICK j \in 1..n : l[j].birth = list[m].birth
      BY <1>4, <2>13
    <3>2. j # i
      <4>1. m # at
        BY <1>5, <1>6, <1>8, <2>13
      <4> QED
        BY <1>1, <1>5, <3>1, <4>1 DEF Distinct
    <3>3. CASE j = n
      <4>1. i \in 1..n - 1
        BY <1>4, <3>2, <3>3
      <4> QED
        BY <2>8, <3>1, <3>3, <4>1
    <3>4. CASE j # n
      <4>1. j \in 1..n - 1
        BY <3>4
      <4> QED
        BY <2>8, <3>1, <3>2, <4>1
    <3> QED
      BY <3>3, <3>4
  <2>14. PICK t : t = Cleaned(s)
    OBVIOUS
  <2>15. t \in CleanWork /\ t.list = new /\ t.i = i
    BY <2>5, <2>7, <2>14 DEF CleanWork
  <2>16. i \in 1..(n - 1) + 1 /\ (i - 1) + (N - (n - 1)) = k
    BY <1>4, <1>9
  <2>17. Cleaning(t, k, list)
    BY <1>1, <2>7, <2>10, <2>11, <2>12, <2>13, <2>15, <2>16 DEF Cleaning, Distinct
  <2> QED
    BY <2>14, <2>17
<1> QED
  BY <1>7, <1>8

(* What is left when the loop has run once for every entry.                *)
CleanedUp(new, list) ==
  /\ new \in Seq(WatchEntry) /\ Distinct(new)
  /\ \A j \in 1..Len(new) : MarkedOf(list, new[j])
  /\ \A m \in 1..Len(list) : list[m].seen => \E j \in 1..Len(new) : new[j].birth = list[m].birth

LEMMA CleanUpKeepsSeen ==
  ASSUME NEW list \in Seq(WatchEntry), Distinct(list)
  PROVE  CleanedUp(cleanup_stale_entries(list), list)
<1>1. PICK N \in Nat : N = Len(list)
  OBVIOUS
<1>2. PICK S : S = CleanWork
  OBVIOUS
<1>3. PICK F : F = [x \in (1..N) \X S |-> IF Cleaning(x[2], x[1] - 1, list) THEN Cleaned(x[2]) ELSE x[2]]
  OBVIOUS
<1>4. PICK start : start = [list |-> list, i |-> 1]
  OBVIOUS
<1>5. start \in S
  BY <1>2, <1>4 DEF CleanWork
<1>6. ASSUME NEW i \in 1..N, NEW s \in S
      PROVE  /\ F[<<i, s>>] \in S
             /\ Cleaning(s, i - 1, list) => F[<<i, s>>] = Cleaned(s) /\ Cleaning(Cleaned(s), i, list)
  <2>1. F[<<i, s>>] = IF Cleaning(s, i - 1, list) THEN Cleaned(s) ELSE s
    BY <1>3
  <2>2. CASE Cleaning(s, i - 1, list)
    <3>1. Cleaning(Cleaned(s), i, list)
      BY <1>1, <2>2, CleanedKeeps
    <3>2. Cleaned(s) \in S
      BY <1>2, <3>1 DEF Cleaning
    <3> QED
      BY <2>1, <2>2, <3>1, <3>2
  <2>3. CASE ~ Cleaning(s, i - 1, list)
    BY <2>1, <2>3
  <2> QED
    BY <2>2, <2>3
<1>7. StaysIn(N, S, F)
  BY <1>6 DEF StaysIn
<1>8. HasRun(N, S, start, F)
  BY <1>5, <1>7, Loop
<1>9. PICK f \in [0..N -> S] : f[0] = start /\ \A i \in 1..N : f[i] = F[<<i, f[i - 1]>>]
  BY <1>8 DEF HasRun, IsRun
<1>10. Cleaning(start, 0, list)
  <2>1. start.list = list /\ start.i = 1 /\ start \in CleanWork
    BY <1>2, <1>4, <1>5
  <2>2. \A j \in 1..N : ElementOf(list, list[j])
    BY <1>1 DEF ElementOf
  <2>3. 1..1 - 1 = {} /\ 1 \in 1..N + 1 /\ (1 - 1) + (N - N) = 0
    OBVIOUS
  <2> QED
    BY <1>1, <2>1, <2>2, <2>3 DEF Cleaning
<1> DEFINE A == {i \in 0..N : ~ Cleaning(f[i], i, list)}
<1>11. A = {}
  <2> SUFFICES ASSUME A # {} PROVE FALSE
    OBVIOUS
  <2>0. A \subseteq Nat
    OBVIOUS
  <2>1. PICK i \in A : \A j \in A : i <= j
    <3> HIDE DEF A
    <3> QED
      BY <2>0, Least
  <2>2. i \in 0..N /\ ~ Cleaning(f[i], i, list)
    OBVIOUS
  <2>3. i # 0
    BY <1>9, <1>10, <2>2
  <2>4. i - 1 \in 0..N /\ ~ (i <= i - 1) /\ i \in 1..N
    BY <2>2, <2>3
  <2>5. Cleaning(f[i - 1], i - 1, list)
    BY <2>1, <2>4
  <2>6. Cleaning(f[i], i, list)
    BY <1>6, <1>9, <2>4, <2>5
  <2> QED
    BY <2>2, <2>6
<1>12. ASSUME NEW i \in 1..N PROVE f[i] = Cleaned(f[i - 1])
  <2>1. i - 1 \in 0..N
    BY <1>12
  <2>2. Cleaning(f[i - 1], i - 1, list)
    BY <1>11, <2>1
  <2> QED
    BY <1>6, <1>9, <2>1, <2>2
<1> DEFINE loop[k \in 0..N] == IF k = 0 THEN [list |-> list, i |-> 1] ELSE Cleaned(loop[k - 1])
<1>13. cleanup_stale_entries(list) = loop[N].list
  BY <1>1 DEF cleanup_stale_entries
<1>14. f = [k \in 0..N |-> IF k = 0 THEN [list |-> list, i |-> 1] ELSE Cleaned(f[k - 1])]
  BY <1>4, <1>9, <1>12
<1>15. \E g : g = [k \in 0..N |-> IF k = 0 THEN [list |-> list, i |-> 1] ELSE Cleaned(g[k - 1])]
  BY <1>14
<1>16. loop = [k \in 0..N |-> IF k = 0 THEN [list |-> list, i |-> 1] ELSE Cleaned(loop[k - 1])]
  BY <1>15
<1> HIDE DEF loop
<1>17. \A i \in 0..N : loop[i] = f[i]
  <2> DEFINE B == {i \in 0..N : loop[i] # f[i]}
  <2> SUFFICES ASSUME B # {} PROVE FALSE
    OBVIOUS
  <2>0. B \subseteq Nat
    OBVIOUS
  <2>1. PICK i \in B : \A j \in B : i <= j
    <3> HIDE DEF B
    <3> QED
      BY <2>0, Least
  <2>2. i # 0
    BY <1>4, <1>9, <1>16
  <2>3. i - 1 \in 0..N /\ ~ (i <= i - 1) /\ i \in 1..N
    BY <2>2
  <2>4. loop[i - 1] = f[i - 1]
    BY <2>1, <2>3
  <2>5. loop[i] = f[i]
    BY <1>12, <1>16, <2>2, <2>3, <2>4
  <2> QED
    BY <2>5
<1>18. N \in 0..N
  OBVIOUS
<1>19. PICK t : t = f[N]
  OBVIOUS
<1>20. Cleaning(t, N, list) /\ cleanup_stale_entries(list) = t.list
  BY <1>11, <1>13, <1>17, <1>18, <1>19
<1>21. PICK new \in Seq(WatchEntry) : new = t.list
  BY <1>20 DEF Cleaning, CleanWork
<1>22. t.i - 1 = Len(new)
  <2>1. PICK l \in Nat, i \in Int : l = Len(new) /\ i = t.i
    BY <1>20, <1>21 DEF Cleaning, CleanWork
  <2>2. (i - 1) + (N - l) = N
    BY <1>1, <1>20, <1>21, <2>1 DEF Cleaning
  <2> QED
    BY <2>1, <2>2
<1>23. CleanedUp(new, list)
  BY <1>20, <1>21, <1>22 DEF Cleaning, CleanedUp
<1> QED
  BY <1>20, <1>21, <1>23

LEMMA UpdateKeepsWatch ==
  ASSUME WatchdogInv, NEW order \in Orders, NEW pos \in [LiveArenas -> 1..MaxPos], arena_watchdog_update(order, pos)
  PROVE  WatchdogInv'
<1>0. WatchdogTypes /\ BirthsOK
  BY DEF WatchdogInv
<1>1. PICK n \in Nat : Len(order) = n /\ Walks(order, n)
  BY <1>0, OrdersWalk
<1>2. pos \in [LiveArenas -> Nat]
  <2>1. \A p \in 1..MaxPos : p \in Nat
    BY WatchdogAssumption
  <2> QED
    BY <2>1
<1>3. PICK w : w = Iterated(order, pos) /\ Underway(w, n, order, pos)
  BY <1>1, <1>2, IteratedWalks
<1>4. PICK list \in Seq(WatchEntry) : list = w.entries
  BY <1>3 DEF Underway, WatchWork
<1>5. Distinct(list)
  BY <1>3, <1>4 DEF Underway, Distinct
<1>6. /\ entries' = cleanup_stale_entries(list) /\ alerts' = w.alerts
      /\ walked' = {arenas[a] : a \in LiveArenas}
      /\ seenBy' = [b \in DOMAIN seenBy |->
                      IF \E a \in LiveArenas : arenas[a] = b
                      THEN Append(seenBy[b], pos[CHOOSE a \in LiveArenas : arenas[a] = b])
                      ELSE seenBy[b]]
      /\ arenas' = arenas /\ lives' = lives /\ threshold' = threshold
  BY <1>3, <1>4 DEF arena_watchdog_update
<1>7. CleanedUp(entries', list)
  BY <1>5, <1>6, CleanUpKeepsSeen
<1>8. LiveArenas' = LiveArenas
  BY <1>6 DEF LiveArenas
<1>9. DOMAIN seenBy = 1..MaxLives /\ \A b \in 1..MaxLives : seenBy[b] \in Seq(Nat)
  BY <1>0 DEF WatchdogTypes
<1>10. ASSUME NEW a \in LiveArenas
       PROVE  /\ arenas[a] \in 1..lives /\ arenas[a] \in 1..MaxLives /\ pos[a] \in Nat
              /\ seenBy'[arenas[a]] = Append(seenBy[arenas[a]], pos[a])
  <2>1. arenas[a] \in 1..lives /\ arenas[a] \in 1..MaxLives
    BY <1>0, LiveBirth
  <2>2. PICK c : c = CHOOSE x \in LiveArenas : arenas[x] = arenas[a]
    OBVIOUS
  <2>3. c = a
    BY <1>0, <2>2 DEF BirthsOK
  <2> QED
    BY <1>2, <1>6, <1>9, <2>1, <2>2, <2>3
<1>11. ASSUME NEW b \in 1..MaxLives, \A a \in LiveArenas : arenas[a] # b PROVE seenBy'[b] = seenBy[b]
  BY <1>6, <1>9, <1>11
<1>12. seenBy' \in [1..MaxLives -> Seq(Nat)]
  <2>1. \A b \in 1..MaxLives : seenBy'[b] \in Seq(Nat)
    <3> SUFFICES ASSUME NEW b \in 1..MaxLives PROVE seenBy'[b] \in Seq(Nat)
      OBVIOUS
    <3>1. PICK old \in Seq(Nat) : old = seenBy[b]
      BY <1>9
    <3>2. CASE \E a \in LiveArenas : arenas[a] = b
      <4>1. PICK a \in LiveArenas : arenas[a] = b
        BY <3>2
      <4>2. PICK p \in Nat : p = pos[a]
        BY <1>2
      <4>3. seenBy'[b] = Append(old, p)
        BY <1>10, <3>1, <4>1, <4>2
      <4> QED
        BY <4>3
    <3>3. CASE ~ \E a \in LiveArenas : arenas[a] = b
      BY <1>11, <3>1, <3>3
    <3> QED
      BY <3>2, <3>3
  <2>2. seenBy' = [b \in 1..MaxLives |-> seenBy'[b]]
    BY <1>6, <1>9
  <2> QED
    BY <2>1, <2>2
<1>13. WatchdogTypes'
  <2>1. walked' \subseteq 1..lives
    BY <1>6, <1>10
  <2>2. entries' \in Seq(WatchEntry)
    BY <1>7 DEF CleanedUp
  <2> QED
    BY <1>0, <1>6, <1>12, <2>1, <2>2 DEF WatchdogTypes
<1>14. BirthsOK'
  <2>1. ASSUME NEW b \in lives + 1..MaxLives PROVE seenBy'[b] = << >>
    <3>1. lives \in Nat /\ b \in 1..MaxLives /\ ~ (b \in 1..lives)
      BY <1>0, WatchdogAssumption DEF WatchdogTypes
    <3>2. \A a \in LiveArenas : arenas[a] # b
      BY <1>10, <3>1
    <3> QED
      BY <1>0, <1>11, <3>1, <3>2 DEF BirthsOK
  <2>2. \A a \in LiveArenas : arenas[a] \in walked'
    BY <1>6
  <2> QED
    BY <1>0, <1>6, <1>8, <2>1, <2>2 DEF BirthsOK
<1>15. ASSUME NEW b \in walked' PROVE \E i \in 1..Len(entries') : entries'[i].birth = b
  <2>1. PICK a \in LiveArenas : b = arenas[a]
    BY <1>6
  <2>2. PICK j \in 1..n : order[j] = a
    BY <1>1 DEF Walks
  <2>3. PICK m \in 1..Len(list) : list[m].birth = b /\ Status(list[m], n, order, pos)
    BY <1>3, <1>4, <2>1, <2>2 DEF Underway
  <2>4. list[m].seen
    BY <2>1, <2>2, <2>3 DEF Status
  <2> QED
    BY <1>7, <2>3, <2>4 DEF CleanedUp
<1>16. ASSUME NEW i \in 1..Len(entries')
       PROVE  /\ entries'[i].birth \in walked' /\ ~ entries'[i].seen
              /\ Holds(entries'[i], seenBy'[entries'[i].birth])
              /\ \A a \in LiveArenas : entries'[i].birth = arenas[a] => entries'[i].arena = a
  <2>1. MarkedOf(list, entries'[i])
    BY <1>7 DEF CleanedUp
  <2>2. PICK m \in 1..Len(list) : list[m].seen /\ entries'[i] = Unseen(list[m])
    BY <2>1 DEF MarkedOf
  <2>3. Status(list[m], n, order, pos)
    BY <1>3, <1>4 DEF Underway
  <2>4. PICK e \in WatchEntry : e = list[m]
    OBVIOUS
  <2>5. PICK d \in WatchEntry : d = entries'[i] /\ d = Unseen(e)
    BY <2>2, <2>4, UnseenFields
  <2>6. /\ ~ d.seen /\ d.birth = e.birth /\ d.arena = e.arena
        /\ d.samples = e.samples /\ d.index = e.index /\ d.count = e.count
    BY <2>5, UnseenFields
  <2>7. PICK j \in 1..n : e.birth = arenas[order[j]] /\ Holds(e, Append(seenBy[e.birth], pos[order[j]]))
    BY <2>2, <2>3, <2>4 DEF Status
  <2>8. PICK a \in LiveArenas : a = order[j]
    BY <1>1 DEF Walks
  <2>9. Holds(e, seenBy'[e.birth]) /\ e.birth \in walked'
    <3>1. e.birth = arenas[a] /\ Holds(e, Append(seenBy[arenas[a]], pos[a]))
      BY <2>7, <2>8
    <3>2. seenBy'[arenas[a]] = Append(seenBy[arenas[a]], pos[a])
      BY <1>10
    <3>3. arenas[a] \in walked'
      BY <1>6
    <3> QED
      BY <3>1, <3>2, <3>3
  <2>10. Holds(d, seenBy'[d.birth])
    BY <2>6, <2>9 DEF Holds
  <2>11. \A c \in LiveArenas : e.birth = arenas[c] => e.arena = c
    BY <2>3, <2>4 DEF Status
  <2> QED
    BY <2>5, <2>6, <2>9, <2>10, <2>11
<1>17. WatchedOK'
  <2>1. \A i, j \in 1..Len(entries') : entries'[i].birth = entries'[j].birth => i = j
    BY <1>7 DEF CleanedUp, Distinct
  <2> QED
    BY <1>6, <1>8, <1>15, <1>16, <2>1 DEF WatchedOK
<1>18. GrowthIsReal'
  <2>1. ASSUME NEW b \in alerts' PROVE Grew(seenBy'[b])
    <3>1. PICK j \in 1..n : b = arenas[order[j]] /\ Grew(Append(seenBy[b], pos[order[j]]))
      BY <1>3, <1>6 DEF Underway
    <3>2. PICK a \in LiveArenas : a = order[j]
      BY <1>1 DEF Walks
    <3>3. seenBy'[b] = Append(seenBy[b], pos[order[j]])
      BY <1>10, <3>1, <3>2
    <3> QED
      BY <3>1, <3>3
  <2> QED
    BY <1>6, <2>1 DEF GrowthIsReal, Grew
<1> QED
  BY <1>13, <1>14, <1>17, <1>18 DEF WatchdogInv

LEMMA ThresholdKeepsWatch ==
  ASSUME WatchdogInv, NEW samples \in 1..WATCHDOG_RING_SIZE + 1, arena_watchdog_set_growth_threshold(samples)
  PROVE  WatchdogInv'
<1>1. /\ arenas' = arenas /\ lives' = lives /\ entries' = entries /\ seenBy' = seenBy /\ walked' = walked
      /\ alerts' = {} /\ threshold' \in 2..WATCHDOG_RING_SIZE
  BY WatchdogAssumption DEF arena_watchdog_set_growth_threshold
<1>2. LiveArenas' = LiveArenas
  BY <1>1 DEF LiveArenas
<1>3. WatchdogTypes'
  BY <1>1 DEF WatchdogInv, WatchdogTypes
<1>4. BirthsOK'
  BY <1>1, <1>2 DEF WatchdogInv, BirthsOK
<1>5. WatchedOK'
  BY <1>1, <1>2 DEF WatchdogInv, WatchedOK
<1>6. GrowthIsReal'
  BY <1>1 DEF GrowthIsReal
<1> QED
  BY <1>3, <1>4, <1>5, <1>6 DEF WatchdogInv

LEMMA MakeKeepsWatch ==
  ASSUME WatchdogInv, NEW a \in Addresses, MakeArena(a)
  PROVE  WatchdogInv'
<1>1. /\ lives \in Nat /\ lives < MaxLives /\ MaxLives \in Nat /\ arenas[a] = 0
      /\ lives' = lives + 1 /\ arenas' = [arenas EXCEPT ![a] = lives + 1]
      /\ entries' = entries /\ threshold' = threshold /\ alerts' = alerts /\ seenBy' = seenBy /\ walked' = walked
  BY WatchdogAssumption DEF MakeArena, WatchdogInv, WatchdogTypes
<1>2. /\ arenas \in [Addresses -> 0..lives] /\ arenas'[a] = lives + 1
      /\ \A c \in Addresses : c # a => arenas'[c] = arenas[c]
  BY <1>1 DEF WatchdogInv, WatchdogTypes
<1>3. \A c \in LiveArenas' : c = a \/ (c \in LiveArenas /\ c # a /\ arenas'[c] = arenas[c])
  BY <1>1, <1>2 DEF LiveArenas
<1>4. \A c \in LiveArenas : c \in Addresses /\ arenas[c] \in 1..lives
  BY <1>2, <1>1 DEF LiveArenas
<1>5. WatchdogTypes'
  <2>1. arenas' \in [Addresses -> 0..lives + 1] /\ lives + 1 \in 0..MaxLives
    BY <1>1, <1>2
  <2>2. walked \subseteq 1..lives + 1
    BY <1>1 DEF WatchdogInv, WatchdogTypes
  <2> QED
    BY <1>1, <2>1, <2>2 DEF WatchdogInv, WatchdogTypes
<1>6. BirthsOK'
  <2>1. \A c, d \in LiveArenas' : arenas'[c] = arenas'[d] => c = d
    <3> SUFFICES ASSUME NEW c \in LiveArenas', NEW d \in LiveArenas', arenas'[c] = arenas'[d] PROVE c = d
      OBVIOUS
    <3>1. \A e \in LiveArenas : arenas[e] # lives + 1
      BY <1>1, <1>4
    <3>2. \A x, y \in LiveArenas : arenas[x] = arenas[y] => x = y
      BY DEF WatchdogInv, BirthsOK
    <3> QED
      BY <1>2, <1>3, <3>1, <3>2
  <2>2. \A b \in lives + 1 + 1..MaxLives : b \in lives + 1..MaxLives
    BY <1>1
  <2>3. seenBy[lives + 1] = << >>
    <3>1. lives + 1 \in lives + 1..MaxLives
      BY <1>1
    <3> QED
      BY <3>1 DEF WatchdogInv, BirthsOK
  <2>4. \A c \in LiveArenas' : arenas'[c] \notin walked => seenBy[arenas'[c]] = << >>
    BY <1>2, <1>3, <2>3 DEF WatchdogInv, BirthsOK
  <2>5. \A b \in lives'+ 1..MaxLives : seenBy'[b] = << >>
    BY <1>1, <2>2 DEF WatchdogInv, BirthsOK
  <2> QED
    BY <1>1, <2>1, <2>4, <2>5 DEF BirthsOK
<1>7. WatchedOK'
  <2>1. ASSUME NEW i \in 1..Len(entries), NEW c \in LiveArenas', entries[i].birth = arenas'[c] PROVE entries[i].arena = c
    <3>1. entries[i].birth \in 1..lives
      BY DEF WatchdogInv, WatchedOK, WatchdogTypes
    <3>2. c # a
      BY <1>1, <1>2, <2>1, <3>1
    <3>3. c \in LiveArenas /\ arenas'[c] = arenas[c]
      BY <1>3, <3>2
    <3> QED
      BY <2>1, <3>3 DEF WatchdogInv, WatchedOK
  <2> QED
    BY <1>1, <2>1 DEF WatchdogInv, WatchedOK
<1>8. GrowthIsReal'
  BY <1>1 DEF WatchdogInv, GrowthIsReal
<1> QED
  BY <1>5, <1>6, <1>7, <1>8 DEF WatchdogInv

LEMMA DestroyKeepsWatch ==
  ASSUME WatchdogInv, NEW a \in Addresses, DestroyArena(a)
  PROVE  WatchdogInv'
<1>1. /\ arenas' = [arenas EXCEPT ![a] = 0] /\ lives' = lives
      /\ entries' = entries /\ threshold' = threshold /\ alerts' = alerts /\ seenBy' = seenBy /\ walked' = walked
  BY DEF DestroyArena
<1>2. /\ arenas \in [Addresses -> 0..lives] /\ arenas'[a] = 0 /\ lives \in Nat
      /\ \A c \in Addresses : c # a => arenas'[c] = arenas[c]
  BY <1>1, WatchdogAssumption DEF WatchdogInv, WatchdogTypes
<1>3. \A c \in LiveArenas' : c \in LiveArenas /\ arenas'[c] = arenas[c]
  BY <1>2 DEF LiveArenas
<1>4. WatchdogTypes'
  BY <1>1, <1>2 DEF WatchdogInv, WatchdogTypes
<1>5. BirthsOK'
  BY <1>1, <1>3 DEF WatchdogInv, BirthsOK
<1>6. WatchedOK'
  BY <1>1, <1>3 DEF WatchdogInv, WatchedOK
<1>7. GrowthIsReal'
  BY <1>1 DEF WatchdogInv, GrowthIsReal
<1> QED
  BY <1>4, <1>5, <1>6, <1>7 DEF WatchdogInv

LEMMA WatchdogStarts == WatchdogInit => WatchdogInv
<1> SUFFICES ASSUME WatchdogInit PROVE WatchdogInv
  OBVIOUS
<1>1. /\ arenas = [a \in Addresses |-> 0] /\ lives = 0 /\ entries = << >> /\ threshold = 3 /\ alerts = {}
      /\ seenBy = [b \in 1..MaxLives |-> << >>] /\ walked = {}
  BY DEF WatchdogInit
<1>2. LiveArenas = {} /\ Len(entries) = 0 /\ 1..0 = {}
  BY <1>1 DEF LiveArenas
<1>3. WatchdogTypes
  <2>1. << >> \in Seq(Nat) /\ << >> \in Seq(WatchEntry)
    OBVIOUS
  <2> QED
    BY <1>1, <2>1, WatchdogAssumption DEF WatchdogTypes
<1>4. BirthsOK
  BY <1>1, <1>2 DEF BirthsOK
<1>5. WatchedOK
  BY <1>1, <1>2 DEF WatchedOK
<1>6. GrowthIsReal
  BY <1>1 DEF GrowthIsReal
<1> QED
  BY <1>3, <1>4, <1>5, <1>6 DEF WatchdogInv

LEMMA WatchdogSteps == ASSUME WatchdogInv, [WatchdogNext]_watchdog_vars PROVE WatchdogInv'
<1>1. ASSUME UNCHANGED watchdog_vars PROVE WatchdogInv'
  <2>1. /\ arenas' = arenas /\ lives' = lives /\ entries' = entries /\ threshold' = threshold
        /\ alerts' = alerts /\ seenBy' = seenBy /\ walked' = walked
    BY <1>1 DEF watchdog_vars
  <2>2. LiveArenas' = LiveArenas
    BY <2>1 DEF LiveArenas
  <2>3. WatchdogTypes'
    BY <2>1 DEF WatchdogInv, WatchdogTypes
  <2>4. BirthsOK'
    BY <2>1, <2>2 DEF WatchdogInv, BirthsOK
  <2>5. WatchedOK'
    BY <2>1, <2>2 DEF WatchdogInv, WatchedOK
  <2>6. GrowthIsReal'
    BY <2>1 DEF WatchdogInv, GrowthIsReal
  <2> QED
    BY <2>3, <2>4, <2>5, <2>6 DEF WatchdogInv
<1> QED
  BY <1>1, UpdateKeepsWatch, ThresholdKeepsWatch, MakeKeepsWatch, DestroyKeepsWatch DEF WatchdogNext

LEMMA InvariantSaysLive == WatchdogInv => EntriesAreLive
<1> SUFFICES ASSUME WatchdogInv PROVE EntriesAreLive
  OBVIOUS
<1>1. PICK n \in Nat : n = Len(entries) /\ DOMAIN entries = 1..n
  BY DEF WatchdogInv, WatchdogTypes
<1>2. /\ \A b \in walked : \E i \in 1..n : entries[i].birth = b
      /\ \A i, j \in 1..n : entries[i].birth = entries[j].birth => i = j
      /\ \A i \in 1..n : entries[i].birth \in walked /\ Holds(entries[i], seenBy[entries[i].birth])
  BY <1>1 DEF WatchdogInv, WatchedOK
<1>3. {entries[i].birth : i \in DOMAIN entries} = walked
  BY <1>1, <1>2
<1>4. n = Cardinality(walked)
  <2>1. PICK f : f = [i \in 1..n |-> entries[i].birth]
    OBVIOUS
  <2>2. f \in Surjection(1..n, walked)
    BY <1>2, <2>1 DEF Surjection
  <2>3. f \in Injection(1..n, walked)
    BY <1>2, <2>1 DEF Injection, IsInjective
  <2>4. IsFiniteSet(1..n) /\ Cardinality(1..n) = n
    BY FS_Interval
  <2> QED
    BY <2>2, <2>3, <2>4, FS_Surjection
<1>5. \A i \in 1..n : entries[i].count = IF Len(seenBy[entries[i].birth]) < WATCHDOG_RING_SIZE
                                         THEN Len(seenBy[entries[i].birth]) ELSE WATCHDOG_RING_SIZE
  BY <1>2 DEF Holds
<1> QED
  BY <1>1, <1>3, <1>4, <1>5 DEF EntriesAreLive

(* EntriesAreLiveAlways: for any arenas, positions and ring, an arena of   *)
(* the last walk has one entry, and no other arena has                     *)
(* (arena_watchdog.c:127-188).                                             *)
THEOREM EntriesAreLiveAlways == WatchdogSpec => []EntriesAreLive
<1>1. WatchdogInit => WatchdogInv
  BY WatchdogStarts
<1>2. WatchdogInv /\ [WatchdogNext]_watchdog_vars => WatchdogInv'
  BY WatchdogSteps
<1>3. WatchdogInv => EntriesAreLive
  BY InvariantSaysLive
<1> QED
  BY <1>1, <1>2, <1>3, PTL DEF WatchdogSpec

(* GrowthIsRealAlways: and a warning is about the arena's own samples      *)
(* (arena_watchdog.c:99-173).                                              *)
THEOREM GrowthIsRealAlways == WatchdogSpec => []GrowthIsReal
<1>1. WatchdogInit => WatchdogInv
  BY WatchdogStarts
<1>2. WatchdogInv /\ [WatchdogNext]_watchdog_vars => WatchdogInv'
  BY WatchdogSteps
<1>3. WatchdogInv => GrowthIsReal
  BY DEF WatchdogInv
<1> QED
  BY <1>1, <1>2, <1>3, PTL DEF WatchdogSpec

-----------------------------------------------------------------------------
(***************************************************************************)
(* Proofs about the profiler, for any depth, number of entries and budget. *)
(* The scopes that a frame recorded are the innermost ones, so a guard     *)
(* finds its own entry on top of the stack or finds nothing.               *)
(***************************************************************************)

PerfEntry == [elapsed : Nat, depth : Nat, parent : Nat]
OpenScope == [start : Nat, entry : Nat]
Guard == [index : Nat \cup {unrecorded}, start : Nat, entry : Nat \cup {unrecorded}]

IsRecorded(i) == scopes[i].entry # unrecorded
IsOpen(i) == \E k \in DOMAIN stack : stack[k].entry = i

TypesOK ==
  /\ tree \in Seq(PerfEntry) /\ stack \in Seq(OpenScope) /\ scopes \in Seq(Guard) /\ time \in Nat
  /\ \A e \in ended : e.entry \in DOMAIN tree

(* Scopes an earlier frame recorded come before all that this one did.     *)
GuardsOK ==
  /\ \A i \in DOMAIN scopes :
       IsRecorded(i) => /\ scopes[i].index \in Nat /\ scopes[i].index + 1 \in DOMAIN stack
                        /\ stack[scopes[i].index + 1].entry = scopes[i].entry
                        /\ stack[scopes[i].index + 1].start = scopes[i].start
  /\ \A k \in DOMAIN stack : \E i \in DOMAIN scopes : IsRecorded(i) /\ scopes[i].index + 1 = k
  /\ \A i, j \in DOMAIN scopes :
       i < j /\ IsRecorded(i) => \/ IsRecorded(j) /\ scopes[i].index < scopes[j].index
                                 \/ scopes[j].index = unrecorded /\ ~ IsRecorded(j)

StackOK ==
  /\ \A k \in DOMAIN stack :
       /\ stack[k].entry \in DOMAIN tree /\ stack[k].start <= time
       /\ tree[stack[k].entry].depth = k - 1 /\ tree[stack[k].entry].elapsed = 0
       /\ \A i \in DOMAIN tree : i > stack[k].entry => tree[i].depth >= k
  /\ \A k, l \in DOMAIN stack : k < l => stack[k].start <= stack[l].start

ParentOK(i) ==
  LET p == tree[i].parent
  IN  /\ p < i /\ p \in DOMAIN tree /\ tree[p].depth = tree[i].depth - 1
      /\ \A k \in DOMAIN tree : p < k /\ k < i => tree[k].depth >= tree[i].depth
      /\ \/ \E k \in DOMAIN stack : stack[k].entry = p /\ tree[i].elapsed <= time - stack[k].start
         \/ ~ IsOpen(p) /\ ~ IsOpen(i) /\ tree[i].elapsed <= tree[p].elapsed

TreeOK == \A i \in DOMAIN tree : IF tree[i].depth = 0 THEN tree[i].parent = 1 ELSE ParentOK(i)

EndedOK ==
  \A i \in DOMAIN tree :
    {e.took : e \in {e \in ended : e.entry = i}} = IF IsOpen(i) THEN {} ELSE {tree[i].elapsed}

PrintedOK == printed # {} => \E e \in ended : e.entry = 1 /\ e.took > PERF_SCOPE_FRAME_BUDGET_NS

PerfInv == TypesOK /\ GuardsOK /\ StackOK /\ TreeOK /\ EndedOK /\ overflow = shed /\ PrintedOK

LEMMA PerfFacts ==
  ASSUME TypesOK
  PROVE  /\ Len(tree) \in Nat /\ DOMAIN tree = 1..Len(tree)
         /\ Len(stack) \in Nat /\ DOMAIN stack = 1..Len(stack)
         /\ Len(scopes) \in Nat /\ DOMAIN scopes = 1..Len(scopes)
         /\ \A i \in DOMAIN tree : tree[i] \in PerfEntry
         /\ \A k \in DOMAIN stack : stack[k] \in OpenScope
         /\ \A i \in DOMAIN scopes : scopes[i] \in Guard
BY DEF TypesOK

LEMMA Appended ==
  ASSUME NEW S, NEW s \in Seq(S), NEW e \in S, NEW n \in Nat, n = Len(s)
  PROVE  /\ Append(s, e) \in Seq(S) /\ DOMAIN Append(s, e) = 1..n + 1 /\ Append(s, e)[n + 1] = e
         /\ \A i \in 1..n : Append(s, e)[i] = s[i]
         /\ \A i \in 1..n + 1 : i \in 1..n \/ i = n + 1
OBVIOUS

LEMMA Shortened ==
  ASSUME NEW S, NEW s \in Seq(S), NEW n \in Nat, n = Len(s), n # 0
  PROVE  /\ Front(s) \in Seq(S) /\ DOMAIN Front(s) = 1..n - 1 /\ Last(s) = s[n]
         /\ \A i \in 1..n - 1 : Front(s)[i] = s[i]
         /\ \A i \in 1..n : i \in 1..n - 1 \/ i = n
<1>1. Front(s) = SubSeq(s, 1, n - 1) /\ Last(s) = s[n]
  BY DEF Front, Last
<1> QED
  BY <1>1

LEMMA BeginKeeps == ASSUME PerfInv, fl_perf_scope_begin PROVE PerfInv'
<1>1. PICK N, m, n \in Nat : N = Len(tree) /\ m = Len(stack) /\ n = Len(scopes)
  BY PerfFacts DEF PerfInv
<1>2. /\ tree \in Seq(PerfEntry) /\ stack \in Seq(OpenScope) /\ scopes \in Seq(Guard) /\ time \in Nat
      /\ DOMAIN tree = 1..N /\ DOMAIN stack = 1..m /\ DOMAIN scopes = 1..n
      /\ \A e \in ended : e.entry \in 1..N
  BY <1>1, PerfFacts DEF PerfInv, TypesOK
<1>3. time' = time /\ ended' = ended /\ printed' = printed
  BY DEF fl_perf_scope_begin
<1>4. CASE Len(tree) >= PERF_SCOPE_MAX_ENTRIES \/ Len(stack) >= PERF_SCOPE_MAX_DEPTH
  <2>1. PICK g : g = [index |-> unrecorded, start |-> time, entry |-> unrecorded]
    OBVIOUS
  <2>2. g \in Guard /\ g.index = unrecorded /\ g.entry = unrecorded
    BY <1>2, <2>1 DEF Guard
  <2>3. scopes' = Append(scopes, g) /\ tree' = tree /\ stack' = stack /\ overflow' = shed'
    BY <1>4, <2>1 DEF fl_perf_scope_begin
  <2>4. /\ scopes' \in Seq(Guard) /\ DOMAIN scopes' = 1..n + 1 /\ scopes'[n + 1] = g
        /\ \A i \in 1..n : scopes'[i] = scopes[i]
        /\ \A i \in 1..n + 1 : i \in 1..n \/ i = n + 1
    BY <1>1, <1>2, <2>2, <2>3, Appended
  <2>5. TypesOK'
    BY <1>2, <1>3, <2>3, <2>4 DEF PerfInv, TypesOK
  <2>6. GuardsOK'
    <3>1. ASSUME NEW i \in 1..n + 1, IsRecorded(i)'
          PROVE  /\ i \in 1..n /\ IsRecorded(i) /\ scopes'[i] = scopes[i]
      BY <2>2, <2>4, <3>1 DEF IsRecorded
    <3>2. ASSUME NEW i \in 1..n PROVE IsRecorded(i)' <=> IsRecorded(i)
      BY <2>4 DEF IsRecorded
    <3>3. \A k \in DOMAIN stack : \E i \in 1..n + 1 : IsRecorded(i)' /\ scopes'[i].index + 1 = k
      <4> SUFFICES ASSUME NEW k \in DOMAIN stack PROVE \E i \in 1..n + 1 : IsRecorded(i)' /\ scopes'[i].index + 1 = k
        OBVIOUS
      <4>1. PICK i \in 1..n : IsRecorded(i) /\ scopes[i].index + 1 = k
        BY <1>2 DEF PerfInv, GuardsOK
      <4> QED
        BY <2>4, <3>2, <4>1
    <3>4. ASSUME NEW i \in 1..n + 1, NEW j \in 1..n + 1, i < j, IsRecorded(i)'
          PROVE  \/ IsRecorded(j)' /\ scopes'[i].index < scopes'[j].index
                 \/ scopes'[j].index = unrecorded /\ ~ IsRecorded(j)'
      <4>1. CASE j = n + 1
        BY <2>2, <2>4, <4>1 DEF IsRecorded
      <4>2. CASE j \in 1..n
        <5>1. i \in 1..n /\ IsRecorded(i) /\ scopes'[i] = scopes[i] /\ scopes'[j] = scopes[j]
          BY <2>4, <3>1, <3>4, <4>2
        <5>2. \/ IsRecorded(j) /\ scopes[i].index < scopes[j].index
              \/ scopes[j].index = unrecorded /\ ~ IsRecorded(j)
          BY <1>2, <3>4, <4>2, <5>1 DEF PerfInv, GuardsOK
        <5> QED
          BY <3>2, <4>2, <5>1, <5>2
      <4> QED
        BY <2>4, <4>1, <4>2
    <3>5. ASSUME NEW i \in 1..n + 1, IsRecorded(i)'
          PROVE  /\ scopes'[i].index \in Nat /\ scopes'[i].index + 1 \in DOMAIN stack
                 /\ stack[scopes'[i].index + 1].entry = scopes'[i].entry
                 /\ stack[scopes'[i].index + 1].start = scopes'[i].start
      BY <1>2, <3>1, <3>5 DEF PerfInv, GuardsOK
    <3> QED
      BY <2>3, <2>4, <3>3, <3>4, <3>5 DEF GuardsOK
  <2>7. StackOK' /\ TreeOK' /\ EndedOK' /\ PrintedOK'
    BY <1>3, <2>3 DEF PerfInv, StackOK, TreeOK, ParentOK, IsOpen, EndedOK, PrintedOK
  <2> QED
    BY <2>3, <2>5, <2>6, <2>7 DEF PerfInv
<1>5. CASE ~ (Len(tree) >= PERF_SCOPE_MAX_ENTRIES \/ Len(stack) >= PERF_SCOPE_MAX_DEPTH)
  <2>1. PICK p, r, o, g :
          /\ p = IF stack = << >> THEN 1 ELSE Last(stack).entry
          /\ r = [elapsed |-> 0, depth |-> m, parent |-> p]
          /\ o = [start |-> time, entry |-> N + 1]
          /\ g = [index |-> m, start |-> time, entry |-> N + 1]
    OBVIOUS
  <2>2. /\ tree' = Append(tree, r) /\ stack' = Append(stack, o) /\ scopes' = Append(scopes, g)
        /\ overflow' = overflow /\ shed' = shed
    BY <1>1, <1>5, <2>1 DEF fl_perf_scope_begin
  <2>3. IF m = 0 THEN p = 1 ELSE m \in DOMAIN stack /\ p = stack[m].entry /\ p \in 1..N
    <3>1. stack = << >> <=> m = 0
      BY <1>1, <1>2
    <3>2. m # 0 => m \in 1..m /\ Last(stack) = stack[m]
      BY <1>1 DEF Last
    <3> QED
      BY <1>2, <2>1, <3>1, <3>2 DEF PerfInv, StackOK
  <2>4. p \in Nat
    BY <2>3
  <2>5. r \in PerfEntry /\ r.elapsed = 0 /\ r.depth = m /\ r.parent = p
    BY <2>1, <2>4 DEF PerfEntry
  <2>6. o \in OpenScope /\ o.start = time /\ o.entry = N + 1
    BY <1>2, <2>1 DEF OpenScope
  <2>7. g \in Guard /\ g.index = m /\ g.start = time /\ g.entry = N + 1 /\ N + 1 # unrecorded
    BY <1>2, <2>1 DEF Guard, unrecorded
  <2>8. /\ tree' \in Seq(PerfEntry) /\ DOMAIN tree' = 1..N + 1 /\ tree'[N + 1] = r
        /\ \A i \in 1..N : tree'[i] = tree[i]
        /\ \A i \in 1..N + 1 : i \in 1..N \/ i = N + 1
    BY <1>1, <1>2, <2>2, <2>5, Appended
  <2>9. /\ stack' \in Seq(OpenScope) /\ DOMAIN stack' = 1..m + 1 /\ stack'[m + 1] = o
        /\ \A i \in 1..m : stack'[i] = stack[i]
        /\ \A i \in 1..m + 1 : i \in 1..m \/ i = m + 1
    BY <1>1, <1>2, <2>2, <2>6, Appended
  <2>10. /\ scopes' \in Seq(Guard) /\ DOMAIN scopes' = 1..n + 1 /\ scopes'[n + 1] = g
         /\ \A i \in 1..n : scopes'[i] = scopes[i]
         /\ \A i \in 1..n + 1 : i \in 1..n \/ i = n + 1
    BY <1>1, <1>2, <2>2, <2>7, Appended
  <2>11. TypesOK'
    BY <1>2, <1>3, <2>8, <2>9, <2>10 DEF TypesOK
  <2>12. m + 1 \in 1..m + 1 /\ N + 1 \in 1..N + 1 /\ n + 1 \in 1..n + 1 /\ 1..m \subseteq 1..m + 1
         /\ 1..n \subseteq 1..n + 1 /\ 1..N \subseteq 1..N + 1 /\ N + 1 \notin 1..N /\ m + 1 \notin 1..m
    OBVIOUS
  <2>13. IsRecorded(n + 1)' /\ \A i \in 1..n : IsRecorded(i)' <=> IsRecorded(i)
    BY <2>7, <2>10 DEF IsRecorded
  <2>14. \A i \in 1..n : IsRecorded(i) =>
           /\ scopes[i].index \in Nat /\ scopes[i].index + 1 \in 1..m
           /\ stack[scopes[i].index + 1].entry = scopes[i].entry
           /\ stack[scopes[i].index + 1].start = scopes[i].start
    BY <1>2 DEF PerfInv, GuardsOK
  <2>15. GuardsOK'
    <3>1. ASSUME NEW i \in 1..n + 1, IsRecorded(i)'
          PROVE  /\ scopes'[i].index \in Nat /\ scopes'[i].index + 1 \in 1..m + 1
                 /\ stack'[scopes'[i].index + 1].entry = scopes'[i].entry
                 /\ stack'[scopes'[i].index + 1].start = scopes'[i].start
      <4>1. CASE i \in 1..n
        BY <2>9, <2>10, <2>12, <2>13, <2>14, <3>1, <4>1
      <4>2. CASE i = n + 1
        BY <2>6, <2>7, <2>9, <2>10, <2>12, <4>2
      <4> QED
        BY <2>10, <4>1, <4>2
    <3>2. ASSUME NEW k \in 1..m + 1 PROVE \E i \in 1..n + 1 : IsRecorded(i)' /\ scopes'[i].index + 1 = k
      <4>1. CASE k = m + 1
        BY <2>7, <2>10, <2>12, <2>13, <4>1
      <4>2. CASE k \in 1..m
        <5>1. PICK i \in 1..n : IsRecorded(i) /\ scopes[i].index + 1 = k
          BY <1>2, <4>2 DEF PerfInv, GuardsOK
        <5> QED
          BY <2>10, <2>12, <2>13, <5>1
      <4> QED
        BY <2>9, <4>1, <4>2
    <3>3. ASSUME NEW i \in 1..n + 1, NEW j \in 1..n + 1, i < j, IsRecorded(i)'
          PROVE  \/ IsRecorded(j)' /\ scopes'[i].index < scopes'[j].index
                 \/ scopes'[j].index = unrecorded /\ ~ IsRecorded(j)'
      <4>0. i \in 1..n
        BY <3>3
      <4>1. CASE j = n + 1
        <5>1. scopes[i].index \in Nat /\ scopes[i].index + 1 \in 1..m
          BY <2>13, <2>14, <3>3, <4>0
        <5>2. scopes[i].index < m
          BY <5>1
        <5> QED
          BY <2>7, <2>10, <2>13, <4>0, <4>1, <5>2
      <4>2. CASE j \in 1..n
        <5>1. \/ IsRecorded(j) /\ scopes[i].index < scopes[j].index
              \/ scopes[j].index = unrecorded /\ ~ IsRecorded(j)
          BY <1>2, <2>13, <3>3, <4>0, <4>2 DEF PerfInv, GuardsOK
        <5> QED
          BY <2>10, <2>13, <4>0, <4>2, <5>1
      <4> QED
        BY <2>10, <4>1, <4>2
    <3> QED
      BY <2>9, <2>10, <3>1, <3>2, <3>3 DEF GuardsOK
  <2>16. \A k \in 1..m :
           /\ stack[k] \in OpenScope /\ stack[k].entry \in 1..N /\ stack[k].start <= time
           /\ tree[stack[k].entry].depth = k - 1 /\ tree[stack[k].entry].elapsed = 0
           /\ \A i \in 1..N : i > stack[k].entry => tree[i].depth >= k
    BY <1>2, PerfFacts DEF PerfInv, StackOK
  <2>17. StackOK'
    <3>1. ASSUME NEW k \in 1..m + 1
          PROVE  /\ stack'[k].entry \in 1..N + 1 /\ stack'[k].start <= time
                 /\ tree'[stack'[k].entry].depth = k - 1 /\ tree'[stack'[k].entry].elapsed = 0
                 /\ \A i \in 1..N + 1 : i > stack'[k].entry => tree'[i].depth >= k
      <4>1. CASE k \in 1..m
        <5>1. stack'[k] = stack[k] /\ stack[k].entry \in 1..N /\ tree'[stack[k].entry] = tree[stack[k].entry]
          BY <2>8, <2>9, <2>16, <4>1
        <5>2. ASSUME NEW i \in 1..N + 1, i > stack[k].entry PROVE tree'[i].depth >= k
          <6>1. CASE i \in 1..N
            BY <2>8, <2>16, <4>1, <5>2, <6>1
          <6>2. CASE i = N + 1
            BY <2>5, <2>8, <4>1, <6>2
          <6> QED
            BY <2>8, <6>1, <6>2
        <5> QED
          BY <2>12, <2>16, <4>1, <5>1, <5>2
      <4>2. CASE k = m + 1
        <5>1. stack'[k].entry = N + 1 /\ stack'[k].start = time /\ k - 1 = m
          BY <2>6, <2>9, <4>2
        <5>2. \A i \in 1..N + 1 : ~ (i > N + 1)
          OBVIOUS
        <5>3. time <= time
          BY <1>2
        <5> QED
          BY <2>5, <2>8, <2>12, <5>1, <5>2, <5>3
      <4> QED
        BY <2>9, <4>1, <4>2
    <3>2. ASSUME NEW k \in 1..m + 1, NEW l \in 1..m + 1, k < l PROVE stack'[k].start <= stack'[l].start
      <4>0. k \in 1..m
        BY <3>2
      <4>1. CASE l \in 1..m
        <5>1. stack[k].start <= stack[l].start
          BY <1>2, <3>2, <4>0, <4>1 DEF PerfInv, StackOK
        <5> QED
          BY <2>9, <4>0, <4>1, <5>1
      <4>2. CASE l = m + 1
        BY <2>6, <2>9, <2>16, <4>0, <4>2
      <4> QED
        BY <2>9, <4>1, <4>2
    <3> QED
      BY <1>3, <2>8, <2>9, <3>1, <3>2 DEF StackOK
  <2>18. \A i \in 1..N : IsOpen(i)' <=> IsOpen(i)
    <3> SUFFICES ASSUME NEW i \in 1..N PROVE IsOpen(i)' <=> IsOpen(i)
      OBVIOUS
    <3>1. N + 1 # i
      OBVIOUS
    <3>2. (\E k \in 1..m + 1 : stack'[k].entry = i) <=> (\E k \in 1..m : stack[k].entry = i)
      BY <2>6, <2>9, <2>12, <3>1
    <3> QED
      BY <1>2, <2>9, <3>2 DEF IsOpen
  <2>19. TreeOK'
    <3>1. ASSUME NEW i \in 1..N, tree[i].depth # 0 PROVE ParentOK(i)'
      <4>1. ParentOK(i)
        BY <1>2, <3>1 DEF PerfInv, TreeOK
      <4>2. PICK q \in 1..N : q = tree[i].parent
        BY <1>2, <4>1 DEF ParentOK
      <4>3. /\ q < i /\ tree[q].depth = tree[i].depth - 1
            /\ \A k \in 1..N : q < k /\ k < i => tree[k].depth >= tree[i].depth
            /\ \/ \E k \in 1..m : stack[k].entry = q /\ tree[i].elapsed <= time - stack[k].start
               \/ ~ IsOpen(q) /\ ~ IsOpen(i) /\ tree[i].elapsed <= tree[q].elapsed
        BY <1>2, <4>1, <4>2 DEF ParentOK
      <4>4. tree'[i] = tree[i] /\ tree'[q] = tree[q] /\ (IsOpen(q)' <=> IsOpen(q)) /\ (IsOpen(i)' <=> IsOpen(i))
        BY <2>8, <2>18
      <4>5. \A k \in 1..N + 1 : q < k /\ k < i => k \in 1..N
        BY <4>2
      <4>6. \A k \in 1..N + 1 : q < k /\ k < i => tree'[k].depth >= tree'[i].depth
        BY <2>8, <4>3, <4>4, <4>5
      <4>7. \/ \E k \in 1..m + 1 : stack'[k].entry = q /\ tree'[i].elapsed <= time' - stack'[k].start
            \/ ~ IsOpen(q)' /\ ~ IsOpen(i)' /\ tree'[i].elapsed <= tree'[q].elapsed
        BY <1>3, <2>9, <2>12, <4>3, <4>4
      <4> QED
        BY <2>8, <2>9, <2>12, <4>2, <4>3, <4>4, <4>6, <4>7 DEF ParentOK
    <3>2. ASSUME m # 0 PROVE ParentOK(N + 1)'
      <4>1. /\ m \in 1..m /\ p = stack[m].entry /\ p \in 1..N /\ tree[p].depth = m - 1
            /\ \A i \in 1..N : i > p => tree[i].depth >= m
            /\ stack[m].start <= time /\ stack[m].start \in Nat
        BY <1>2, <2>3, <2>16, <3>2 DEF OpenScope
      <4>2. tree'[p] = tree[p] /\ tree'[N + 1].parent = p /\ tree'[N + 1].depth = m /\ tree'[N + 1].elapsed = 0
        BY <2>5, <2>8, <4>1
      <4>3. ASSUME NEW k \in 1..N + 1, p < k, k < N + 1 PROVE tree'[k].depth >= m
        <5>1. k \in 1..N
          BY <4>3
        <5> QED
          BY <2>8, <4>1, <4>3, <5>1
      <4>4. stack'[m].entry = p /\ 0 <= time - stack'[m].start
        BY <1>2, <2>9, <4>1
      <4>5. p < N + 1
        BY <4>1
      <4> QED
        BY <1>3, <2>8, <2>9, <2>12, <4>1, <4>2, <4>3, <4>4, <4>5 DEF ParentOK
    <3>3. ASSUME NEW i \in 1..N + 1
          PROVE  IF tree'[i].depth = 0 THEN tree'[i].parent = 1 ELSE ParentOK(i)'
      <4>1. CASE i \in 1..N
        BY <1>2, <2>8, <3>1, <4>1 DEF PerfInv, TreeOK
      <4>2. CASE i = N + 1
        BY <2>3, <2>5, <2>8, <3>2, <4>2
      <4> QED
        BY <2>8, <4>1, <4>2
    <3> QED
      BY <2>8, <3>3 DEF TreeOK
  <2>20. EndedOK'
    <3>1. ASSUME NEW i \in 1..N + 1
          PROVE  {e.took : e \in {e \in ended : e.entry = i}} = IF IsOpen(i)' THEN {} ELSE {tree'[i].elapsed}
      <4>1. CASE i \in 1..N
        BY <1>2, <2>8, <2>18, <4>1 DEF PerfInv, EndedOK
      <4>2. CASE i = N + 1
        <5>1. {e \in ended : e.entry = i} = {}
          BY <1>2, <2>12, <4>2
        <5>2. IsOpen(i)'
          BY <2>6, <2>9, <2>12, <4>2 DEF IsOpen
        <5> QED
          BY <5>1, <5>2
      <4> QED
        BY <2>8, <4>1, <4>2
    <3> QED
      BY <1>3, <2>8, <3>1 DEF EndedOK
  <2> QED
    BY <1>3, <2>2, <2>11, <2>15, <2>17, <2>19, <2>20 DEF PerfInv, PrintedOK
<1> QED
  BY <1>4, <1>5
(* The guard of the innermost scope: the top of the stack, or nothing.     *)
LEMMA InnermostGuard ==
  ASSUME PerfInv, NEW n \in Nat, n = Len(scopes), n # 0, NEW m \in Nat, m = Len(stack), NEW g, g = scopes[n]
  PROVE  /\ IsRecorded(n) => /\ m # 0 /\ g.index = m - 1 /\ g.entry = stack[m].entry /\ g.start = stack[m].start
                             /\ \A i \in 1..n - 1 : IsRecorded(i) => scopes[i].index + 1 \in 1..m - 1
         /\ ~ IsRecorded(n) => g.index = unrecorded \/ m = 0
<1>1. DOMAIN scopes = 1..n /\ DOMAIN stack = 1..m /\ n \in 1..n
  BY PerfFacts DEF PerfInv
<1>2. \A i \in 1..n : IsRecorded(i) =>
        /\ scopes[i].index \in Nat /\ scopes[i].index + 1 \in 1..m
        /\ stack[scopes[i].index + 1].entry = scopes[i].entry
        /\ stack[scopes[i].index + 1].start = scopes[i].start
  BY <1>1 DEF PerfInv, GuardsOK
<1>3. \A i \in 1..n : i = n \/ i < n
  OBVIOUS
<1>4. \A i \in 1..n : i < n /\ IsRecorded(i) => \/ IsRecorded(n) /\ scopes[i].index < g.index
                                                \/ g.index = unrecorded /\ ~ IsRecorded(n)
  BY <1>1 DEF PerfInv, GuardsOK
<1>5. \A k \in 1..m : \E i \in 1..n : IsRecorded(i) /\ scopes[i].index + 1 = k
  BY <1>1 DEF PerfInv, GuardsOK
<1>6. ASSUME IsRecorded(n)
      PROVE  /\ m # 0 /\ g.index = m - 1 /\ g.entry = stack[m].entry /\ g.start = stack[m].start
             /\ \A i \in 1..n - 1 : IsRecorded(i) => scopes[i].index + 1 \in 1..m - 1
  <2>1. g.index \in Nat /\ g.index + 1 \in 1..m
    BY <1>1, <1>2, <1>6
  <2>2. m \in 1..m /\ m # 0
    BY <2>1
  <2>3. PICK i \in 1..n : IsRecorded(i) /\ scopes[i].index + 1 = m
    BY <1>5, <2>2
  <2>4. scopes[i].index \in Nat
    BY <1>2, <2>3
  <2>5. i = n
    BY <1>3, <1>4, <1>6, <2>1, <2>3, <2>4
  <2>6. g.index = m - 1
    BY <2>1, <2>3, <2>5
  <2>7. ASSUME NEW j \in 1..n - 1, IsRecorded(j) PROVE scopes[j].index + 1 \in 1..m - 1
    <3>1. j \in 1..n /\ j < n
      BY <2>7
    <3>2. scopes[j].index \in Nat /\ scopes[j].index < m - 1
      BY <1>2, <1>4, <1>6, <2>6, <2>7, <3>1
    <3> QED
      BY <3>2
  <2> QED
    BY <1>1, <1>2, <1>6, <2>2, <2>3, <2>5, <2>6, <2>7
<1>7. ASSUME ~ IsRecorded(n), g.index # unrecorded PROVE m = 0
  <2> SUFFICES ASSUME m # 0 PROVE FALSE
    OBVIOUS
  <2>1. m \in 1..m
    OBVIOUS
  <2>2. PICK i \in 1..n : IsRecorded(i)
    BY <1>5, <2>1
  <2> QED
    BY <1>3, <1>4, <1>7, <2>2
<1> QED
  BY <1>6, <1>7

(* The scopes that are left keep their order.                              *)
LEMMA GuardsShorten ==
  ASSUME PerfInv, NEW n \in Nat, n = Len(scopes), n # 0, NEW m \in Nat, DOMAIN stack' = 1..m,
         m <= Len(stack), scopes' = Front(scopes), \A k \in 1..m : stack'[k] = stack[k],
         \A i \in 1..n - 1 : IsRecorded(i) => scopes[i].index + 1 \in 1..m,
         IsRecorded(n) => m < scopes[n].index + 1
  PROVE  GuardsOK'
<1>1. /\ scopes \in Seq(Guard) /\ DOMAIN scopes = 1..n /\ Len(stack) \in Nat /\ DOMAIN stack = 1..Len(stack)
  BY PerfFacts DEF PerfInv, TypesOK
<1>2. /\ DOMAIN scopes' = 1..n - 1
      /\ \A i \in 1..n - 1 : scopes'[i] = scopes[i]
      /\ \A i \in 1..n : i \in 1..n - 1 \/ i = n
  <2>1. scopes \in Seq(Guard) /\ n = Len(scopes) /\ n # 0 /\ scopes' = Front(scopes)
    BY <1>1
  <2> HIDE <1>1
  <2> QED
    BY <2>1, Shortened
<1>3. 1..n - 1 \subseteq 1..n /\ 1..m \subseteq 1..Len(stack)
  BY <1>1
<1>4. \A i \in 1..n - 1 : IsRecorded(i)' <=> IsRecorded(i)
  BY <1>2 DEF IsRecorded
<1>5. ASSUME NEW i \in 1..n - 1, IsRecorded(i)'
      PROVE  /\ scopes'[i].index \in Nat /\ scopes'[i].index + 1 \in 1..m
             /\ stack'[scopes'[i].index + 1].entry = scopes'[i].entry
             /\ stack'[scopes'[i].index + 1].start = scopes'[i].start
  <2>1. IsRecorded(i) /\ scopes'[i] = scopes[i]
    BY <1>2, <1>4, <1>5
  <2>2. /\ scopes[i].index \in Nat
        /\ stack[scopes[i].index + 1].entry = scopes[i].entry
        /\ stack[scopes[i].index + 1].start = scopes[i].start
    BY <1>1, <1>3, <2>1 DEF PerfInv, GuardsOK
  <2> QED
    BY <2>1, <2>2
<1>6. ASSUME NEW k \in 1..m PROVE \E i \in 1..n - 1 : IsRecorded(i)' /\ scopes'[i].index + 1 = k
  <2>1. PICK i \in 1..n : IsRecorded(i) /\ scopes[i].index + 1 = k
    BY <1>1, <1>3 DEF PerfInv, GuardsOK
  <2>2. i # n
    BY <2>1
  <2>3. i \in 1..n - 1
    BY <1>2, <2>2
  <2> QED
    BY <1>2, <1>4, <2>1, <2>3
<1>7. ASSUME NEW i \in 1..n - 1, NEW j \in 1..n - 1, i < j, IsRecorded(i)'
      PROVE  \/ IsRecorded(j)' /\ scopes'[i].index < scopes'[j].index
             \/ scopes'[j].index = unrecorded /\ ~ IsRecorded(j)'
  <2>1. \/ IsRecorded(j) /\ scopes[i].index < scopes[j].index
        \/ scopes[j].index = unrecorded /\ ~ IsRecorded(j)
    BY <1>1, <1>3, <1>4, <1>7 DEF PerfInv, GuardsOK
  <2> QED
    BY <1>2, <1>4, <2>1
<1> QED
  BY <1>2, <1>5, <1>6, <1>7 DEF GuardsOK

LEMMA EndKeeps == ASSUME PerfInv, fl_perf_scope_end PROVE PerfInv'
<1>1. PICK N, m, n \in Nat : N = Len(tree) /\ m = Len(stack) /\ n = Len(scopes)
  BY PerfFacts DEF PerfInv
<1>2. /\ tree \in Seq(PerfEntry) /\ stack \in Seq(OpenScope) /\ scopes \in Seq(Guard) /\ time \in Nat
      /\ DOMAIN tree = 1..N /\ DOMAIN stack = 1..m /\ DOMAIN scopes = 1..n
      /\ \A e \in ended : e.entry \in 1..N
  BY <1>1, PerfFacts DEF PerfInv, TypesOK
<1>3. time' = time /\ printed' = printed /\ overflow' = overflow /\ shed' = shed /\ scopes' = Front(scopes) /\ n # 0
  BY <1>1, <1>2 DEF fl_perf_scope_end
<1>4. PICK g \in Guard : g = scopes[n] /\ g = Last(scopes)
  <2>1. n \in 1..n /\ Last(scopes) = scopes[n]
    BY <1>1, <1>3 DEF Last
  <2> QED
    BY <1>2, <2>1, PerfFacts DEF PerfInv
<1>5. /\ IsRecorded(n) => /\ m # 0 /\ g.index = m - 1 /\ g.entry = stack[m].entry /\ g.start = stack[m].start
                          /\ \A i \in 1..n - 1 : IsRecorded(i) => scopes[i].index + 1 \in 1..m - 1
      /\ ~ IsRecorded(n) => g.index = unrecorded \/ m = 0
  <2>1. n = Len(scopes) /\ n # 0 /\ m = Len(stack) /\ g = scopes[n]
    BY <1>1, <1>3, <1>4
  <2> QED
    BY <2>1, InnermostGuard
<1>6. stack = << >> <=> m = 0
  BY <1>1, <1>2
<1>7. scopes' \in Seq(Guard)
  BY <1>1, <1>2, <1>3, Shortened
<1>8. CASE ~ IsRecorded(n)
  <2>1. tree' = tree /\ stack' = stack /\ ended' = ended
    BY <1>1, <1>4, <1>5, <1>6, <1>8 DEF fl_perf_scope_end, IsRecorded
  <2>2. GuardsOK'
    <3>1. \A i \in 1..n - 1 : IsRecorded(i) => scopes[i].index + 1 \in 1..m
      BY <1>2 DEF PerfInv, GuardsOK
    <3>2. DOMAIN stack' = 1..m /\ m <= Len(stack) /\ \A k \in 1..m : stack'[k] = stack[k]
      BY <1>1, <1>2, <2>1
    <3> QED
      BY <1>1, <1>3, <1>8, <3>1, <3>2, GuardsShorten
  <2>3. TypesOK' /\ StackOK' /\ TreeOK' /\ EndedOK' /\ PrintedOK'
    BY <1>3, <1>7, <2>1 DEF PerfInv, TypesOK, StackOK, TreeOK, ParentOK, IsOpen, EndedOK, PrintedOK
  <2> QED
    BY <1>3, <2>2, <2>3 DEF PerfInv
<1>9. CASE IsRecorded(n)
  <2>1. PICK p, d, s : p = stack[m].entry /\ s = stack[m].start /\ d = time - s
    OBVIOUS
  <2>2. /\ p \in 1..N /\ tree[p].depth = m - 1 /\ tree[p].elapsed = 0 /\ tree[p] \in PerfEntry
        /\ s \in Nat /\ s <= time /\ d \in Nat /\ m \in 1..m
        /\ \A i \in 1..N : i > p => tree[i].depth >= m
    <3>1. m \in 1..m /\ stack[m] \in OpenScope
      BY <1>2, <1>5, <1>9, PerfFacts DEF PerfInv
    <3>2. s \in Nat
      BY <2>1, <3>1 DEF OpenScope
    <3>3. /\ p \in 1..N /\ tree[p].depth = m - 1 /\ tree[p].elapsed = 0 /\ s <= time
          /\ \A i \in 1..N : i > p => tree[i].depth >= m
      BY <1>2, <2>1, <3>1 DEF PerfInv, StackOK
    <3>4. tree[p] \in PerfEntry
      BY <1>2, <3>3, PerfFacts DEF PerfInv
    <3> QED
      BY <1>2, <2>1, <3>1, <3>2, <3>3, <3>4
  <2>3. g.index # unrecorded /\ g.entry # unrecorded
    BY <1>2, <1>4, <1>5, <1>9 DEF unrecorded, IsRecorded
  <2>4. /\ tree' = [tree EXCEPT ![p].elapsed = d] /\ stack' = Front(stack)
        /\ ended' = ended \cup {[entry |-> p, took |-> d]}
    <3>1. Last(stack) = stack[m]
      BY <1>1 DEF Last
    <3> QED
      BY <1>1, <1>4, <1>5, <1>6, <1>9, <2>1, <2>3, <3>1 DEF fl_perf_scope_end
  <2>5. /\ stack' \in Seq(OpenScope) /\ DOMAIN stack' = 1..m - 1
        /\ \A i \in 1..m - 1 : stack'[i] = stack[i]
        /\ \A i \in 1..m : i \in 1..m - 1 \/ i = m
    BY <1>1, <1>2, <1>5, <1>9, <2>4, Shortened
  <2>6. PICK r : r = [tree[p] EXCEPT !.elapsed = d]
    OBVIOUS
  <2>7. r \in PerfEntry /\ r.elapsed = d /\ r.depth = tree[p].depth /\ r.parent = tree[p].parent
    BY <2>2, <2>6 DEF PerfEntry
  <2>8. /\ tree' \in Seq(PerfEntry) /\ DOMAIN tree' = 1..N /\ tree'[p] = r
        /\ \A i \in 1..N : i # p => tree'[i] = tree[i]
    BY <1>1, <1>2, <2>2, <2>4, <2>6, <2>7
  <2>9. \A i \in 1..N : tree'[i].depth = tree[i].depth /\ tree'[i].parent = tree[i].parent
    BY <2>7, <2>8
  <2>10. 1..m - 1 \subseteq 1..m /\ m \notin 1..m - 1
    OBVIOUS
  <2>11. \A k \in 1..m : /\ stack[k] \in OpenScope /\ stack[k].entry \in 1..N /\ stack[k].start <= time
                         /\ tree[stack[k].entry].depth = k - 1 /\ tree[stack[k].entry].elapsed = 0
                         /\ \A i \in 1..N : i > stack[k].entry => tree[i].depth >= k
    BY <1>2, PerfFacts DEF PerfInv, StackOK
  <2>12. \A k \in 1..m - 1 : stack[k].entry # p
    BY <2>2, <2>10, <2>11
  <2>13. TypesOK'
    <3>1. \A e \in ended' : e.entry \in 1..N
      BY <1>2, <2>2, <2>4
    <3> QED
      BY <1>2, <1>3, <1>7, <2>5, <2>8, <3>1 DEF TypesOK
  <2>14. GuardsOK'
    <3>1. m - 1 \in Nat /\ m - 1 <= Len(stack) /\ m - 1 < scopes[n].index + 1
      BY <1>1, <1>4, <1>5, <1>9
    <3> QED
      BY <1>1, <1>3, <1>5, <1>9, <2>5, <3>1, GuardsShorten
  <2>15. StackOK'
    <3>1. ASSUME NEW k \in 1..m - 1
          PROVE  /\ stack'[k].entry \in 1..N /\ stack'[k].start <= time
                 /\ tree'[stack'[k].entry].depth = k - 1 /\ tree'[stack'[k].entry].elapsed = 0
                 /\ \A i \in 1..N : i > stack'[k].entry => tree'[i].depth >= k
      BY <2>5, <2>8, <2>9, <2>10, <2>11, <2>12
    <3>2. \A k, l \in 1..m - 1 : k < l => stack'[k].start <= stack'[l].start
      BY <1>2, <2>5, <2>10 DEF PerfInv, StackOK
    <3> QED
      BY <1>3, <2>5, <2>8, <3>1, <3>2 DEF StackOK
  <2>16. ~ IsOpen(p)' /\ \A i \in 1..N : i # p => (IsOpen(i)' <=> IsOpen(i))
    <3>1. ~ IsOpen(p)'
      BY <2>5, <2>12 DEF IsOpen
    <3>2. ASSUME NEW i \in 1..N, i # p
          PROVE  (\E k \in 1..m - 1 : stack'[k].entry = i) <=> (\E k \in 1..m : stack[k].entry = i)
      BY <2>1, <2>5, <2>10, <3>2
    <3> QED
      BY <1>2, <2>5, <3>1, <3>2 DEF IsOpen
  <2>17. IsOpen(p)
    BY <1>2, <2>1, <2>2 DEF IsOpen
  <2>18. TreeOK'
    <3>1. ASSUME NEW i \in 1..N, tree[i].depth # 0 PROVE ParentOK(i)'
      <4>1. ParentOK(i) /\ tree[i] \in PerfEntry
        BY <1>2, <3>1, PerfFacts DEF PerfInv, TreeOK
      <4>2. PICK q \in 1..N : q = tree[i].parent
        BY <1>2, <4>1 DEF ParentOK
      <4>3. /\ q < i /\ tree[q].depth = tree[i].depth - 1
            /\ \A k \in 1..N : q < k /\ k < i => tree[k].depth >= tree[i].depth
            /\ \/ \E k \in 1..m : stack[k].entry = q /\ tree[i].elapsed <= time - stack[k].start
               \/ ~ IsOpen(q) /\ ~ IsOpen(i) /\ tree[i].elapsed <= tree[q].elapsed
        BY <1>2, <4>1, <4>2 DEF ParentOK
      <4>4. q # i /\ tree[i].depth \in Nat
        BY <4>1, <4>3 DEF PerfEntry
      <4>5. \/ \E k \in 1..m - 1 : stack'[k].entry = q /\ tree'[i].elapsed <= time - stack'[k].start
            \/ ~ IsOpen(q)' /\ ~ IsOpen(i)' /\ tree'[i].elapsed <= tree'[q].elapsed
        <5>1. CASE i = p
          <6>1. PICK k \in 1..m : stack[k].entry = q
            BY <2>17, <4>3, <5>1
          <6>2. k \in 1..m - 1 /\ k < m
            BY <2>1, <2>5, <4>4, <5>1, <6>1
          <6>3. stack[k].start <= s /\ stack[k].start \in Nat
            BY <1>2, <2>1, <2>2, <2>11, <6>1, <6>2 DEF PerfInv, StackOK, OpenScope
          <6>4. d <= time - stack[k].start
            BY <1>2, <2>1, <2>2, <6>3
          <6> QED
            BY <2>5, <2>7, <2>8, <5>1, <6>1, <6>2, <6>4
        <5>2. CASE q = p
          <6>1. \E k \in 1..m : stack[k].entry = p /\ tree[i].elapsed <= time - stack[k].start
            BY <2>17, <4>3, <5>2
          <6>2. tree[i].elapsed <= d
            BY <2>1, <2>5, <2>12, <6>1
          <6>3. ~ IsOpen(i)
            <7> SUFFICES ASSUME NEW k \in 1..m, stack[k].entry = i PROVE FALSE
              BY <1>2 DEF IsOpen
            <7>1. tree[i].depth = k - 1 /\ tree[i].depth = m
              BY <2>2, <2>11, <4>3, <4>4, <5>2
            <7> QED
              BY <7>1
          <6> QED
            BY <2>7, <2>8, <2>16, <4>4, <5>2, <6>2, <6>3
        <5>3. CASE i # p /\ q # p
          <6>1. tree'[i] = tree[i] /\ tree'[q] = tree[q] /\ (IsOpen(q)' <=> IsOpen(q)) /\ (IsOpen(i)' <=> IsOpen(i))
            BY <2>8, <2>16, <5>3
          <6>2. ASSUME NEW k \in 1..m, stack[k].entry = q, tree[i].elapsed <= time - stack[k].start
                PROVE  k \in 1..m - 1 /\ stack'[k].entry = q /\ tree'[i].elapsed <= time - stack'[k].start
            BY <2>1, <2>5, <5>3, <6>1, <6>2
          <6> QED
            BY <4>3, <6>1, <6>2
        <5> QED
          BY <5>1, <5>2, <5>3
      <4> QED
        BY <1>3, <2>5, <2>8, <2>9, <4>2, <4>3, <4>5 DEF ParentOK
    <3>2. ASSUME NEW i \in 1..N
          PROVE  IF tree'[i].depth = 0 THEN tree'[i].parent = 1 ELSE ParentOK(i)'
      BY <1>2, <2>9, <3>1 DEF PerfInv, TreeOK
    <3> QED
      BY <2>8, <3>2 DEF TreeOK
  <2>19. EndedOK'
    <3>1. ASSUME NEW i \in 1..N
          PROVE  {e.took : e \in {e \in ended' : e.entry = i}} = IF IsOpen(i)' THEN {} ELSE {tree'[i].elapsed}
      <4>1. {e.took : e \in {e \in ended : e.entry = i}} = IF IsOpen(i) THEN {} ELSE {tree[i].elapsed}
        BY <1>2 DEF PerfInv, EndedOK
      <4>2. PICK x : x = [entry |-> p, took |-> d]
        OBVIOUS
      <4>3. x.entry = p /\ x.took = d /\ ended' = ended \cup {x}
        BY <2>4, <4>2
      <4>4. CASE i # p
        <5>1. {e \in ended' : e.entry = i} = {e \in ended : e.entry = i}
          BY <4>3, <4>4
        <5> QED
          BY <2>8, <2>16, <4>1, <4>4, <5>1
      <4>5. CASE i = p
        <5>1. {e.took : e \in {e \in ended : e.entry = i}} = {}
          BY <2>17, <4>1, <4>5
        <5>2. {e \in ended : e.entry = i} = {}
          BY <5>1
        <5>3. {e \in ended' : e.entry = i} = {x}
          BY <4>3, <4>5, <5>2
        <5>4. {e.took : e \in {x}} = {d}
          BY <4>3
        <5> QED
          BY <2>7, <2>8, <2>16, <4>5, <5>3, <5>4
      <4> QED
        BY <4>4, <4>5
    <3> QED
      BY <2>8, <3>1 DEF EndedOK
  <2>20. PrintedOK'
    BY <1>3, <2>4 DEF PerfInv, PrintedOK
  <2> QED
    BY <1>3, <2>13, <2>14, <2>15, <2>18, <2>19, <2>20 DEF PerfInv
<1> QED
  BY <1>8, <1>9

LEMMA ForgetKeeps == ASSUME PerfInv, Forget PROVE PerfInv'
<1>1. /\ tree' = << >> /\ stack' = << >> /\ overflow' = FALSE /\ ended' = {} /\ shed' = FALSE /\ printed' = {}
      /\ scopes' = [i \in DOMAIN scopes |-> [scopes[i] EXCEPT !.entry = unrecorded]] /\ time' = time
  BY DEF Forget
<1>2. \A i \in DOMAIN scopes : scopes[i] \in Guard
  BY PerfFacts DEF PerfInv
<1>3. \A i \in DOMAIN scopes : [scopes[i] EXCEPT !.entry = unrecorded] \in Guard
  BY <1>2 DEF Guard
<1>4. scopes' \in Seq(Guard) /\ DOMAIN scopes' = DOMAIN scopes
  <2>1. PICK n \in Nat : DOMAIN scopes = 1..n
    BY PerfFacts DEF PerfInv
  <2> QED
    BY <1>1, <1>3, <2>1
<1>5. \A i \in DOMAIN scopes' : ~ IsRecorded(i)'
  BY <1>1, <1>2 DEF IsRecorded, Guard
<1>6. DOMAIN stack' = {} /\ DOMAIN tree' = {}
  BY <1>1
<1>7. TypesOK'
  BY <1>1, <1>4 DEF PerfInv, TypesOK
<1>8. GuardsOK'
  BY <1>5, <1>6 DEF GuardsOK
<1>9. StackOK' /\ TreeOK' /\ EndedOK' /\ PrintedOK'
  BY <1>1, <1>6 DEF StackOK, TreeOK, EndedOK, PrintedOK
<1> QED
  BY <1>1, <1>7, <1>8, <1>9 DEF PerfInv

LEMMA TableStays ==
  ASSUME TypesOK, GuardsOK, StackOK, TreeOK, EndedOK, UNCHANGED <<tree, stack, scopes, time, ended>>
  PROVE  TypesOK' /\ GuardsOK' /\ StackOK' /\ TreeOK' /\ EndedOK'
<1>1. tree' = tree /\ stack' = stack /\ scopes' = scopes /\ time' = time /\ ended' = ended
  OBVIOUS
<1>2. TypesOK'
  BY <1>1 DEF TypesOK
<1>3. GuardsOK'
  BY <1>1 DEF GuardsOK, IsRecorded
<1>4. StackOK'
  BY <1>1 DEF StackOK
<1>5. TreeOK'
  <2>1. \A i : ParentOK(i)' <=> ParentOK(i)
    BY <1>1 DEF ParentOK, IsOpen
  <2> QED
    BY <1>1, <2>1 DEF TreeOK
<1>6. EndedOK'
  BY <1>1 DEF EndedOK, IsOpen
<1> QED
  BY <1>2, <1>3, <1>4, <1>5, <1>6

LEMMA FrameEndKeeps == ASSUME PerfInv, fl_perf_scope_frame_end PROVE PerfInv'
<1>1. /\ UNCHANGED <<tree, stack, overflow, scopes, time, ended, shed>>
      /\ tree # << >> /\ tree[1].elapsed > PERF_SCOPE_FRAME_BUDGET_NS
  BY DEF fl_perf_scope_frame_end
<1>2. 1 \in DOMAIN tree
  BY <1>1, PerfFacts DEF PerfInv, TypesOK
<1>3. ~ IsOpen(1)
  BY <1>1, <1>2, PerfAssumption DEF PerfInv, StackOK, IsOpen
<1>4. {e.took : e \in {e \in ended : e.entry = 1}} = {tree[1].elapsed}
  BY <1>2, <1>3 DEF PerfInv, EndedOK
<1>5. PICK e \in ended : e.entry = 1 /\ e.took = tree[1].elapsed
  BY <1>4
<1>6. TypesOK' /\ GuardsOK' /\ StackOK' /\ TreeOK' /\ EndedOK' /\ overflow' = shed'
  BY <1>1, TableStays DEF PerfInv
<1>7. PrintedOK'
  BY <1>1, <1>2, <1>5 DEF PrintedOK
<1> QED
  BY <1>6, <1>7 DEF PerfInv

LEMMA TickKeeps == ASSUME PerfInv, TimePasses PROVE PerfInv'
<1>1. UNCHANGED <<tree, stack, overflow, scopes, ended, shed, printed>> /\ time' = time + 1 /\ time \in Nat
  BY DEF TimePasses, PerfInv, TypesOK
<1>2. \A k \in DOMAIN stack : stack[k].start \in Nat /\ stack[k].start <= time
  BY PerfFacts DEF PerfInv, StackOK, OpenScope
<1>3. \A i \in DOMAIN tree : tree[i].elapsed \in Nat
  BY PerfFacts DEF PerfInv, PerfEntry
<1>4. TypesOK' /\ GuardsOK' /\ EndedOK' /\ PrintedOK'
  <2>1. TypesOK'
    BY <1>1 DEF PerfInv, TypesOK
  <2>2. GuardsOK'
    BY <1>1 DEF PerfInv, GuardsOK, IsRecorded
  <2>3. EndedOK'
    BY <1>1 DEF PerfInv, EndedOK, IsOpen
  <2>4. PrintedOK'
    BY <1>1 DEF PerfInv, PrintedOK
  <2> QED
    BY <2>1, <2>2, <2>3, <2>4
<1>5. StackOK'
  BY <1>1, <1>2 DEF PerfInv, StackOK
<1>6. ASSUME NEW i \in DOMAIN tree, ParentOK(i) PROVE ParentOK(i)'
  <2>1. ASSUME NEW k \in DOMAIN stack, tree[i].elapsed <= time - stack[k].start
        PROVE  tree[i].elapsed <= time' - stack[k].start
    BY <1>1, <1>2, <1>3, <2>1
  <2> QED
    BY <1>1, <1>6, <2>1 DEF ParentOK, IsOpen
<1>7. TreeOK'
  BY <1>1, <1>6 DEF PerfInv, TreeOK
<1> QED
  BY <1>1, <1>4, <1>5, <1>7 DEF PerfInv

LEMMA PerfStarts == PerfInit => PerfInv
<1> SUFFICES ASSUME PerfInit PROVE PerfInv
  OBVIOUS
<1>1. DOMAIN tree = {} /\ DOMAIN stack = {} /\ DOMAIN scopes = {}
  BY DEF PerfInit
<1>2. TypesOK
  BY DEF PerfInit, TypesOK
<1> QED
  BY <1>1, <1>2 DEF PerfInit, PerfInv, GuardsOK, StackOK, TreeOK, EndedOK, PrintedOK

LEMMA PerfSteps == ASSUME PerfInv, [PerfNext]_perf_vars PROVE PerfInv'
<1>1. ASSUME UNCHANGED <<tree, stack, overflow, scopes, time, ended, shed, printed>> PROVE PerfInv'
  BY <1>1, TableStays DEF PerfInv, PrintedOK
<1>2. ASSUME UNCHANGED perf_vars PROVE PerfInv'
  BY <1>1, <1>2 DEF perf_vars
<1>3. ASSUME fl_perf_scope_init PROVE PerfInv'
  BY <1>1, <1>3 DEF fl_perf_scope_init
<1> QED
  BY <1>2, <1>3, BeginKeeps, EndKeeps, ForgetKeeps, FrameEndKeeps, TickKeeps
     DEF PerfNext, fl_perf_scope_frame_begin, fl_perf_scope_destroy

LEMMA LastIsMax == ASSUME NEW S, S \subseteq Int, NEW m \in S, \A k \in S : m >= k PROVE m = Max(S)
<1>1. \A k \in S : k <= m
  OBVIOUS
<1>2. Max(S) \in S /\ \A k \in S : Max(S) >= k
  BY <1>1 DEF Max
<1>3. PICK x \in S : x = Max(S)
  BY <1>2
<1>4. x <= m /\ m <= x /\ x \in Int /\ m \in Int
  BY <1>1, <1>2, <1>3
<1> QED
  BY <1>3, <1>4

LEMMA InvariantSaysScopes == PerfInv => ScopesAreTheirs
<1> SUFFICES ASSUME PerfInv PROVE ScopesAreTheirs
  OBVIOUS
<1>1. PICK mine : mine = {i \in DOMAIN scopes : scopes[i].entry # unrecorded}
  OBVIOUS
<1>2. \A i \in mine : i \in DOMAIN scopes /\ IsRecorded(i)
  BY <1>1 DEF IsRecorded
<1>3. DOMAIN stack = {scopes[i].index + 1 : i \in mine}
  <2>1. ASSUME NEW k \in DOMAIN stack PROVE \E i \in mine : k = scopes[i].index + 1
    BY <1>1 DEF PerfInv, GuardsOK, IsRecorded
  <2>2. \A i \in mine : scopes[i].index + 1 \in DOMAIN stack
    BY <1>2 DEF PerfInv, GuardsOK
  <2> QED
    BY <2>1, <2>2
<1>4. \A i \in mine : stack[scopes[i].index + 1].entry = scopes[i].entry
  BY <1>2 DEF PerfInv, GuardsOK
<1>5. \A i, j \in mine : i < j => scopes[i].index < scopes[j].index
  BY <1>2 DEF PerfInv, GuardsOK
<1>6. \A i \in DOMAIN tree :
        {e.took : e \in {e \in ended : e.entry = i}}
          = IF \E k \in DOMAIN stack : stack[k].entry = i THEN {} ELSE {tree[i].elapsed}
  BY DEF PerfInv, EndedOK, IsOpen
<1>7. overflow = shed
  BY DEF PerfInv
<1> QED
  BY <1>1, <1>3, <1>4, <1>5, <1>6, <1>7 DEF ScopesAreTheirs

LEMMA InvariantSaysPreorder == PerfInv => TreesArePreorder
<1> SUFFICES ASSUME PerfInv PROVE TreesArePreorder
  OBVIOUS
<1>1. ASSUME NEW i \in DOMAIN tree, tree[i].depth # 0
      PROVE  /\ tree[i].parent = Max({k \in 1..i - 1 : tree[k].depth < tree[i].depth})
             /\ tree[tree[i].parent].depth = tree[i].depth - 1
             /\ (\E k \in DOMAIN stack : stack[k].entry = tree[i].parent)
                  \/ tree[i].elapsed <= tree[tree[i].parent].elapsed
  <2>1. ParentOK(i)
    BY <1>1 DEF PerfInv, TreeOK
  <2>2. PICK N \in Nat : DOMAIN tree = 1..N
    BY PerfFacts DEF PerfInv
  <2>3. PICK p \in 1..N : p = tree[i].parent
    BY <2>1, <2>2 DEF ParentOK
  <2>4. /\ p < i /\ tree[p].depth = tree[i].depth - 1
        /\ \A k \in 1..N : p < k /\ k < i => tree[k].depth >= tree[i].depth
    BY <2>1, <2>2, <2>3 DEF ParentOK
  <2>5. \A k \in 1..N : tree[k].depth \in Nat
    BY <2>2, PerfFacts DEF PerfInv, PerfEntry
  <2>6. PICK above : above = {k \in 1..i - 1 : tree[k].depth < tree[i].depth}
    OBVIOUS
  <2>7. i \in 1..N /\ tree[i].depth \in Nat
    BY <1>1, <2>2, <2>5
  <2>8. p \in above
    BY <2>4, <2>6, <2>7
  <2>9. \A k \in above : p >= k
    <3> SUFFICES ASSUME NEW k \in above, ~ (p >= k) PROVE FALSE
      OBVIOUS
    <3>1. k \in 1..i - 1 /\ tree[k].depth < tree[i].depth
      BY <2>6
    <3>2. k \in 1..N /\ p < k /\ k < i
      BY <2>7, <3>1
    <3>3. tree[k].depth >= tree[i].depth /\ tree[k].depth \in Nat
      BY <2>4, <2>5, <3>2
    <3> QED
      BY <2>7, <3>1, <3>3
  <2>10. p = Max(above)
    <3>1. above \subseteq Int
      BY <2>6
    <3> QED
      BY <2>8, <2>9, <3>1, LastIsMax
  <2>11. (\E k \in DOMAIN stack : stack[k].entry = p) \/ tree[i].elapsed <= tree[p].elapsed
    BY <2>1, <2>3 DEF ParentOK
  <2> QED
    BY <2>3, <2>4, <2>6, <2>10, <2>11
<1>2. \A i \in DOMAIN tree : tree[i].depth = 0 => tree[i].parent = 1
  BY DEF PerfInv, TreeOK
<1> QED
  BY <1>1, <1>2 DEF TreesArePreorder, PerfInv, PrintedOK

(* ScopesAreTheirsAlways: for any depth and number of entries, whatever    *)
(* frames begin in between, a guard ends its own entry and no other and    *)
(* the entry has its time (perf_scope.c:18-79).                            *)
THEOREM ScopesAreTheirsAlways == PerfSpec => []ScopesAreTheirs
<1>1. PerfInit => PerfInv
  BY PerfStarts
<1>2. PerfInv /\ [PerfNext]_perf_vars => PerfInv'
  BY PerfSteps
<1>3. PerfInv => ScopesAreTheirs
  BY InvariantSaysScopes
<1> QED
  BY <1>1, <1>2, <1>3, PTL DEF PerfSpec

(* TreesArePreorderAlways: and the entries of a frame are a tree in the    *)
(* order they are printed (perf_scope.c:83-125).                           *)
THEOREM TreesArePreorderAlways == PerfSpec => []TreesArePreorder
<1>1. PerfInit => PerfInv
  BY PerfStarts
<1>2. PerfInv /\ [PerfNext]_perf_vars => PerfInv'
  BY PerfSteps
<1>3. PerfInv => TreesArePreorder
  BY InvariantSaysPreorder
<1> QED
  BY <1>1, <1>2, <1>3, PTL DEF PerfSpec

-----------------------------------------------------------------------------
(***************************************************************************)
(* Proofs about the counters, for any threads, names and capacity.  Names  *)
(* are set once, under the mutex and on the last counter, so a walk passes *)
(* all that had the name before any that got it since.                     *)
(***************************************************************************)

Counter == [value : Nat, enabled : BOOLEAN,
            name : CounterNames \cup {UINT32_MAX}, category : Categories \cup {UINT32_MAX}]

IsRegistration(c) ==
  /\ c = [op |-> c.op, id |-> c.id, name |-> c.name, category |-> c.category]
  /\ c.name \in CounterNames /\ c.category \in Categories
IsSearch(c) ==
  /\ c = [op |-> c.op, at |-> c.at, name |-> c.name, category |-> c.category, id |-> c.id, known |-> c.known]
  /\ c.at \in Nat \ {0} /\ c.known \subseteq Ids /\ c.name \in CounterNames
IsSwitch(c) ==
  /\ c = [op |-> c.op, at |-> c.at, category |-> c.category, enabled |-> c.enabled, known |-> c.known]
  /\ c.at \in Nat \ {0} /\ c.category \in Categories /\ c.enabled \in BOOLEAN

RegisterOK(t, c) ==
  /\ IsRegistration(c) /\ stats_lock = t
  /\ c.id = Len(counters) /\ c.id \in Ids
  /\ counters[c.id].name = UINT32_MAX /\ counters[c.id].category = UINT32_MAX
RegisteredOK(c) ==
  IsRegistration(c) /\ (c.id # UINT32_MAX => c.id \in Ids /\ Has(c.id, c.name, c.category))
FindOK(c) ==
  /\ IsSearch(c) /\ c.id = UINT32_MAX
  /\ \A k \in c.known : k >= c.at /\ Has(k, c.name, c.category)
  /\ \A i \in Ids : Has(i, c.name, c.category) => i \in c.known \/ \A k \in c.known : k < i
FoundOK(c) ==
  /\ IsSearch(c)
  /\ c.id # UINT32_MAX => c.id \in Ids /\ Has(c.id, c.name, c.category)
  /\ c.known # {} => c.id = Min(c.known)

(* The switch of the walk has been made, and still holds if it was the last*)
Made(c, k) ==
  changes[k[1]] >= k[2] + 1 /\ (changes[k[1]] = k[2] + 1 => counters[k[1]].enabled = c.enabled)
SwitchOK(c) ==
  /\ IsSwitch(c)
  /\ \A k \in c.known : /\ k[1] \in Ids /\ k[2] \in Nat /\ counters[k[1]].category = c.category
                        /\ changes[k[1]] >= k[2] /\ (k[1] < c.at => Made(c, k))
SwitchedOK(c) ==
  IsSwitch(c) /\ \A k \in c.known : /\ k[1] \in Ids /\ k[2] \in Nat /\ counters[k[1]].category = c.category
                                    /\ Made(c, k)

CallOK(t) ==
  /\ call[t].op = "register" => RegisterOK(t, call[t])
  /\ call[t].op = "registered" => RegisteredOK(call[t])
  /\ call[t].op = "find" => FindOK(call[t])
  /\ call[t].op = "found" => FoundOK(call[t])
  /\ call[t].op = "switch" => SwitchOK(call[t])
  /\ call[t].op = "switched" => SwitchedOK(call[t])
  /\ call[t].op = "add" => call[t].id \in Ids

Registers(t) == call[t].op \in {"register", "registered"}
Apart(t, u) == Registers(t) /\ Registers(u) /\ call[t].id # UINT32_MAX => call[t].id # call[u].id

TableOK ==
  /\ counters \in Seq(Counter) /\ owed \in Seq(Nat) /\ changes \in Seq(Nat)
  /\ Len(owed) = Len(counters) /\ Len(changes) = Len(counters)
  /\ \A i \in Ids : counters[i].value = owed[i]

StatsInv ==
  /\ TableOK
  /\ call = [t \in Callers |-> call[t]]
  /\ \A t \in Callers : CallOK(t)
  /\ \A t, u \in Callers : t # u => Apart(t, u)

(* What any step does to the table: names stay once they are set, a counter*)
(* that gets one is the last, and a switch is counted.                     *)
Evolves ==
  /\ Ids \subseteq Ids' /\ Len(counters) <= Len(counters')
  /\ \A i \in Ids : /\ changes'[i] \in Nat /\ changes'[i] >= changes[i]
                    /\ changes'[i] = changes[i] => counters'[i].enabled = counters[i].enabled
                    /\ \/ counters'[i].name = counters[i].name /\ counters'[i].category = counters[i].category
                       \/ i = Len(counters') /\ counters[i].name = UINT32_MAX /\ counters[i].category = UINT32_MAX
  /\ \A i \in Ids' \ Ids : i = Len(counters')

LEMMA TableFacts ==
  ASSUME TableOK
  PROVE  /\ Len(counters) \in Nat /\ Ids = 1..Len(counters) /\ DOMAIN owed = Ids /\ DOMAIN changes = Ids
         /\ \A i \in Ids : i \in Nat /\ counters[i] \in Counter /\ owed[i] \in Nat /\ changes[i] \in Nat
BY DEF TableOK, Ids

(* A call that a step does not touch stays what it was.                    *)
LEMMA OthersKept ==
  ASSUME StatsInv, TableOK', Evolves, NEW u \in Callers, call'[u] = call[u],
         call[u].op = "register" => RegisterOK(u, call[u])'
  PROVE  CallOK(u)'
<1>1. PICK c : c = call[u]
  OBVIOUS
<1>2. call'[u] = c
  BY <1>1
<1>3. CallOK(u)
  BY DEF StatsInv
<1>4. /\ \A i \in Ids : i \in Nat /\ changes[i] \in Nat /\ i \in Ids' /\ i <= Len(counters')
      /\ Len(counters') \in Nat
  BY TableFacts, StatsInv DEF StatsInv, Evolves
<1>5. ASSUME NEW i \in Ids, NEW n, n # UINT32_MAX,
             counters[i].name = n \/ counters[i].category = n
      PROVE  /\ counters'[i].name = counters[i].name /\ counters'[i].category = counters[i].category
  BY <1>5 DEF Evolves
<1>6. ASSUME NEW i \in Ids, NEW n \in CounterNames, NEW m PROVE Has(i, n, m) => Has(i, n, m)'
  BY <1>5, StatsAssumption DEF Has
<1>7. ASSUME c.op = "registered" PROVE RegisteredOK(c)'
  <2>1. RegisteredOK(c)
    BY <1>1, <1>3, <1>7 DEF CallOK
  <2> QED
    BY <1>4, <1>6, <2>1 DEF RegisteredOK, IsRegistration
<1>8. ASSUME c.op = "find" PROVE FindOK(c)'
  <2>1. FindOK(c)
    BY <1>1, <1>3, <1>8 DEF CallOK
  <2>2. IsSearch(c)'
    BY <1>4, <2>1 DEF FindOK, IsSearch
  <2>3. \A k \in c.known : k >= c.at /\ Has(k, c.name, c.category)'
    BY <1>6, <2>1 DEF FindOK, IsSearch
  <2>4. ASSUME NEW i \in Ids', Has(i, c.name, c.category)', i \notin c.known, NEW k \in c.known PROVE k < i
    <3>1. k \in Ids /\ Has(k, c.name, c.category) /\ c.name \in CounterNames
      BY <2>1 DEF FindOK, IsSearch
    <3>2. CASE i \in Ids /\ Has(i, c.name, c.category)
      BY <2>1, <2>4, <3>2 DEF FindOK
    <3>3. CASE ~ (i \in Ids /\ Has(i, c.name, c.category))
      <4>1. i = Len(counters')
        BY <2>4, <3>3 DEF Evolves, Has
      <4>2. k <= i /\ k # i
        BY <1>4, <2>4, <3>1, <4>1
      <4> QED
        BY <1>4, <3>1, <4>1, <4>2
    <3> QED
      BY <3>2, <3>3
  <2> QED
    BY <2>1, <2>2, <2>3, <2>4 DEF FindOK
<1>9. ASSUME c.op = "found" PROVE FoundOK(c)'
  <2>1. FoundOK(c)
    BY <1>1, <1>3, <1>9 DEF CallOK
  <2> QED
    BY <1>4, <1>6, <2>1 DEF FoundOK, IsSearch
<1>10. ASSUME NEW k, k[1] \in Ids, k[2] \in Nat PROVE Made(c, k) => Made(c, k)'
  <2>1. PICK i \in Ids : i = k[1]
    BY <1>10
  <2>2. PICK n \in Nat : n = k[2]
    BY <1>10
  <2>3. /\ changes'[i] \in Nat /\ changes[i] \in Nat /\ changes'[i] >= changes[i]
        /\ changes'[i] = changes[i] => counters'[i].enabled = counters[i].enabled
    BY <1>4 DEF Evolves
  <2> QED
    BY <2>1, <2>2, <2>3 DEF Made
<1>11. ASSUME NEW k, k[1] \in Ids, k[2] \in Nat, changes[k[1]] >= k[2], counters[k[1]].category = c.category,
              c.category \in Categories
       PROVE  k[1] \in Ids' /\ changes'[k[1]] >= k[2] /\ counters'[k[1]].category = c.category
  <2>1. PICK i \in Ids : i = k[1]
    BY <1>11
  <2>2. changes'[i] \in Nat /\ changes[i] \in Nat /\ changes'[i] >= changes[i]
    BY <1>4 DEF Evolves
  <2>3. counters'[i].category = c.category
    BY <1>5, <1>11, <2>1, StatsAssumption
  <2>4. changes'[i] >= k[2]
    BY <1>11, <2>1, <2>2
  <2> QED
    BY <1>4, <2>1, <2>3, <2>4
<1>12. ASSUME c.op = "switch" PROVE SwitchOK(c)'
  <2>1. SwitchOK(c)
    BY <1>1, <1>3, <1>12 DEF CallOK
  <2> QED
    BY <1>10, <1>11, <2>1 DEF SwitchOK, IsSwitch
<1>13. ASSUME c.op = "switched" PROVE SwitchedOK(c)'
  <2>1. SwitchedOK(c)
    BY <1>1, <1>3, <1>13 DEF CallOK
  <2>2. \A k \in c.known : changes[k[1]] >= k[2]
    <3> SUFFICES ASSUME NEW k \in c.known PROVE changes[k[1]] >= k[2]
      OBVIOUS
    <3>1. k[1] \in Ids /\ k[2] \in Nat /\ changes[k[1]] >= k[2] + 1
      BY <2>1 DEF SwitchedOK, Made
    <3> QED
      BY <1>4, <3>1
  <2> QED
    BY <1>10, <1>11, <2>1, <2>2 DEF SwitchedOK, IsSwitch
<1>14. c.op = "add" => c.id \in Ids'
  BY <1>1, <1>3, <1>4 DEF CallOK
<1> QED
  BY <1>1, <1>2, <1>7, <1>8, <1>9, <1>12, <1>13, <1>14 DEF CallOK

(* What a step of thread t must show.                                      *)
LEMMA StepOf ==
  ASSUME StatsInv, TableOK', Evolves, NEW t \in Callers,
         call' = [call EXCEPT ![t] = call'[t]], CallOK(t)',
         \A u \in Callers \ {t} : call[u].op = "register" => RegisterOK(u, call[u])',
         \A u \in Callers \ {t} :
           Registers(u) /\ (Registers(t))' => call'[t].id # call[u].id \/ call'[t].id = UINT32_MAX
  PROVE  StatsInv'
<1>1. call' = [u \in Callers |-> call'[u]] /\ \A u \in Callers \ {t} : call'[u] = call[u]
  BY DEF StatsInv
<1>2. \A u \in Callers : CallOK(u)'
  BY <1>1, OthersKept
<1>3. ASSUME NEW u \in Callers, NEW v \in Callers, u # v PROVE Apart(u, v)'
  <2>1. \A w \in Callers \ {t} : call'[w] = call[w] /\ ((Registers(w))' <=> Registers(w))
    BY <1>1 DEF Registers
  <2>2. CASE u = t
    BY <1>3, <2>1, <2>2 DEF Apart
  <2>3. CASE v = t
    BY <1>3, <2>1, <2>3 DEF Apart
  <2>4. CASE u # t /\ v # t
    BY <1>3, <2>1, <2>4 DEF Apart, StatsInv
  <2> QED
    BY <2>2, <2>3, <2>4
<1> QED
  BY <1>1, <1>2, <1>3 DEF StatsInv

(* A step that leaves the table alone.                                     *)
LEMMA TableRests ==
  ASSUME StatsInv, NEW t \in Callers, UNCHANGED <<counters, stats_lock, owed, changes>>,
         call' = [call EXCEPT ![t] = call'[t]], CallOK(t)', ~ (Registers(t))' \/ call'[t].id = UINT32_MAX
  PROVE  StatsInv'
<1>1. counters' = counters /\ stats_lock' = stats_lock /\ owed' = owed /\ changes' = changes /\ Ids' = Ids
  BY DEF Ids
<1>2. TableOK'
  BY <1>1 DEF StatsInv, TableOK
<1>3. Evolves
  <2>1. Len(counters) \in Nat /\ \A i \in Ids : changes[i] \in Nat
    BY TableFacts DEF StatsInv
  <2> QED
    BY <1>1, <2>1 DEF Evolves
<1>4. ASSUME NEW u \in Callers \ {t}, call[u].op = "register" PROVE RegisterOK(u, call[u])'
  <2>1. PICK c : c = call[u]
    OBVIOUS
  <2>2. RegisterOK(u, c)
    BY <1>4, <2>1 DEF StatsInv, CallOK
  <2>3. RegisterOK(u, c)'
    BY <1>1, <2>2 DEF RegisterOK, IsRegistration
  <2>4. call'[u] = c
    BY <2>1 DEF StatsInv
  <2> QED
    BY <2>3, <2>4
<1> QED
  BY <1>2, <1>3, <1>4, StepOf

LEMMA IdleCall == ASSUME StatsInv, NEW t \in Callers, NEW c, Call(t, c)
  PROVE call' = [call EXCEPT ![t] = call'[t]] /\ call'[t] = c /\ call[t].op = "idle"
BY DEF Call, StatsInv

LEMMA RegisterKeeps ==
  ASSUME StatsInv, NEW t \in Callers, NEW name \in CounterNames, NEW category \in Categories,
         stats_register_counter(t, name, category)
  PROVE  StatsInv'
<1>1. stats_lock = UINT32_MAX
  BY DEF stats_register_counter
<1>2. CASE Len(counters) >= counter_capacity
  <2> DEFINE c == [op |-> "registered", id |-> UINT32_MAX, name |-> name, category |-> category]
  <2>1. Call(t, c) /\ UNCHANGED <<counters, stats_lock, owed, changes>>
    BY <1>2 DEF stats_register_counter
  <2>2. RegisteredOK(c)'
    BY DEF RegisteredOK, IsRegistration
  <2>3. c.op = "registered" /\ c.id = UINT32_MAX
    OBVIOUS
  <2> HIDE DEF c
  <2>4. call' = [call EXCEPT ![t] = call'[t]] /\ call'[t] = c
    BY <2>1, IdleCall
  <2>5. CallOK(t)'
    BY <2>2, <2>3, <2>4 DEF CallOK
  <2> QED
    BY <2>1, <2>3, <2>4, <2>5, TableRests
<1>3. CASE ~ (Len(counters) >= counter_capacity)
  <2>1. PICK n \in Nat : n = Len(counters)
    BY TableFacts DEF StatsInv
  <2> DEFINE c == [op |-> "register", id |-> n + 1, name |-> name, category |-> category]
             new == [value |-> 0, enabled |-> TRUE, name |-> UINT32_MAX, category |-> UINT32_MAX]
  <2>2. /\ Call(t, c) /\ counters' = Append(counters, new) /\ stats_lock' = t
        /\ owed' = Append(owed, 0) /\ changes' = Append(changes, 0)
    BY <1>3, <2>1 DEF stats_register_counter
  <2>3. call' = [call EXCEPT ![t] = call'[t]] /\ call'[t] = c
    BY <2>2, IdleCall
  <2>4. new \in Counter /\ new.value = 0 /\ new.name = UINT32_MAX /\ new.category = UINT32_MAX
    BY DEF Counter
  <2> HIDE DEF new
  <2>5. /\ counters \in Seq(Counter) /\ owed \in Seq(Nat) /\ changes \in Seq(Nat)
        /\ Len(owed) = n /\ Len(changes) = n /\ Ids = 1..n /\ \A i \in 1..n : counters[i].value = owed[i]
    BY <2>1, TableFacts DEF StatsInv, TableOK
  <2>6. /\ Ids' = 1..(n + 1) /\ Len(counters') = n + 1 /\ counters'[n + 1] = new
        /\ counters' \in Seq(Counter) /\ owed' \in Seq(Nat) /\ changes' \in Seq(Nat)
        /\ Len(owed') = n + 1 /\ Len(changes') = n + 1 /\ owed'[n + 1] = 0
    BY <2>1, <2>2, <2>4, <2>5 DEF Ids
  <2>7. \A i \in 1..n : counters'[i] = counters[i] /\ owed'[i] = owed[i] /\ changes'[i] = changes[i] /\ changes[i] \in Nat
    BY <2>1, <2>2, <2>4, <2>5
  <2>8. \A i \in 1..(n + 1) : i \in 1..n \/ i = n + 1
    OBVIOUS
  <2>9. TableOK'
    BY <2>4, <2>5, <2>6, <2>7, <2>8 DEF TableOK
  <2>10. Evolves
    <3>1. Ids \subseteq Ids' /\ n <= n + 1 /\ \A i \in Ids' \ Ids : i = n + 1
      BY <2>5, <2>6
    <3>2. \A i \in Ids : /\ changes'[i] \in Nat /\ changes'[i] >= changes[i]
                         /\ counters'[i] = counters[i]
      BY <2>5, <2>7
    <3> QED
      BY <2>1, <2>6, <3>1, <3>2 DEF Evolves
  <2>11. ASSUME NEW u \in Callers \ {t} PROVE call[u].op # "register"
    BY <1>1, StatsAssumption DEF StatsInv, CallOK, RegisterOK
  <2>12. RegisterOK(t, c)'
    <3>1. IsRegistration(c)
      BY DEF IsRegistration
    <3>2. c.id = n + 1 /\ n + 1 \in 1..(n + 1)
      BY <2>1
    <3> QED
      BY <2>2, <2>4, <2>6, <3>1, <3>2 DEF RegisterOK, IsRegistration
  <2>13. c.op = "register" /\ c.id = n + 1
    OBVIOUS
  <2> HIDE DEF c
  <2>14. CallOK(t)'
    BY <2>3, <2>12, <2>13 DEF CallOK
  <2>15. ASSUME NEW u \in Callers \ {t}, Registers(u) PROVE call[u].id # n + 1 \/ n + 1 = UINT32_MAX
    <3>1. RegisteredOK(call[u])
      BY <2>11, <2>15 DEF Registers, StatsInv, CallOK
    <3>2. n + 1 \notin Ids
      BY <2>1, <2>5
    <3> QED
      BY <3>1, <3>2 DEF RegisteredOK
  <2> QED
    BY <2>3, <2>9, <2>10, <2>11, <2>13, <2>14, <2>15, StepOf
<1> QED
  BY <1>2, <1>3

LEMMA FillKeeps == ASSUME StatsInv, NEW t \in Callers, Fill(t) PROVE StatsInv'
<1>1. PICK c : c = call[t]
  OBVIOUS
<1>2. c.op = "register" /\ RegisterOK(t, c)
  BY <1>1 DEF Fill, StatsInv, CallOK
<1>3. PICK n \in Nat : n = Len(counters)
  BY TableFacts DEF StatsInv
<1>4. /\ c.id = n /\ Ids = 1..n /\ n \in Ids
      /\ counters[n].name = UINT32_MAX /\ counters[n].category = UINT32_MAX
      /\ c.name \in CounterNames /\ c.category \in Categories /\ stats_lock = t
  BY <1>2, <1>3, TableFacts DEF StatsInv, RegisterOK, IsRegistration
<1>5. /\ counters' = [counters EXCEPT ![n].name = c.name, ![n].category = c.category]
      /\ stats_lock' = UINT32_MAX /\ owed' = owed /\ changes' = changes
  BY <1>1, <1>4 DEF Fill
<1>6. counters \in Seq(Counter) /\ Len(owed) = n /\ Len(changes) = n /\ \A i \in Ids : counters[i].value = owed[i]
  BY <1>3 DEF StatsInv, TableOK
<1>7. PICK r \in Counter : r = counters[n]
  BY <1>4, TableFacts DEF StatsInv
<1>8. PICK q : q = counters'[n]
  OBVIOUS
<1>9. /\ q = [[r EXCEPT !.name = c.name] EXCEPT !.category = c.category]
      /\ counters' = [counters EXCEPT ![n] = q] /\ \A i \in Ids : i # n => counters'[i] = counters[i]
  BY <1>4, <1>5, <1>6, <1>7, <1>8, TableFacts DEF StatsInv, Ids
<1>10. q \in Counter /\ q.name = c.name /\ q.category = c.category /\ q.value = r.value /\ q.enabled = r.enabled
  BY <1>4, <1>7, <1>9 DEF Counter
<1>11. counters' \in Seq(Counter) /\ Len(counters') = n /\ Ids' = Ids
  BY <1>3, <1>4, <1>6, <1>9, <1>10 DEF Ids
<1>12. TableOK'
  BY <1>5, <1>6, <1>7, <1>8, <1>9, <1>10, <1>11 DEF TableOK, StatsInv
<1>13. Evolves
  <2>1. \A i \in Ids : changes[i] \in Nat
    BY TableFacts DEF StatsInv
  <2> QED
    BY <1>3, <1>4, <1>5, <1>7, <1>8, <1>9, <1>10, <1>11, <2>1 DEF Evolves
<1>14. \A u \in Callers \ {t} : call[u].op # "register"
  BY <1>4 DEF StatsInv, CallOK, RegisterOK
<1> DEFINE d == [c EXCEPT !.op = "registered"]
<1>15. d = [op |-> "registered", id |-> c.id, name |-> c.name, category |-> c.category]
  BY <1>2 DEF RegisterOK, IsRegistration
<1>16. d.op = "registered" /\ d.id = c.id /\ d.name = c.name /\ d.category = c.category
  BY <1>15
<1>17. call' = [call EXCEPT ![t] = call'[t]] /\ call'[t] = d
  BY <1>1 DEF Fill, StatsInv
<1>18. RegisteredOK(d)'
  <2>1. IsRegistration(d)
    BY <1>4, <1>15, <1>16 DEF IsRegistration
  <2>2. Has(d.id, d.name, d.category)'
    BY <1>4, <1>8, <1>10, <1>16 DEF Has
  <2> QED
    BY <1>4, <1>11, <1>16, <2>1, <2>2 DEF RegisteredOK, IsRegistration
<1> HIDE DEF d
<1>19. CallOK(t)'
  BY <1>16, <1>17, <1>18 DEF CallOK
<1>20. \A u \in Callers \ {t} : Registers(u) => call[u].id # c.id \/ c.id = UINT32_MAX
  BY <1>1, <1>2 DEF StatsInv, Apart, Registers
<1> QED
  BY <1>12, <1>13, <1>14, <1>16, <1>17, <1>19, <1>20, StepOf

LEMMA FindKeeps ==
  ASSUME StatsInv, NEW t \in Callers, NEW name \in CounterNames, NEW category \in Categories,
         stats_find_counter(t, name, category)
  PROVE  StatsInv'
<1>0. PICK K, c :
        /\ K = {i \in Ids : Has(i, name, category)}
        /\ c = [op |-> "find", at |-> 1, name |-> name, category |-> category, id |-> UINT32_MAX, known |-> K]
  OBVIOUS
<1>1. Call(t, c) /\ UNCHANGED <<counters, stats_lock, owed, changes>>
  BY <1>0 DEF stats_find_counter
<1>2. call' = [call EXCEPT ![t] = call'[t]] /\ call'[t] = c
  BY <1>1, IdleCall
<1>3. c.op = "find" /\ c.at = 1 /\ c.name = name /\ c.category = category /\ c.id = UINT32_MAX /\ c.known = K
  BY <1>0
<1>4. \A k \in K : k \in Ids /\ Has(k, name, category) /\ k >= 1
  BY <1>0, TableFacts DEF StatsInv
<1>5. IsSearch(c)
  BY <1>0, <1>3 DEF IsSearch
<1>6. \A i \in Ids : Has(i, name, category) => i \in K
  BY <1>0
<1>7. FindOK(c)
  BY <1>3, <1>4, <1>5, <1>6 DEF FindOK
<1>8. counters' = counters
  BY <1>1
<1>9. FindOK(c)'
  BY <1>7, <1>8 DEF FindOK, IsSearch, Ids, Has
<1>10. CallOK(t)' /\ ~ (Registers(t))'
  BY <1>2, <1>3, <1>9 DEF CallOK, Registers
<1> QED
  BY <1>1, <1>2, <1>10, TableRests

LEMMA SwitchKeeps ==
  ASSUME StatsInv, NEW t \in Callers, NEW category \in Categories, NEW enabled \in BOOLEAN,
         stats_enable_category(t, category, enabled)
  PROVE  StatsInv'
<1>0. PICK K, c :
        /\ K = {<<i, changes[i]>> : i \in {i \in Ids : counters[i].category = category}}
        /\ c = [op |-> "switch", at |-> 1, category |-> category, enabled |-> enabled, known |-> K]
  OBVIOUS
<1>1. Call(t, c) /\ UNCHANGED <<counters, stats_lock, owed, changes>>
  BY <1>0 DEF stats_enable_category
<1>2. call' = [call EXCEPT ![t] = call'[t]] /\ call'[t] = c
  BY <1>1, IdleCall
<1>3. c.op = "switch" /\ c.at = 1 /\ c.category = category /\ c.enabled = enabled /\ c.known = K
  BY <1>0
<1>4. ASSUME NEW k \in K
      PROVE  /\ k[1] \in Ids /\ k[2] \in Nat /\ counters[k[1]].category = category
             /\ changes[k[1]] >= k[2] /\ ~ (k[1] < 1)
  <2>1. PICK i \in Ids : k = <<i, changes[i]>> /\ counters[i].category = category
    BY <1>0, <1>4
  <2>2. i \in Nat /\ i >= 1 /\ changes[i] \in Nat
    BY TableFacts DEF StatsInv
  <2> QED
    BY <2>1, <2>2
<1>5. IsSwitch(c)
  BY <1>0, <1>3 DEF IsSwitch
<1>6. SwitchOK(c)
  BY <1>3, <1>4, <1>5 DEF SwitchOK
<1>7. counters' = counters /\ changes' = changes
  BY <1>1
<1>8. SwitchOK(c)'
  BY <1>6, <1>7 DEF SwitchOK, IsSwitch, Ids, Made
<1>9. CallOK(t)' /\ ~ (Registers(t))'
  BY <1>2, <1>3, <1>8 DEF CallOK, Registers
<1> QED
  BY <1>1, <1>2, <1>9, TableRests

(* The minimum of what the search knew is where it finds the name first.   *)
LEMMA FirstIsMin == ASSUME NEW S, S \subseteq Int, NEW m \in S, \A k \in S : k >= m PROVE m = Min(S)
<1>1. \A k \in S : m <= k
  OBVIOUS
<1>2. Min(S) \in S /\ \A k \in S : Min(S) <= k
  BY <1>1 DEF Min
<1>3. PICK x \in S : x = Min(S)
  BY <1>2
<1>4. x <= m /\ m <= x /\ x \in Int /\ m \in Int
  BY <1>1, <1>2, <1>3
<1> QED
  BY <1>3, <1>4

LEMMA FindWalks == ASSUME StatsInv, NEW t \in Callers, Walk(t), call[t].op = "find" PROVE StatsInv'
<1>1. PICK c : c = call[t]
  OBVIOUS
<1>2. FindOK(c) /\ c.op = "find"
  BY <1>1 DEF StatsInv, CallOK
<1>3. /\ c = [op |-> c.op, at |-> c.at, name |-> c.name, category |-> c.category, id |-> c.id, known |-> c.known]
      /\ c.at \in Nat \ {0} /\ c.known \subseteq Ids /\ c.name \in CounterNames /\ c.id = UINT32_MAX
      /\ \A k \in c.known : k >= c.at /\ Has(k, c.name, c.category) /\ k \in Nat
      /\ \A i \in Ids : Has(i, c.name, c.category) => i \in c.known \/ \A k \in c.known : k < i
  BY <1>2, TableFacts DEF FindOK, IsSearch, StatsInv
<1>4. counters' = counters /\ changes' = changes /\ owed' = owed /\ stats_lock' = stats_lock /\ Ids' = Ids
  BY DEF Walk, Ids
<1>5. PICK n \in Nat : n = Len(counters) /\ Ids = 1..n
  BY TableFacts DEF StatsInv
<1>6. CASE c.at > n
  <2> DEFINE d == [c EXCEPT !.op = "found"]
  <2>1. call' = [call EXCEPT ![t] = call'[t]] /\ call'[t] = d
    BY <1>1, <1>2, <1>5, <1>6 DEF Walk, StatsInv
  <2>2. d = [op |-> "found", at |-> c.at, name |-> c.name, category |-> c.category, id |-> c.id, known |-> c.known]
    BY <1>3
  <2>3. c.known = {}
    BY <1>3, <1>5, <1>6
  <2>4. FoundOK(d)'
    BY <1>3, <1>4, <2>2, <2>3 DEF FoundOK, IsSearch
  <2>5. d.op = "found"
    BY <2>2
  <2> HIDE DEF d
  <2>6. CallOK(t)' /\ ~ (Registers(t))'
    BY <2>1, <2>4, <2>5 DEF CallOK, Registers
  <2> QED
    BY <1>4, <2>1, <2>6, TableRests
<1>7. CASE ~ (c.at > n) /\ Has(c.at, c.name, c.category)
  <2> DEFINE d == [c EXCEPT !.op = "found", !.id = c.at]
  <2>1. call' = [call EXCEPT ![t] = call'[t]] /\ call'[t] = d
    BY <1>1, <1>2, <1>5, <1>7 DEF Walk, StatsInv
  <2>2. d.op = "found" /\ d.at = c.at /\ d.name = c.name /\ d.category = c.category /\ d.id = c.at /\ d.known = c.known
    BY <1>3
  <2> DEFINE F == {"op", "at", "name", "category", "id", "known"}
  <2>3. d = [op |-> d.op, at |-> d.at, name |-> d.name, category |-> d.category, id |-> d.id, known |-> d.known]
    <3>1. d = [x \in F |-> d[x]]
      BY <1>3
    <3> HIDE DEF d
    <3> QED
      BY <3>1
  <2>4. c.at \in Ids
    BY <1>3, <1>5, <1>7
  <2>5. c.known # {} => c.at = Min(c.known)
    <3> SUFFICES ASSUME c.known # {} PROVE c.at = Min(c.known)
      OBVIOUS
    <3>1. c.at \in c.known
      BY <1>3, <1>7, <2>4
    <3>2. c.known \subseteq Int
      BY <1>3
    <3> QED
      BY <1>3, <3>1, <3>2, FirstIsMin
  <2> HIDE DEF d
  <2>6. IsSearch(d)'
    BY <1>3, <1>4, <2>2, <2>3 DEF IsSearch
  <2>7. FoundOK(d)'
    BY <1>4, <1>7, <2>2, <2>4, <2>5, <2>6 DEF FoundOK, Has
  <2>8. CallOK(t)' /\ ~ (Registers(t))'
    BY <2>1, <2>2, <2>7 DEF CallOK, Registers
  <2> QED
    BY <1>4, <2>1, <2>8, TableRests
<1>8. CASE ~ (c.at > n) /\ ~ Has(c.at, c.name, c.category)
  <2> DEFINE d == [c EXCEPT !.at = c.at + 1]
  <2>1. call' = [call EXCEPT ![t] = call'[t]] /\ call'[t] = d
    BY <1>1, <1>2, <1>5, <1>8 DEF Walk, StatsInv
  <2>2. /\ d.op = "find" /\ d.at = c.at + 1 /\ d.name = c.name /\ d.category = c.category /\ d.id = c.id
        /\ d.known = c.known
    BY <1>2, <1>3
  <2>3. d = [op |-> d.op, at |-> d.at, name |-> d.name, category |-> d.category, id |-> d.id, known |-> d.known]
    BY <1>3
  <2> HIDE DEF d
  <2>4. \A k \in c.known : k >= c.at + 1
    BY <1>3, <1>8
  <2>5. IsSearch(d)'
    BY <1>3, <1>4, <2>2, <2>3 DEF IsSearch
  <2>6. FindOK(d)'
    BY <1>3, <1>4, <2>2, <2>4, <2>5 DEF FindOK, Has
  <2>7. CallOK(t)' /\ ~ (Registers(t))'
    BY <2>1, <2>2, <2>6 DEF CallOK, Registers
  <2> QED
    BY <1>4, <2>1, <2>7, TableRests
<1> QED
  BY <1>6, <1>7, <1>8

(* A step that leaves the names alone.                                     *)
NamesRest ==
  /\ TableOK' /\ Len(counters') = Len(counters) /\ stats_lock' = stats_lock
  /\ \A i \in Ids : /\ counters'[i].name = counters[i].name /\ counters'[i].category = counters[i].category
                    /\ changes'[i] >= changes[i]
                    /\ changes'[i] = changes[i] => counters'[i].enabled = counters[i].enabled

LEMMA NamesKept ==
  ASSUME StatsInv, NamesRest, NEW t \in Callers,
         call' = [call EXCEPT ![t] = call'[t]], CallOK(t)', ~ (Registers(t))'
  PROVE  StatsInv'
<1>1. PICK n \in Nat : n = Len(counters) /\ Ids = 1..n
  BY TableFacts DEF StatsInv
<1>2. Ids' = Ids /\ TableOK' /\ \A i \in Ids : changes[i] \in Nat /\ changes'[i] \in Nat
  <2>1. Ids' = 1..n
    BY <1>1 DEF NamesRest, TableOK, Ids
  <2>2. \A i \in Ids : changes[i] \in Nat
    BY TableFacts DEF StatsInv
  <2>3. changes' \in Seq(Nat) /\ Len(changes') = n
    BY <1>1 DEF NamesRest, TableOK
  <2> QED
    BY <1>1, <2>1, <2>2, <2>3 DEF NamesRest
<1>3. Evolves
  BY <1>1, <1>2 DEF Evolves, NamesRest
<1>4. ASSUME NEW u \in Callers \ {t}, call[u].op = "register" PROVE RegisterOK(u, call[u])'
  <2>1. PICK c : c = call[u]
    OBVIOUS
  <2>2. RegisterOK(u, c)
    BY <1>4, <2>1 DEF StatsInv, CallOK
  <2>3. RegisterOK(u, c)'
    BY <1>2, <2>2 DEF RegisterOK, IsRegistration, NamesRest
  <2>4. call'[u] = c
    BY <2>1 DEF StatsInv
  <2> QED
    BY <2>3, <2>4
<1> QED
  BY <1>2, <1>3, <1>4, StepOf

(* The table after one counter, and what belongs to it, has changed.       *)
LEMMA OneChanges ==
  ASSUME StatsInv, NEW i \in Ids, NEW q \in Counter, NEW o \in Nat, NEW h \in Nat,
         counters' = [counters EXCEPT ![i] = q], owed' = [owed EXCEPT ![i] = o],
         changes' = [changes EXCEPT ![i] = h], stats_lock' = stats_lock,
         q.value = o, q.name = counters[i].name, q.category = counters[i].category, h >= changes[i],
         h = changes[i] => q.enabled = counters[i].enabled
  PROVE  NamesRest
<1>1. /\ counters \in Seq(Counter) /\ owed \in Seq(Nat) /\ changes \in Seq(Nat)
      /\ Len(owed) = Len(counters) /\ Len(changes) = Len(counters) /\ Ids = 1..Len(counters)
      /\ \A j \in Ids : counters[j].value = owed[j] /\ changes[j] \in Nat
  BY TableFacts DEF StatsInv, TableOK
<1>2. /\ counters' \in Seq(Counter) /\ owed' \in Seq(Nat) /\ changes' \in Seq(Nat)
      /\ Len(counters') = Len(counters) /\ Len(owed') = Len(counters) /\ Len(changes') = Len(counters)
      /\ counters'[i] = q /\ owed'[i] = o /\ changes'[i] = h
  BY <1>1
<1>3. \A j \in Ids : j # i => counters'[j] = counters[j] /\ owed'[j] = owed[j] /\ changes'[j] = changes[j]
  BY <1>1
<1>4. Ids' = Ids
  BY <1>1, <1>2 DEF Ids
<1>5. TableOK'
  BY <1>1, <1>2, <1>3, <1>4 DEF TableOK
<1>6. \A j \in Ids : /\ counters'[j].name = counters[j].name /\ counters'[j].category = counters[j].category
                     /\ changes'[j] >= changes[j]
                     /\ changes'[j] = changes[j] => counters'[j].enabled = counters[j].enabled
  BY <1>1, <1>2, <1>3
<1> QED
  BY <1>2, <1>5, <1>6 DEF NamesRest

LEMMA SwitchWalks == ASSUME StatsInv, NEW t \in Callers, Walk(t), call[t].op = "switch" PROVE StatsInv'
<1>1. PICK c : c = call[t]
  OBVIOUS
<1>2. SwitchOK(c) /\ c.op = "switch"
  BY <1>1 DEF StatsInv, CallOK
<1>3. /\ c = [op |-> c.op, at |-> c.at, category |-> c.category, enabled |-> c.enabled, known |-> c.known]
      /\ c.at \in Nat \ {0} /\ c.category \in Categories /\ c.enabled \in BOOLEAN
      /\ \A k \in c.known : /\ k[1] \in Ids /\ k[2] \in Nat /\ counters[k[1]].category = c.category
                            /\ changes[k[1]] >= k[2] /\ (k[1] < c.at => Made(c, k))
  BY <1>2 DEF SwitchOK, IsSwitch
<1>4. owed' = owed /\ stats_lock' = stats_lock
  BY DEF Walk
<1>5. PICK n \in Nat : n = Len(counters) /\ Ids = 1..n
  BY TableFacts DEF StatsInv
<1>6. CASE c.at > n
  <2> DEFINE d == [c EXCEPT !.op = "switched"]
  <2>1. call' = [call EXCEPT ![t] = call'[t]] /\ call'[t] = d /\ counters' = counters /\ changes' = changes
    BY <1>1, <1>2, <1>5, <1>6 DEF Walk, StatsInv
  <2>2. d = [op |-> "switched", at |-> c.at, category |-> c.category, enabled |-> c.enabled, known |-> c.known]
    BY <1>3
  <2>3. d.op = "switched" /\ d.at = c.at /\ d.category = c.category /\ d.enabled = c.enabled /\ d.known = c.known
    BY <2>2
  <2>4. \A k \in c.known : Made(c, k)
    BY <1>3, <1>5, <1>6
  <2> HIDE DEF d
  <2>5. IsSwitch(d)
    BY <1>3, <2>2, <2>3 DEF IsSwitch
  <2>6. SwitchedOK(d)'
    BY <1>3, <2>1, <2>3, <2>4, <2>5 DEF SwitchedOK, IsSwitch, Made, Ids
  <2>7. CallOK(t)' /\ ~ (Registers(t))'
    BY <2>1, <2>3, <2>6 DEF CallOK, Registers
  <2> QED
    BY <1>4, <2>1, <2>7, TableRests
<1>7. CASE ~ (c.at > n)
  <2> DEFINE d == [c EXCEPT !.at = c.at + 1]
             hit == counters[c.at].category = c.category
  <2>1. c.at \in Ids
    BY <1>3, <1>5, <1>7
  <2>2. /\ call' = [call EXCEPT ![t] = call'[t]] /\ call'[t] = d
        /\ counters' = IF hit THEN [counters EXCEPT ![c.at].enabled = c.enabled] ELSE counters
        /\ changes' = IF hit THEN [changes EXCEPT ![c.at] = @ + 1] ELSE changes
    BY <1>1, <1>2, <1>5, <1>7 DEF Walk, StatsInv
  <2>3. /\ d.op = "switch" /\ d.at = c.at + 1 /\ d.category = c.category /\ d.enabled = c.enabled
        /\ d.known = c.known
    BY <1>2, <1>3
  <2>4. d = [op |-> d.op, at |-> d.at, category |-> d.category, enabled |-> d.enabled, known |-> d.known]
    BY <1>3
  <2> HIDE DEF d
  <2>5. IsSwitch(d)
    BY <1>3, <2>3, <2>4 DEF IsSwitch
  <2>6. CASE hit
    <3>1. PICK m \in Ids : m = c.at
      BY <2>1
    <3>2. counters[m] \in Counter /\ changes[m] \in Nat /\ owed[m] \in Nat /\ counters[m].value = owed[m]
      BY TableFacts DEF StatsInv, TableOK
    <3>3. c.enabled \in BOOLEAN
      BY <1>2 DEF SwitchOK, IsSwitch
    <3>4. PICK q, h : q = [counters[m] EXCEPT !.enabled = c.enabled] /\ h = changes[m] + 1
      OBVIOUS
    <3>5. /\ q \in Counter /\ q.enabled = c.enabled /\ q.value = owed[m]
          /\ q.name = counters[m].name /\ q.category = counters[m].category
      BY <3>2, <3>3, <3>4 DEF Counter
    <3>6. /\ counters' = [counters EXCEPT ![m] = q] /\ owed' = [owed EXCEPT ![m] = owed[m]]
          /\ changes' = [changes EXCEPT ![m] = h] /\ h \in Nat /\ h > changes[m]
      BY <1>4, <2>2, <2>6, <3>1, <3>2, <3>4 DEF TableOK, StatsInv
    <3>7. h >= changes[m] /\ h # changes[m]
      BY <3>2, <3>6
    <3>8. NamesRest
      BY <1>4, <3>2, <3>5, <3>6, <3>7, OneChanges
    <3>9. counters'[m] = q /\ changes'[m] = h /\ (\A j \in Ids : j # m => counters'[j] = counters[j] /\ changes'[j] = changes[j])
      BY <3>6, TableFacts DEF StatsInv, Ids
    <3>10. Ids' = Ids
      BY <3>6 DEF Ids
    <3>11. ASSUME NEW k \in d.known
           PROVE  /\ k[1] \in Ids /\ k[2] \in Nat /\ counters'[k[1]].category = d.category
                  /\ changes'[k[1]] >= k[2] /\ (k[1] < d.at => Made(d, k)')
      <4>1. PICK j \in Ids : j = k[1]
        BY <1>3, <2>3, <3>11
      <4>2. PICK p \in Nat : p = k[2]
        BY <1>3, <2>3, <3>11
      <4>3. counters[j].category = c.category /\ changes[j] >= p /\ (j < c.at => Made(c, k))
        BY <1>3, <2>3, <3>11, <4>1, <4>2
      <4>4. j \in Nat /\ m \in Nat /\ changes[j] \in Nat
        BY TableFacts DEF StatsInv
      <4>5. CASE j = m
        <5>1. p <= h /\ (h = p + 1 \/ h >= p + 1)
          BY <3>2, <3>4, <4>2, <4>3, <4>5
        <5>2. counters'[j] = q /\ changes'[j] = h /\ q.category = c.category /\ q.enabled = c.enabled
          BY <3>5, <3>9, <4>3, <4>5
        <5>3. h >= p + 1
          BY <3>2, <3>4, <4>2, <4>3, <4>5
        <5>4. Made(d, k)'
          BY <2>3, <4>1, <4>2, <5>2, <5>3 DEF Made
        <5> QED
          BY <2>3, <4>1, <4>2, <5>1, <5>2, <5>4
      <4>6. CASE j # m
        <5>1. j < d.at => j < c.at
          BY <2>3, <3>1, <4>4, <4>6
        <5> QED
          BY <2>3, <3>9, <4>1, <4>2, <4>3, <4>6, <5>1 DEF Made
      <4> QED
        BY <4>5, <4>6
    <3>12. SwitchOK(d)'
      BY <2>5, <3>10, <3>11 DEF SwitchOK, IsSwitch
    <3>13. CallOK(t)' /\ ~ (Registers(t))'
      BY <2>2, <2>3, <3>12 DEF CallOK, Registers
    <3> QED
      BY <2>2, <3>8, <3>13, NamesKept
  <2>7. CASE ~ hit
    <3>1. counters' = counters /\ changes' = changes
      BY <2>2, <2>7
    <3>2. ASSUME NEW k \in d.known PROVE k[1] < d.at => Made(d, k)
      <4>1. k[1] # c.at /\ k[1] \in Nat
        BY <1>3, <2>3, <2>7, <3>2, TableFacts DEF StatsInv
      <4>2. k[1] < d.at => k[1] < c.at
        BY <1>3, <2>3, <4>1
      <4> QED
        BY <1>3, <2>3, <3>2, <4>2 DEF Made
    <3>3. SwitchOK(d)'
      BY <1>3, <2>3, <2>5, <3>1, <3>2 DEF SwitchOK, IsSwitch, Made, Ids
    <3>4. CallOK(t)' /\ ~ (Registers(t))'
      BY <2>2, <2>3, <3>3 DEF CallOK, Registers
    <3> QED
      BY <1>4, <2>2, <3>1, <3>4, TableRests
  <2> QED
    BY <2>6, <2>7
<1> QED
  BY <1>6, <1>7

(* The value of one counter becomes o, and with it what is owed.           *)
LEMMA ValueChanges ==
  ASSUME StatsInv, NEW i \in Ids, NEW o \in Nat,
         counters' = [counters EXCEPT ![i].value = o], owed' = [owed EXCEPT ![i] = o],
         changes' = changes, stats_lock' = stats_lock
  PROVE  NamesRest
<1>1. counters[i] \in Counter /\ changes[i] \in Nat
  BY TableFacts DEF StatsInv
<1>2. PICK q : q = [counters[i] EXCEPT !.value = o]
  OBVIOUS
<1>3. /\ q \in Counter /\ q.value = o /\ q.name = counters[i].name /\ q.category = counters[i].category
      /\ q.enabled = counters[i].enabled
  BY <1>1, <1>2 DEF Counter
<1>4. changes' = [changes EXCEPT ![i] = changes[i]] /\ counters' = [counters EXCEPT ![i] = q]
  BY <1>2 DEF StatsInv, TableOK
<1>5. changes[i] >= changes[i]
  BY <1>1
<1> QED
  BY <1>1, <1>3, <1>4, <1>5, OneChanges

LEMMA IncKeeps == ASSUME StatsInv, NEW t \in Callers, NEW id \in Ids, stats_inc(t, id) PROVE StatsInv'
<1>1. PICK c : c = [op |-> IF counters[id].enabled THEN "add" ELSE "done", id |-> id]
  OBVIOUS
<1>2. Call(t, c) /\ UNCHANGED <<counters, stats_lock, owed, changes>>
  BY <1>1 DEF stats_inc
<1>3. call' = [call EXCEPT ![t] = call'[t]] /\ call'[t] = c
  BY <1>2, IdleCall
<1>4. c.op \in {"add", "done"} /\ c.id \in Ids'
  BY <1>1, <1>2 DEF Ids
<1>5. CallOK(t)' /\ ~ (Registers(t))'
  BY <1>3, <1>4 DEF CallOK, Registers
<1> QED
  BY <1>2, <1>3, <1>5, TableRests

LEMMA AddKeeps == ASSUME StatsInv, NEW t \in Callers, Add(t) PROVE StatsInv'
<1>1. PICK i \in Ids : i = call[t].id
  BY DEF Add, StatsInv, CallOK
<1>2. counters[i].value = owed[i] /\ owed[i] \in Nat
  BY TableFacts DEF StatsInv, TableOK
<1>3. counters' = [counters EXCEPT ![i].value = owed[i] + 1] /\ owed' = [owed EXCEPT ![i] = owed[i] + 1]
  BY <1>1, <1>2 DEF Add
<1>4. NamesRest
  <2>1. PICK o \in Nat : o = owed[i] + 1
    BY <1>2
  <2>2. changes' = changes /\ stats_lock' = stats_lock
    BY DEF Add
  <2>3. counters' = [counters EXCEPT ![i].value = o] /\ owed' = [owed EXCEPT ![i] = o]
    BY <1>3, <2>1
  <2> QED
    BY <2>2, <2>3, ValueChanges
<1>5. call' = [call EXCEPT ![t] = call'[t]] /\ call'[t] = [call[t] EXCEPT !.op = "done"]
  BY DEF Add, StatsInv
<1>6. "op" \in DOMAIN call[t] => call'[t].op = "done"
  BY <1>5
<1>7. CallOK(t)' /\ ~ (Registers(t))'
  BY <1>5, <1>6 DEF CallOK, Registers
<1> QED
  BY <1>4, <1>5, <1>7, NamesKept

LEMMA ResetKeeps == ASSUME StatsInv, NEW t \in Callers, NEW id \in Ids, stats_reset_counter(t, id) PROVE StatsInv'
<1>1. NamesRest
  BY ValueChanges DEF stats_reset_counter
<1>2. call' = [call EXCEPT ![t] = call'[t]] /\ call'[t] = [op |-> "done"]
  BY IdleCall DEF stats_reset_counter
<1>3. CallOK(t)' /\ ~ (Registers(t))'
  BY <1>2 DEF CallOK, Registers
<1> QED
  BY <1>1, <1>2, <1>3, NamesKept

LEMMA EnableKeeps ==
  ASSUME StatsInv, NEW t \in Callers, NEW id \in Ids, NEW enabled \in BOOLEAN, stats_enable_counter(t, id, enabled)
  PROVE  StatsInv'
<1>1. counters[id] \in Counter /\ changes[id] \in Nat /\ owed[id] \in Nat /\ counters[id].value = owed[id]
  BY TableFacts DEF StatsInv, TableOK
<1>2. PICK q, h : q = [counters[id] EXCEPT !.enabled = enabled] /\ h = changes[id] + 1
  OBVIOUS
<1>3. /\ q \in Counter /\ q.value = owed[id] /\ q.name = counters[id].name /\ q.category = counters[id].category
      /\ h \in Nat /\ h >= changes[id] /\ h # changes[id]
  BY <1>1, <1>2 DEF Counter
<1>4. /\ counters' = [counters EXCEPT ![id] = q] /\ owed' = [owed EXCEPT ![id] = owed[id]]
      /\ changes' = [changes EXCEPT ![id] = h] /\ stats_lock' = stats_lock
  BY <1>2 DEF stats_enable_counter, StatsInv, TableOK
<1>5. NamesRest
  BY <1>1, <1>3, <1>4, OneChanges
<1>6. call' = [call EXCEPT ![t] = call'[t]] /\ call'[t] = [op |-> "done"]
  BY IdleCall DEF stats_enable_counter
<1>7. CallOK(t)' /\ ~ (Registers(t))'
  BY <1>6 DEF CallOK, Registers
<1> QED
  BY <1>5, <1>6, <1>7, NamesKept

LEMMA ResetByNameKeeps == ASSUME StatsInv, NEW t \in Callers, stats_reset_counter_by_name(t) PROVE StatsInv'
<1>1. PICK i \in Ids : i = call[t].id
  BY DEF stats_reset_counter_by_name, StatsInv, CallOK, FoundOK
<1>2. NamesRest
  BY <1>1, ValueChanges DEF stats_reset_counter_by_name
<1>3. call' = [call EXCEPT ![t] = call'[t]] /\ call'[t] = NoCall
  BY DEF stats_reset_counter_by_name, StatsInv
<1>4. CallOK(t)' /\ ~ (Registers(t))'
  BY <1>3 DEF CallOK, Registers, NoCall
<1> QED
  BY <1>2, <1>3, <1>4, NamesKept

LEMMA ReturnKeeps == ASSUME StatsInv, NEW t \in Callers, ReturnCall(t) PROVE StatsInv'
<1>1. call' = [call EXCEPT ![t] = call'[t]] /\ call'[t] = NoCall
  BY DEF ReturnCall, StatsInv
<1>2. CallOK(t)' /\ ~ (Registers(t))'
  BY <1>1 DEF CallOK, Registers, NoCall
<1> QED
  BY <1>1, <1>2, TableRests DEF ReturnCall

LEMMA StatsStarts == StatsInit => StatsInv
BY DEF StatsInit, StatsInv, TableOK, CallOK, Apart, Registers, NoCall, Ids

LEMMA StatsSteps == ASSUME StatsInv, [StatsNext]_stats_vars PROVE StatsInv'
<1>1. ASSUME UNCHANGED stats_vars PROVE StatsInv'
  BY <1>1 DEF stats_vars, StatsInv, TableOK, CallOK, Apart, Registers, Ids, RegisterOK, RegisteredOK,
              FindOK, FoundOK, SwitchOK, SwitchedOK, IsRegistration, IsSearch, IsSwitch, Made, Has
<1>2. ASSUME StatsNext PROVE StatsInv'
  <2>1. PICK t \in Callers :
          \/ Fill(t) \/ Walk(t) \/ Add(t) \/ stats_reset_counter_by_name(t) \/ ReturnCall(t)
          \/ \E id \in Ids : stats_inc(t, id) \/ stats_reset_counter(t, id)
          \/ \E category \in Categories :
               \/ \E name \in CounterNames :
                    stats_register_counter(t, name, category) \/ stats_find_counter(t, name, category)
               \/ \E enabled \in BOOLEAN : stats_enable_category(t, category, enabled)
          \/ \E id \in Ids, enabled \in BOOLEAN : stats_enable_counter(t, id, enabled)
    BY <1>2 DEF StatsNext
  <2>2. ASSUME Walk(t) PROVE StatsInv'
    BY <2>2, FindWalks, SwitchWalks DEF Walk
  <2> QED
    BY <2>1, <2>2, FillKeeps, AddKeeps, ResetByNameKeeps, ReturnKeeps, IncKeeps, ResetKeeps, RegisterKeeps,
       FindKeeps, SwitchKeeps, EnableKeeps
<1> QED
  BY <1>1, <1>2

(* The property of the run follows from the invariant.                     *)
LEMMA InvariantSaysTheirs == StatsInv => CountersAreTheirs
<1> SUFFICES ASSUME StatsInv PROVE CountersAreTheirs
  OBVIOUS
<1>1. \A id \in Ids : counters[id].value = owed[id]
  BY DEF StatsInv, TableOK
<1>2. ASSUME NEW t \in Callers, call[t].op = "registered", call[t].id # UINT32_MAX
      PROVE  /\ Has(call[t].id, call[t].name, call[t].category)
             /\ \A u \in Callers \ {t} : call[u].op \in {"register", "registered"} => call[u].id # call[t].id
  BY <1>2 DEF StatsInv, CallOK, RegisteredOK, Apart, Registers
<1>3. ASSUME NEW t \in Callers, call[t].op = "found"
      PROVE  /\ call[t].id # UINT32_MAX => Has(call[t].id, call[t].name, call[t].category)
             /\ call[t].known # {} => call[t].id = Min(call[t].known)
  BY <1>3 DEF StatsInv, CallOK, FoundOK
<1>4. ASSUME NEW t \in Callers, call[t].op = "switched", NEW k \in call[t].known
      PROVE  changes[k[1]] = k[2] + 1 => counters[k[1]].enabled = call[t].enabled
  BY <1>4 DEF StatsInv, CallOK, SwitchedOK, Made
<1> QED
  BY <1>1, <1>2, <1>3, <1>4 DEF CountersAreTheirs

(* CountersAreTheirsAlways: for any threads, names and capacity, an id,    *)
(* a value, a search and a switch are what CountersAreTheirs says, also    *)
(* while other threads register (stats.c:50-162).                          *)
THEOREM CountersAreTheirsAlways == StatsSpec => []CountersAreTheirs
<1>1. StatsInit => StatsInv
  BY StatsStarts
<1>2. StatsInv /\ [StatsNext]_stats_vars => StatsInv'
  BY StatsSteps
<1>3. StatsInv => CountersAreTheirs
  BY InvariantSaysTheirs
<1> QED
  BY <1>1, <1>2, <1>3, PTL DEF StatsSpec

-----------------------------------------------------------------------------
(* All four side by side.                                                  *)
DiagnosticsInv == AllocInv /\ WatchdogInv /\ PerfInv /\ StatsInv

LEMMA DiagnosticsSteps == ASSUME DiagnosticsInv, [DiagnosticsNext]_diagnostics_vars PROVE DiagnosticsInv'
<1>1. [AllocNext]_alloc_vars /\ [WatchdogNext]_watchdog_vars /\ [PerfNext]_perf_vars /\ [StatsNext]_stats_vars
  BY DEF DiagnosticsNext, diagnostics_vars
<1>2. AllocInv'
  BY <1>1, AllocSteps DEF DiagnosticsInv
<1>3. WatchdogInv'
  BY <1>1, WatchdogSteps DEF DiagnosticsInv
<1>4. PerfInv'
  BY <1>1, PerfSteps DEF DiagnosticsInv
<1>5. StatsInv'
  BY <1>1, StatsSteps DEF DiagnosticsInv
<1> QED
  BY <1>2, <1>3, <1>4, <1>5 DEF DiagnosticsInv

(* DiagnosticsAreTrueAlways: whatever the program and the observers do in  *)
(* whatever order, totals, reports, entries, warnings, scopes, trees and   *)
(* counters are those of what happened (arena_alloc_tracker.c,             *)
(* arena_watchdog.c, perf_scope.c, stats.c).                               *)
THEOREM DiagnosticsAreTrueAlways == DiagnosticsSpec => []DiagnosticsAreTrue
<1>1. DiagnosticsInit => DiagnosticsInv
  BY AllocStarts, WatchdogStarts, PerfStarts, StatsStarts DEF DiagnosticsInit, DiagnosticsInv
<1>2. DiagnosticsInv /\ [DiagnosticsNext]_diagnostics_vars => DiagnosticsInv'
  BY DiagnosticsSteps
<1>3. DiagnosticsInv => DiagnosticsAreTrue
  <2> SUFFICES ASSUME DiagnosticsInv PROVE DiagnosticsAreTrue
    OBVIOUS
  <2>1. TotalsAreExact /\ ReportsAreTop
    BY InvariantSaysTotals DEF DiagnosticsInv, AllocInv
  <2>2. EntriesAreLive /\ GrowthIsReal
    BY InvariantSaysLive DEF DiagnosticsInv, WatchdogInv
  <2>3. ScopesAreTheirs /\ TreesArePreorder
    BY InvariantSaysScopes, InvariantSaysPreorder DEF DiagnosticsInv
  <2>4. CountersAreTheirs
    BY InvariantSaysTheirs DEF DiagnosticsInv
  <2> QED
    BY <2>1, <2>2, <2>3, <2>4 DEF DiagnosticsAreTrue
<1> QED
  BY <1>1, <1>2, <1>3, PTL DEF DiagnosticsSpec
=============================================================================
