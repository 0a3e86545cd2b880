-------------------------- MODULE McmpQueue_proofs --------------------------
(***************************************************************************)
(* Proofs about McmpQueue, for any number of threads, slots and calls: the *)
(* copies are exclusive, the refusals honest, and the ring is a bounded    *)
(* FIFO.                                                                   *)
(***************************************************************************)
EXTENDS McmpQueue, SequenceTheorems, TLAPS

-----------------------------------------------------------------------------
(* Positions, slots and rounds.                                            *)

LEMMA SlotAndRound ==
  ASSUME NEW p \in Nat
  PROVE  /\ p % SLOTS \in Ring /\ p \div SLOTS \in Nat
         /\ p = SLOTS * (p \div SLOTS) + (p % SLOTS)
<1>1. SLOTS \in Nat /\ SLOTS > 0
  BY ConstantsOK
<1> QED
  BY <1>1 DEF Ring

(* A slot and a round make one position.                                   *)
LEMMA SamePosition ==
  ASSUME NEW p \in Nat, NEW q \in Nat, p % SLOTS = q % SLOTS, p \div SLOTS = q \div SLOTS
  PROVE  p = q
<1>1. p = SLOTS * (p \div SLOTS) + (p % SLOTS) /\ q = SLOTS * (q \div SLOTS) + (q % SLOTS)
  BY SlotAndRound
<1> QED
  BY <1>1

(* The same slot one round later.                                          *)
LEMMA NextRound ==
  ASSUME NEW p \in Nat
  PROVE  /\ p + SLOTS \in Nat
         /\ (p + SLOTS) % SLOTS = p % SLOTS
         /\ (p + SLOTS) \div SLOTS = (p \div SLOTS) + 1
<1>1. SLOTS \in Nat /\ SLOTS > 0
  BY ConstantsOK
<1>2. p = SLOTS * (p \div SLOTS) + (p % SLOTS) /\ p % SLOTS \in 0..(SLOTS - 1) /\ p \div SLOTS \in Nat
  BY <1>1, SlotAndRound DEF Ring
<1>3. p + SLOTS = SLOTS * ((p \div SLOTS) + 1) + (p % SLOTS)
  BY <1>1, <1>2
<1> QED
  BY <1>1, <1>2, <1>3, SMTT(30)

(* The slot of a position and the turn that an operation waits for there.  *)
Place(p)     == p % SLOTS
TurnAt(o, p) == (p \div SLOTS) * 2 + (IF o = "dequeue" THEN 1 ELSE 0)

LEMMA Turns ==
  ASSUME NEW p \in Nat
  PROVE  /\ Place(p) \in Ring
         /\ TurnAt("enqueue", p) \in Nat
         /\ TurnAt("dequeue", p) = TurnAt("enqueue", p) + 1
         /\ Place(p + SLOTS) = Place(p)
         /\ TurnAt("enqueue", p + SLOTS) = TurnAt("dequeue", p) + 1
<1>1. p % SLOTS \in Ring /\ p \div SLOTS \in Nat
  BY SlotAndRound
<1>2. (p + SLOTS) % SLOTS = p % SLOTS /\ (p + SLOTS) \div SLOTS = (p \div SLOTS) + 1
  BY NextRound
<1> QED
  BY <1>1, <1>2 DEF Place, TurnAt

(* A slot's turn tells the operation and the position it is for.           *)
LEMMA OneTurn ==
  ASSUME NEW p \in Nat, NEW q \in Nat, NEW o \in Ops, NEW r \in Ops,
         Place(p) = Place(q), TurnAt(o, p) = TurnAt(r, q)
  PROVE  p = q /\ o = r
<1>1. p \div SLOTS \in Nat /\ q \div SLOTS \in Nat
  BY SlotAndRound
<1>2. p \div SLOTS = q \div SLOTS /\ o = r
  <2> DEFINE i == p \div SLOTS
             j == q \div SLOTS
             a == IF o = "dequeue" THEN 1 ELSE 0
             b == IF r = "dequeue" THEN 1 ELSE 0
  <2>1. i * 2 + a = j * 2 + b
    BY DEF TurnAt
  <2>2. i \in Nat /\ j \in Nat /\ a \in {0, 1} /\ b \in {0, 1}
    BY <1>1
  <2>3. a = b => o = r
    BY DEF Ops
  <2> HIDE DEF i, j, a, b
  <2>4. i = j /\ a = b
    BY <2>1, <2>2
  <2> QED
    BY <2>3, <2>4 DEF i, j
<1>3. p = q
  BY <1>2, SamePosition DEF Place
<1> QED
  BY <1>2, <1>3

-----------------------------------------------------------------------------
(* The inductive invariant.                                                *)

Busy(t) == pc[t] \in {"copy", "pass"}
Mine(t) == turn[Place(pos[t])] = TurnAt(op[t], pos[t])

(* A thread has read its index, which has only grown since, and the turn   *)
(* it found does not change under it before the index does.                *)
PosOK     == \A t \in Threads : pc[t] \in {"turn", "advance", "reload"} => pos[t] <= index[op[t]]
AdvanceOK == \A t \in Threads : pc[t] = "advance" /\ index[op[t]] = pos[t] => Mine(t)
ExcuseOK  == \A t \in Threads : pc[t] = "reload" /\ index[op[t]] = pos[t] => excuse[t]

(* After its CAS a thread alone has the position, until it passes the turn *)
(* on, and nobody dequeues what is still being enqueued.                   *)
BusyOK   == \A t \in Threads :
              Busy(t) => /\ pos[t] < index[op[t]] /\ Mine(t)
                         /\ op[t] = "enqueue" => index["dequeue"] <= pos[t]
UniqueOK == \A t, u \in Threads :
              Busy(t) /\ Busy(u) /\ op[t] = op[u] /\ pos[t] = pos[u] => t = u

(* Between tail and head every position is published or being enqueued,    *)
(* and from head to one round past tail it is free or being dequeued.      *)
BoundsOK == index["dequeue"] <= index["enqueue"] /\ index["enqueue"] <= index["dequeue"] + SLOTS
FullOK   == \A p \in index["dequeue"]..(index["enqueue"] - 1) :
              \/ turn[Place(p)] = TurnAt("dequeue", p)
              \/ \E t \in Threads : op[t] = "enqueue" /\ Busy(t) /\ pos[t] = p
FreeOK   == \A p \in index["enqueue"]..(index["dequeue"] + SLOTS - 1) :
              \/ turn[Place(p)] = TurnAt("enqueue", p)
              \/ \E t \in Threads : op[t] = "dequeue" /\ Busy(t) /\ pos[t] + SLOTS = p

(* What an enqueuer brings, and has copied before it publishes.            *)
ItemOK == \A t \in Threads : pc[t] # "out" /\ op[t] = "enqueue" => item[t] \in Items
DataOK == \A t \in Threads : pc[t] = "pass" /\ op[t] = "enqueue" => data[Place(pos[t])] = item[t]

IInv == /\ TypeOK /\ PosOK /\ AdvanceOK /\ ExcuseOK /\ BusyOK /\ UniqueOK
        /\ BoundsOK /\ FullOK /\ FreeOK /\ ItemOK /\ DataOK

LEMMA InitInv == Init => IInv
<1> SUFFICES ASSUME Init PROVE IInv
  OBVIOUS
<1>1. SLOTS \in Nat /\ SLOTS > 0 /\ MaxEnqueues \in Nat
  BY ConstantsOK
<1>2. index["enqueue"] = 0 /\ index["dequeue"] = 0
  BY DEF Init, Ops
<1>3. TypeOK
  BY DEF Init, TypeOK, Ops
<1>4. BoundsOK /\ FullOK
  BY <1>1, <1>2 DEF BoundsOK, FullOK
<1>5. FreeOK
  <2> SUFFICES ASSUME NEW p \in 0..(SLOTS - 1)
               PROVE  turn[Place(p)] = TurnAt("enqueue", p)
    BY <1>1, <1>2 DEF FreeOK
  <2>1. p \div SLOTS = 0 /\ p % SLOTS \in Ring
    BY <1>1, SlotAndRound DEF Ring
  <2> QED
    BY <2>1 DEF Init, Place, TurnAt
<1> QED
  BY <1>3, <1>4, <1>5 DEF Init, IInv, PosOK, AdvanceOK, ExcuseOK, BusyOK, UniqueOK, ItemOK, DataOK, Busy

(* A step of a thread that has no position of its own before or after it,  *)
(* and moves nothing but itself: what it must keep is said of it alone.    *)
LEMMA QuietStep ==
  ASSUME IInv, TypeOK', NEW t \in Threads,
         UNCHANGED <<index, turn, data>>, ~Busy(t), ~Busy(t)',
         \A u \in Threads \ {t} :
           UNCHANGED <<pc[u], op[u], pos[u], item[u], excuse[u]>>,
         pc'[t] \in {"turn", "advance", "reload"} => pos'[t] <= index[op'[t]],
         pc'[t] = "advance" /\ index[op'[t]] = pos'[t] => Mine(t)',
         pc'[t] = "reload" /\ index[op'[t]] = pos'[t] => excuse'[t],
         pc'[t] # "out" /\ op'[t] = "enqueue" => item'[t] \in Items
  PROVE  IInv'
<1>1. PosOK' /\ AdvanceOK' /\ ExcuseOK'
  BY DEF IInv, PosOK, AdvanceOK, ExcuseOK, Mine
<1>2. BusyOK' /\ UniqueOK'
  BY DEF IInv, BusyOK, UniqueOK, Busy, Mine
<1>3. BoundsOK'
  BY DEF IInv, BoundsOK
<1>4. FullOK'
  BY DEF IInv, FullOK, Busy
<1>5. FreeOK'
  BY DEF IInv, FreeOK, Busy
<1>6. ItemOK' /\ DataOK'
  BY DEF IInv, ItemOK, DataOK, Busy
<1> QED
  BY <1>1, <1>2, <1>3, <1>4, <1>5, <1>6 DEF IInv

LEMMA PlaceOfThread ==
  ASSUME TypeOK, NEW t \in Threads
  PROVE  /\ pos[t] \in Nat /\ Slot(t) = Place(pos[t]) /\ MyTurn(t) = TurnAt(op[t], pos[t])
         /\ Place(pos[t]) \in Ring /\ TurnAt(op[t], pos[t]) \in Nat
         /\ index[op[t]] \in Nat /\ op[t] \in Ops
<1>1. pos[t] \in Nat /\ op[t] \in Ops /\ index[op[t]] \in Nat
  BY DEF TypeOK
<1>2. TurnAt(op[t], pos[t]) \in Nat
  BY <1>1, Turns DEF Ops
<1> QED
  BY <1>1, <1>2, Turns DEF Slot, MyTurn, Place, TurnAt

LEMMA TypeStep ==
  ASSUME TypeOK, [Next]_vars
  PROVE  TypeOK'
<1>1. CASE UNCHANGED vars
  BY <1>1 DEF TypeOK, vars
<1>2. ASSUME NEW t \in Threads, NEW o \in Ops, Begin(t, o) PROVE TypeOK'
  <2>1. calls'[o] \in Nat /\ (o = "enqueue" => calls'[o] \in Items)
    BY <1>2, ConstantsOK DEF Begin, TypeOK, Items
  <2> QED
    BY <1>2, <2>1 DEF Begin, Goto, TypeOK
<1>3. ASSUME NEW t \in Threads, Load(t) PROVE TypeOK'
  BY <1>3 DEF Load, Goto, TypeOK
<1>4. ASSUME NEW t \in Threads, CheckTurn(t) PROVE TypeOK'
  <2>1. excuse'[t] \in BOOLEAN
    BY <1>4 DEF CheckTurn, TypeOK, NothingToDo
  <2> QED
    BY <1>4, <2>1 DEF CheckTurn, Goto, TypeOK
<1>5. ASSUME NEW t \in Threads, Advance(t) PROVE TypeOK'
  BY <1>5 DEF Advance, Goto, TypeOK
<1>6. ASSUME NEW t \in Threads, Reload(t) PROVE TypeOK'
  BY <1>6 DEF Reload, Refuses, Goto, TypeOK
<1>7. ASSUME NEW t \in Threads, Copy(t) PROVE TypeOK'
  <2>1. Slot(t) \in Ring
    BY PlaceOfThread
  <2> QED
    BY <1>7, <2>1 DEF Copy, Goto, TypeOK
<1>8. ASSUME NEW t \in Threads, PassTurn(t) PROVE TypeOK'
  <2>1. MyTurn(t) + 1 \in Nat
    BY PlaceOfThread
  <2> QED
    BY <1>8, <2>1 DEF PassTurn, Goto, TypeOK
<1> QED
  BY <1>1, <1>2, <1>3, <1>4, <1>5, <1>6, <1>7, <1>8 DEF Next, Step

LEMMA BeginInv ==
  ASSUME IInv, TypeOK', NEW t \in Threads, NEW o \in Ops, Begin(t, o)
  PROVE  IInv'
<1>1. TypeOK
  BY DEF IInv
<1>2. /\ UNCHANGED <<index, turn, data>> /\ pc[t] = "out" /\ pc'[t] = "load"
      /\ op'[t] = "enqueue" => item'[t] = calls'["enqueue"]
      /\ \A u \in Threads \ {t} : UNCHANGED <<pc[u], op[u], pos[u], item[u], excuse[u]>>
  BY <1>1 DEF Begin, Goto, TypeOK
<1>3. op'[t] = "enqueue" => item'[t] \in Items
  BY <1>1, <1>2, ConstantsOK DEF Begin, TypeOK, Items
<1> QED
  BY <1>2, <1>3, QuietStep DEF Busy

LEMMA LoadInv ==
  ASSUME IInv, TypeOK', NEW t \in Threads, Load(t)
  PROVE  IInv'
<1>1. TypeOK /\ ItemOK
  BY DEF IInv
<1>2. /\ UNCHANGED <<index, turn, data>> /\ pc[t] = "load" /\ pc'[t] = "turn"
      /\ op'[t] = op[t] /\ item'[t] = item[t] /\ pos'[t] = index[op[t]]
      /\ \A u \in Threads \ {t} : UNCHANGED <<pc[u], op[u], pos[u], item[u], excuse[u]>>
  BY <1>1 DEF Load, Goto, TypeOK
<1>3. index[op[t]] \in Nat
  BY <1>1, PlaceOfThread
<1> QED
  BY <1>1, <1>2, <1>3, QuietStep DEF Busy, ItemOK

LEMMA ReloadInv ==
  ASSUME IInv, TypeOK', NEW t \in Threads, Reload(t)
  PROVE  IInv'
<1>1. TypeOK /\ ItemOK
  BY DEF IInv
<1>2. /\ UNCHANGED <<index, turn, data>> /\ pc[t] = "reload" /\ pc'[t] \in {"out", "turn"}
      /\ op'[t] = op[t] /\ item'[t] = item[t]
      /\ pc'[t] = "turn" => pos'[t] = index[op[t]]
      /\ \A u \in Threads \ {t} : UNCHANGED <<pc[u], op[u], pos[u], item[u], excuse[u]>>
  BY <1>1 DEF Reload, Refuses, Goto, TypeOK
<1>3. index[op[t]] \in Nat
  BY <1>1, PlaceOfThread
<1> QED
  BY <1>1, <1>2, <1>3, QuietStep DEF Busy, ItemOK

(* The queue as its users see it, position by position.                    *)
CellSet == [item : Items \union {NoItem}, owner : Threads \union {Ready}]
CellsOK ==
  /\ Cells \in Seq(CellSet) /\ Len(Cells) = index["enqueue"] - index["dequeue"]
  /\ \A i \in 1..(index["enqueue"] - index["dequeue"]) :
       LET p == index["dequeue"] + i - 1
       IN  /\ turn[Place(p)] = TurnAt("dequeue", p) =>
                Cells[i] = [item |-> data[Place(p)], owner |-> Ready]
           /\ \A t \in Threads :
                op[t] = "enqueue" /\ Busy(t) /\ pos[t] = p =>
                  Cells[i] = [item |-> item[t], owner |-> t]

LEMMA SeqOf ==
  ASSUME NEW n \in Nat, NEW S, NEW f, f \in [1..n -> S]
  PROVE  f \in Seq(S) /\ Len(f) = n
<1>1. f \in Seq(S)
  BY SeqDef
<1>2. Len(f) \in Nat /\ DOMAIN f = 1..Len(f)
  BY <1>1, LenProperties
<1> QED
  BY <1>1, <1>2

LEMMA CellsFacts == IInv => CellsOK
<1> SUFFICES ASSUME IInv PROVE CellsOK
  OBVIOUS
<1> DEFINE T == index["dequeue"]
           H == index["enqueue"]
<1>1. T \in Nat /\ H \in Nat /\ H - T \in Nat
  BY DEF IInv, TypeOK, BoundsOK, Ops
<1>2. ASSUME NEW p \in T..(H - 1), NEW t \in Threads, op[t] = "enqueue", Busy(t), pos[t] = p
      PROVE  Owners(p) = {t} /\ ~Published(p)
  <2>1. Owners(p) = {t}
    BY <1>2 DEF IInv, UniqueOK, Owners, Busy
  <2>2. turn[Place(p)] = TurnAt("enqueue", p)
    BY <1>2 DEF IInv, BusyOK, Mine
  <2>3. TurnAt("dequeue", p) # TurnAt("enqueue", p)
    BY <1>1, Turns
  <2> QED
    BY <2>1, <2>2, <2>3 DEF Published, Place, TurnAt
<1>3. ASSUME NEW p \in T..(H - 1)
      PROVE  /\ turn[Place(p)] = TurnAt("dequeue", p) =>
                  Cell(p) = [item |-> data[Place(p)], owner |-> Ready]
             /\ \A t \in Threads : op[t] = "enqueue" /\ Busy(t) /\ pos[t] = p =>
                  Cell(p) = [item |-> item[t], owner |-> t]
             /\ Cell(p) \in CellSet
  <2>1. turn[Place(p)] = TurnAt("dequeue", p) =>
          Cell(p) = [item |-> data[Place(p)], owner |-> Ready]
    BY DEF Cell, Published, Place, TurnAt
  <2>2. ASSUME NEW t \in Threads, op[t] = "enqueue", Busy(t), pos[t] = p
        PROVE  Cell(p) = [item |-> item[t], owner |-> t]
    <3>1. Owners(p) = {t} /\ ~Published(p)
      BY <1>2, <2>2
    <3>2. Owner(p) = t
      BY <3>1 DEF Owner
    <3> QED
      BY <3>1, <3>2 DEF Cell
  <2>3. Place(p) \in Ring
    BY <1>1, Turns
  <2>4. CASE turn[Place(p)] = TurnAt("dequeue", p)
    BY <2>1, <2>2, <2>3, <2>4 DEF IInv, TypeOK, CellSet
  <2>5. CASE turn[Place(p)] # TurnAt("dequeue", p)
    <3>1. PICK t \in Threads : op[t] = "enqueue" /\ Busy(t) /\ pos[t] = p
      BY <2>5 DEF IInv, FullOK
    <3> QED
      BY <2>1, <2>2, <3>1 DEF IInv, TypeOK, CellSet
  <2> QED
    BY <2>4, <2>5
<1>4. /\ Cells \in [1..(H - T) -> CellSet]
      /\ \A i \in 1..(H - T) : Cells[i] = Cell(T + i - 1) /\ T + i - 1 \in T..(H - 1)
  BY <1>1, <1>3 DEF Cells
<1>5. Cells \in Seq(CellSet) /\ Len(Cells) = H - T
  BY <1>1, <1>4, SeqOf
<1> QED
  BY <1>3, <1>4, <1>5 DEF CellsOK

LEMMA CellsFactsNext == IInv' => CellsOK'
BY CellsFacts, PTL

LEMMA CheckTurnInv ==
  ASSUME IInv, TypeOK', NEW t \in Threads, CheckTurn(t)
  PROVE  IInv'
<1>1. TypeOK /\ ItemOK /\ PosOK /\ CellsOK
  BY CellsFacts DEF IInv
<1>2. /\ UNCHANGED <<index, turn, data>> /\ pc[t] = "turn"
      /\ pc'[t] = IF Mine(t) THEN "advance" ELSE "reload"
      /\ op'[t] = op[t] /\ item'[t] = item[t] /\ pos'[t] = pos[t]
      /\ excuse'[t] = NothingToDo(op[t])
      /\ \A u \in Threads \ {t} : UNCHANGED <<pc[u], op[u], pos[u], item[u], excuse[u]>>
  BY <1>1, PlaceOfThread DEF CheckTurn, Goto, TypeOK, Mine
<1>3. ASSUME ~Mine(t), index[op[t]] = pos[t]
      PROVE  NothingToDo(op[t])
  <2> DEFINE T == index["dequeue"]
             H == index["enqueue"]
  <2>1. T \in Nat /\ H \in Nat /\ T <= H /\ H <= T + SLOTS /\ SLOTS \in Nat \ {0}
    BY ConstantsOK DEF IInv, TypeOK, BoundsOK, Ops
  <2>2. CASE op[t] = "dequeue"
    <3>1. SUFFICES ASSUME T < H
                   PROVE  Head(Cells).owner # Ready
      BY <1>1, <2>1, <2>2 DEF NothingToDo, CellsOK
    <3>2. PICK u \in Threads : op[u] = "enqueue" /\ Busy(u) /\ pos[u] = T
      BY <1>3, <2>1, <2>2, <3>1 DEF IInv, FullOK, Mine
    <3>3. Cells[1].owner = u
      BY <1>1, <2>1, <3>1, <3>2 DEF CellsOK
    <3> QED
      BY <3>3, ConstantsOK
  <2>3. CASE op[t] = "enqueue"
    <3>1. SUFFICES ASSUME H < T + SLOTS
                   PROVE  \E u \in Releasing : pos[u] = H - SLOTS
      BY <1>1, <2>1, <2>3 DEF NothingToDo, CellsOK
    <3>2. PICK u \in Threads : op[u] = "dequeue" /\ Busy(u) /\ pos[u] + SLOTS = H
      BY <1>3, <2>1, <2>3, <3>1 DEF IInv, FreeOK, Mine
    <3>3. pos[u] = H - SLOTS
      BY <1>1, <2>1, <3>2, PlaceOfThread
    <3> QED
      BY <3>2, <3>3 DEF Releasing, Busy
  <2> QED
    BY <1>1, <2>2, <2>3, PlaceOfThread DEF Ops
<1>4. Mine(t)' <=> Mine(t)
  BY <1>2 DEF Mine
<1> QED
  BY <1>1, <1>2, <1>3, <1>4, QuietStep DEF Busy, ItemOK, PosOK

(* A CAS that fails is a quiet step.                                       *)
LEMMA AdvanceFails ==
  ASSUME IInv, TypeOK', NEW t \in Threads, Advance(t), index[op[t]] # pos[t]
  PROVE  IInv'
<1>1. TypeOK /\ ItemOK
  BY DEF IInv
<1>2. /\ UNCHANGED <<index, turn, data>> /\ pc[t] = "advance" /\ pc'[t] = "turn"
      /\ op'[t] = op[t] /\ item'[t] = item[t] /\ pos'[t] = index[op[t]]
      /\ \A u \in Threads \ {t} : UNCHANGED <<pc[u], op[u], pos[u], item[u], excuse[u]>>
  BY <1>1 DEF Advance, Goto, TypeOK
<1>3. index[op[t]] \in Nat
  BY <1>1, PlaceOfThread
<1> QED
  BY <1>1, <1>2, <1>3, QuietStep DEF Busy, ItemOK

(* What a CAS that succeeds finds: the place is there to be taken.         *)
LEMMA AdvanceFinds ==
  ASSUME IInv, NEW t \in Threads, pc[t] = "advance", index[op[t]] = pos[t]
  PROVE  /\ op[t] = "enqueue" => index["enqueue"] < index["dequeue"] + SLOTS
         /\ op[t] = "dequeue" =>
              /\ index["dequeue"] < index["enqueue"]
              /\ \A u \in Threads : Busy(u) /\ op[u] = "enqueue" => pos[u] # pos[t]
<1> DEFINE T == index["dequeue"]
           H == index["enqueue"]
<1>1. /\ TypeOK /\ T \in Nat /\ H \in Nat /\ T <= H /\ H <= T + SLOTS /\ SLOTS \in Nat \ {0}
      /\ Mine(t) /\ pos[t] \in Nat
  BY ConstantsOK DEF IInv, TypeOK, BoundsOK, AdvanceOK, Ops
<1>2. ASSUME op[t] = "enqueue", H = T + SLOTS PROVE FALSE
  <2>1. /\ turn[Place(T)] = TurnAt("dequeue", T) + 1
        /\ TurnAt("dequeue", T) = TurnAt("enqueue", T) + 1 /\ TurnAt("enqueue", T) \in Nat
    BY <1>1, <1>2, Turns DEF Mine
  <2>2. PICK u \in Threads : op[u] = "enqueue" /\ Busy(u) /\ pos[u] = T
    BY <1>1, <1>2, <2>1 DEF IInv, FullOK
  <2>3. turn[Place(T)] = TurnAt("enqueue", T)
    BY <2>2 DEF IInv, BusyOK, Mine
  <2> QED
    BY <2>1, <2>3
<1>3. ASSUME op[t] = "dequeue", H = T PROVE FALSE
  <2>1. /\ turn[Place(T)] = TurnAt("dequeue", T)
        /\ TurnAt("dequeue", T) = TurnAt("enqueue", T) + 1 /\ TurnAt("enqueue", T) \in Nat
    BY <1>1, <1>3, Turns DEF Mine
  <2>2. PICK u \in Threads : op[u] = "dequeue" /\ Busy(u) /\ pos[u] + SLOTS = T
    BY <1>1, <1>3, <2>1 DEF IInv, FreeOK
  <2>3. turn[Place(pos[u])] = TurnAt("dequeue", pos[u]) /\ pos[u] \in Nat
    BY <1>1, <2>2 DEF IInv, BusyOK, Mine, TypeOK
  <2>4. Place(T) = Place(pos[u]) /\ TurnAt("enqueue", T) = TurnAt("dequeue", pos[u]) + 1
    BY <2>2, <2>3, Turns
  <2> QED
    BY <2>1, <2>3, <2>4
<1>4. ASSUME op[t] = "dequeue", NEW u \in Threads, Busy(u), op[u] = "enqueue", pos[u] = pos[t]
      PROVE  FALSE
  <2>1. turn[Place(pos[t])] = TurnAt("enqueue", pos[t])
    BY <1>4 DEF IInv, BusyOK, Mine
  <2> QED
    BY <1>1, <1>4, <2>1, Turns DEF Mine
<1> QED
  BY <1>1, <1>2, <1>3, <1>4

LEMMA AdvanceInv ==
  ASSUME IInv, TypeOK', NEW t \in Threads, Advance(t), index[op[t]] = pos[t]
  PROVE  IInv'
<1> DEFINE T == index["dequeue"]
           H == index["enqueue"]
<1>1. /\ TypeOK /\ T \in Nat /\ H \in Nat /\ T <= H /\ H <= T + SLOTS /\ SLOTS \in Nat \ {0}
      /\ pos[t] \in Nat /\ op[t] \in Ops
  BY ConstantsOK DEF IInv, TypeOK, BoundsOK, Ops
<1>2. /\ UNCHANGED <<turn, data, op, pos, item, excuse>>
      /\ pc[t] = "advance" /\ pc'[t] = "copy" /\ \A u \in Threads \ {t} : pc'[u] = pc[u]
      /\ index' = [index EXCEPT ![op[t]] = pos[t] + 1]
  BY <1>1 DEF Advance, Goto, TypeOK
<1>3. /\ op[t] = "enqueue" => H < T + SLOTS
      /\ op[t] = "dequeue" => /\ T < H
                              /\ \A u \in Threads : Busy(u) /\ op[u] = "enqueue" => pos[u] # pos[t]
  BY <1>2, AdvanceFinds
<1>4. /\ \A o \in Ops : index'[o] = IF o = op[t] THEN index[o] + 1 ELSE index[o]
      /\ \A o \in Ops : index[o] \in Nat
  BY <1>1, <1>2 DEF TypeOK
<1>5. Busy(t)' /\ Mine(t) /\ ~Busy(t) /\ \A u \in Threads \ {t} : Busy(u)' = Busy(u)
  BY <1>2 DEF Busy, IInv, AdvanceOK
<1>6. \A u \in Threads : Mine(u)' = Mine(u) /\ op[u] \in Ops /\ pos[u] \in Nat
  BY <1>1, <1>2 DEF Mine, TypeOK
<1>7. PosOK' /\ AdvanceOK' /\ ExcuseOK'
  BY <1>2, <1>4, <1>6 DEF IInv, PosOK, AdvanceOK, ExcuseOK
<1>8. BusyOK'
  <2> SUFFICES ASSUME NEW u \in Threads, Busy(u)'
               PROVE  /\ pos[u] < index'[op[u]] /\ Mine(u)'
                      /\ op[u] = "enqueue" => index'["dequeue"] <= pos[u]
    BY <1>2 DEF BusyOK
  <2>1. CASE u = t
    BY <1>1, <1>4, <1>5, <1>6, <2>1 DEF Ops
  <2>2. CASE u # t
    BY <1>1, <1>3, <1>4, <1>5, <1>6, <2>2 DEF IInv, BusyOK, Ops
  <2> QED
    BY <2>1, <2>2
<1>9. UniqueOK'
  <2>1. \A u \in Threads : Busy(u) /\ op[u] = op[t] => pos[u] # pos[t]
    BY <1>1, <1>6 DEF IInv, BusyOK
  <2> QED
    BY <1>2, <1>5, <2>1 DEF IInv, UniqueOK
<1>10. BoundsOK'
  BY <1>1, <1>3, <1>4 DEF BoundsOK, Ops
<1>11. FullOK'
  BY <1>1, <1>2, <1>4, <1>5 DEF IInv, FullOK, Ops
<1>12. FreeOK'
  BY <1>1, <1>2, <1>4, <1>5 DEF IInv, FreeOK, Ops
<1>13. ItemOK' /\ DataOK'
  BY <1>2 DEF IInv, ItemOK, DataOK
<1> QED
  BY <1>7, <1>8, <1>9, <1>10, <1>11, <1>12, <1>13 DEF IInv

LEMMA CopyInv ==
  ASSUME IInv, TypeOK', NEW t \in Threads, Copy(t)
  PROVE  IInv'
<1>1. TypeOK /\ Slot(t) = Place(pos[t]) /\ Place(pos[t]) \in Ring /\ pos[t] \in Nat
  BY PlaceOfThread DEF IInv
<1>2. /\ UNCHANGED <<index, turn, op, pos, excuse>>
      /\ pc[t] = "copy" /\ pc'[t] = "pass" /\ \A u \in Threads \ {t} : pc'[u] = pc[u]
      /\ \A u \in Threads : u # t \/ op[t] = "enqueue" => item'[u] = item[u]
      /\ op[t] = "enqueue" => data' = [data EXCEPT ![Place(pos[t])] = item[t]]
      /\ op[t] = "dequeue" => data' = data
      /\ op[t] \in Ops
  BY <1>1 DEF Copy, Goto, TypeOK, Ops
<1>3. \A u \in Threads : Busy(u)' = Busy(u) /\ Mine(u)' = Mine(u)
  BY <1>2 DEF Busy, Mine
<1>4. PosOK' /\ AdvanceOK' /\ ExcuseOK'
  BY <1>2, <1>3 DEF IInv, PosOK, AdvanceOK, ExcuseOK
<1>5. BusyOK' /\ UniqueOK' /\ BoundsOK'
  BY <1>2, <1>3 DEF IInv, BusyOK, UniqueOK, BoundsOK
<1>6. FullOK' /\ FreeOK'
  BY <1>2, <1>3 DEF IInv, FullOK, FreeOK
<1>7. ItemOK'
  BY <1>2 DEF IInv, ItemOK
<1>8. DataOK'
  <2> SUFFICES ASSUME NEW u \in Threads, pc'[u] = "pass", op[u] = "enqueue"
               PROVE  data'[Place(pos[u])] = item'[u]
    BY <1>2 DEF DataOK
  <2>1. CASE u = t
    BY <1>1, <1>2, <2>1 DEF TypeOK
  <2>2. CASE u # t /\ op[t] = "dequeue"
    BY <1>2, <2>2 DEF IInv, DataOK
  <2>3. CASE u # t /\ op[t] = "enqueue"
    <3>1. Busy(u) /\ Busy(t) /\ pos[u] \in Nat /\ pos[u] # pos[t]
      BY <1>1, <1>2, <2>3 DEF Busy, IInv, UniqueOK, TypeOK
    <3>2. Place(pos[u]) # Place(pos[t])
      BY <1>1, <2>3, <3>1, OneTurn DEF IInv, BusyOK, Mine, Ops
    <3>3. Place(pos[u]) \in Ring /\ pc[u] = "pass"
      BY <1>2, <2>3, <3>1, Turns
    <3> QED
      BY <1>1, <1>2, <2>3, <3>2, <3>3 DEF IInv, DataOK, TypeOK
  <2> QED
    BY <1>2, <2>1, <2>2, <2>3 DEF Ops
<1> QED
  BY <1>4, <1>5, <1>6, <1>7, <1>8 DEF IInv

LEMMA PassTurnInv ==
  ASSUME IInv, TypeOK', NEW t \in Threads, PassTurn(t)
  PROVE  IInv'
<1> DEFINE T == index["dequeue"]
           H == index["enqueue"]
           q == pos[t]
<1>1. /\ TypeOK /\ T \in Nat /\ H \in Nat /\ T <= H /\ H <= T + SLOTS /\ SLOTS \in Nat \ {0}
      /\ q \in Nat /\ Place(q) \in Ring /\ op[t] \in Ops
  BY ConstantsOK, PlaceOfThread DEF IInv, TypeOK, BoundsOK, Ops
<1>2. /\ UNCHANGED <<index, data, op, pos, item, excuse>>
      /\ pc[t] = "pass" /\ pc'[t] = "out" /\ \A u \in Threads \ {t} : pc'[u] = pc[u]
      /\ turn' = [turn EXCEPT ![Place(q)] = TurnAt(op[t], q) + 1]
  BY <1>1, PlaceOfThread DEF PassTurn, Goto, TypeOK
<1>3. /\ Busy(t) /\ ~Busy(t)' /\ \A u \in Threads \ {t} : Busy(u)' = Busy(u)
      /\ turn[Place(q)] = TurnAt(op[t], q) /\ q < index[op[t]]
      /\ op[t] = "enqueue" => T <= q
  BY <1>2 DEF Busy, IInv, BusyOK, Mine
<1>4. /\ \A p \in Nat : Place(p) # Place(q) => turn'[Place(p)] = turn[Place(p)]
      /\ turn'[Place(q)] = TurnAt(op[t], q) + 1
  BY <1>1, <1>2, Turns DEF TypeOK
(* Whoever waits at this slot for its turn waits for another turn.         *)
<1>5. ASSUME NEW p \in Nat, NEW o \in Ops, Place(p) = Place(q), turn[Place(p)] = TurnAt(o, p)
      PROVE  p = q /\ o = op[t]
  BY <1>1, <1>3, <1>5, OneTurn
<1>6. ASSUME NEW u \in Threads, u # t, Mine(u), Busy(u) \/ index[op[u]] = pos[u]
      PROVE  Mine(u)'
  <2>1. pos[u] \in Nat /\ op[u] \in Ops
    BY <1>1 DEF TypeOK
  <2>2. CASE Place(pos[u]) = Place(q)
    <3>1. pos[u] = q /\ op[u] = op[t]
      BY <1>5, <1>6, <2>1, <2>2 DEF Mine
    <3> QED
      BY <1>1, <1>3, <1>6, <3>1 DEF IInv, UniqueOK
  <2>3. CASE Place(pos[u]) # Place(q)
    BY <1>2, <1>4, <1>6, <2>1, <2>3 DEF Mine
  <2> QED
    BY <2>2, <2>3
<1>7. PosOK' /\ AdvanceOK' /\ ExcuseOK'
  BY <1>2, <1>6 DEF IInv, PosOK, AdvanceOK, ExcuseOK
<1>8. BusyOK' /\ UniqueOK' /\ BoundsOK'
  BY <1>2, <1>3, <1>6 DEF IInv, BusyOK, UniqueOK, BoundsOK
<1>9. FullOK'
  <2> SUFFICES ASSUME NEW p \in T..(H - 1)
               PROVE  \/ turn'[Place(p)] = TurnAt("dequeue", p)
                      \/ \E u \in Threads : op[u] = "enqueue" /\ Busy(u)' /\ pos[u] = p
    BY <1>2 DEF FullOK
  <2>1. p \in Nat
    BY <1>1
  <2>2. CASE turn[Place(p)] = TurnAt("dequeue", p)
    <3>1. Place(p) # Place(q)
      BY <1>1, <1>3, <1>5, <2>1, <2>2 DEF Ops
    <3> QED
      BY <1>4, <2>1, <2>2, <3>1
  <2>3. ASSUME NEW u \in Threads, op[u] = "enqueue", Busy(u), pos[u] = p
        PROVE  \/ turn'[Place(p)] = TurnAt("dequeue", p)
               \/ op[u] = "enqueue" /\ Busy(u)' /\ pos[u] = p
    BY <1>1, <1>3, <1>4, <2>1, <2>3, Turns
  <2> QED
    BY <2>2, <2>3 DEF IInv, FullOK
<1>10. FreeOK'
  <2> SUFFICES ASSUME NEW p \in H..(T + SLOTS - 1)
               PROVE  \/ turn'[Place(p)] = TurnAt("enqueue", p)
                      \/ \E u \in Threads : op[u] = "dequeue" /\ Busy(u)' /\ pos[u] + SLOTS = p
    BY <1>2 DEF FreeOK
  <2>1. p \in Nat
    BY <1>1
  <2>2. CASE turn[Place(p)] = TurnAt("enqueue", p)
    <3>1. Place(p) # Place(q)
      BY <1>1, <1>3, <1>5, <2>1, <2>2 DEF Ops
    <3> QED
      BY <1>4, <2>1, <2>2, <3>1
  <2>3. ASSUME NEW u \in Threads, op[u] = "dequeue", Busy(u), pos[u] + SLOTS = p
        PROVE  \/ turn'[Place(p)] = TurnAt("enqueue", p)
               \/ op[u] = "dequeue" /\ Busy(u)' /\ pos[u] + SLOTS = p
    BY <1>1, <1>3, <1>4, <2>1, <2>3, Turns
  <2> QED
    BY <2>2, <2>3 DEF IInv, FreeOK
<1>11. ItemOK' /\ DataOK'
  BY <1>2 DEF IInv, ItemOK, DataOK
<1> QED
  BY <1>7, <1>8, <1>9, <1>10, <1>11 DEF IInv

-----------------------------------------------------------------------------
(* Safety.                                                                 *)

(* The invariant is inductive, for any number of threads, slots and calls. *)
THEOREM Invariance == SafeSpec => []IInv
<1>1. Init => IInv
  BY InitInv
<1>2. IInv /\ [Next]_vars => IInv'
  <2> SUFFICES ASSUME IInv, [Next]_vars PROVE IInv'
    OBVIOUS
  <2>1. TypeOK'
    BY TypeStep DEF IInv
  <2>2. CASE UNCHANGED vars
    BY <2>2 DEF vars, IInv, TypeOK, PosOK, AdvanceOK, ExcuseOK, BusyOK, UniqueOK, BoundsOK, FullOK,
               FreeOK, ItemOK, DataOK, Busy, Mine
  <2>3. ASSUME NEW t \in Threads, NEW o \in Ops, Begin(t, o) PROVE IInv'
    BY <2>1, <2>3, BeginInv
  <2>4. ASSUME NEW t \in Threads, Step(t) PROVE IInv'
    <3>1. CASE Load(t)
      BY <2>1, <3>1, LoadInv
    <3>2. CASE CheckTurn(t)
      BY <2>1, <3>2, CheckTurnInv
    <3>3. CASE Advance(t)
      BY <2>1, <3>3, AdvanceInv, AdvanceFails
    <3>4. CASE Reload(t)
      BY <2>1, <3>4, ReloadInv
    <3>5. CASE Copy(t)
      BY <2>1, <3>5, CopyInv
    <3>6. CASE PassTurn(t)
      BY <2>1, <3>6, PassTurnInv
    <3> QED
      BY <2>4, <3>1, <3>2, <3>3, <3>4, <3>5, <3>6 DEF Step
  <2> QED
    BY <2>2, <2>3, <2>4 DEF Next
<1> QED
  BY <1>1, <1>2, PTL DEF SafeSpec

(* The slot that a thread copies to or from is its own: whoever else       *)
(* copies there would have found the same turn, so the same position of    *)
(* the same operation, and one CAS gives a position to one thread.         *)
THEOREM CopiesAreExclusiveAlways == Spec => []CopiesAreExclusive
<1>1. IInv => CopiesAreExclusive
  <2> SUFFICES ASSUME IInv, NEW t \in Copying, NEW u \in Copying, Slot(t) = Slot(u)
               PROVE  t = u
    BY DEF CopiesAreExclusive, IInv
  <2>1. /\ TypeOK /\ t \in Threads /\ u \in Threads /\ Busy(t) /\ Busy(u)
        /\ Place(pos[t]) = Place(pos[u])
    BY PlaceOfThread DEF IInv, Copying, Busy
  <2>2. turn[Place(pos[t])] = TurnAt(op[t], pos[t]) /\ turn[Place(pos[u])] = TurnAt(op[u], pos[u])
    BY <2>1 DEF IInv, BusyOK, Mine
  <2>3. pos[t] = pos[u] /\ op[t] = op[u]
    BY <2>1, <2>2, PlaceOfThread, OneTurn
  <2> QED
    BY <2>1, <2>3 DEF IInv, UniqueOK
<1> QED
  BY <1>1, Invariance, PTL DEF Spec

(* An answer "full" or "empty" was true when the thread read the turn: its *)
(* index still is what it was then, and indices only grow.                 *)
THEOREM RefusalsAreHonestAlways == Spec => []RefusalsAreHonest
<1>1. IInv => RefusalsAreHonest
  BY DEF IInv, ExcuseOK, RefusalsAreHonest, Refuses
<1> QED
  BY <1>1, Invariance, PTL DEF Spec

-----------------------------------------------------------------------------
(* The ring implements BoundedFifo: every step is a step of it or none.    *)

Gots == [u \in Threads |-> Got(u)]

LEMMA FifoInit == Init => Fifo!Init
<1> SUFFICES ASSUME Init PROVE Cells = <<>> /\ Gots = [u \in Threads |-> NoItem]
  BY DEF Fifo!Init, Gots
<1>1. IInv /\ index["enqueue"] = 0 /\ index["dequeue"] = 0
  BY InitInv DEF Init, Ops
<1>2. Cells \in Seq(CellSet) /\ Len(Cells) = 0
  BY <1>1, CellsFacts DEF CellsOK
<1> QED
  BY <1>2 DEF Init, Gots, Got

LEMMA Stutter ==
  ASSUME Cells' = Cells, \A u \in Threads : Got(u)' = Got(u)
  PROVE  UNCHANGED Fifo!vars
BY DEF Fifo!vars

(* The cells stay as they are when no position changes hands.              *)
LEMMA SameCells ==
  ASSUME IInv, IInv', index' = index,
         \A p \in index["dequeue"]..(index["enqueue"] - 1) :
           turn'[Place(p)] = TurnAt("dequeue", p) =>
             turn[Place(p)] = TurnAt("dequeue", p) /\ data'[Place(p)] = data[Place(p)],
         \A u \in Threads :
           op'[u] = "enqueue" /\ Busy(u)' =>
             op[u] = "enqueue" /\ Busy(u) /\ pos'[u] = pos[u] /\ item'[u] = item[u]
  PROVE  Cells' = Cells
<1> DEFINE T == index["dequeue"]
           n == index["enqueue"] - index["dequeue"]
<1>1. T \in Nat /\ n \in Nat /\ index["enqueue"] \in Nat
  BY DEF IInv, TypeOK, BoundsOK, Ops
<1>2. CellsOK /\ CellsOK' /\ FullOK'
  BY CellsFacts, CellsFactsNext DEF IInv
<1>3. /\ Cells \in Seq(CellSet) /\ Cells' \in Seq(CellSet) /\ Len(Cells) = n /\ Len(Cells') = n
  BY <1>2 DEF CellsOK, CellSet
<1>4. ASSUME NEW i \in 1..n PROVE Cells'[i] = Cells[i]
  <2> DEFINE p == T + i - 1
  <2>1. p \in T..(index["enqueue"] - 1)
    BY <1>1
  <2>2. CASE turn'[Place(p)] = TurnAt("dequeue", p)
    BY <1>2, <2>1, <2>2 DEF CellsOK
  <2>3. CASE turn'[Place(p)] # TurnAt("dequeue", p)
    <3>1. PICK u \in Threads : op'[u] = "enqueue" /\ Busy(u)' /\ pos'[u] = p
      BY <1>2, <2>1, <2>3 DEF FullOK
    <3>2. Cells'[i] = [item |-> item'[u], owner |-> u]
      BY <1>2, <3>1 DEF CellsOK
    <3>3. Cells[i] = [item |-> item[u], owner |-> u]
      BY <1>2, <3>1 DEF CellsOK
    <3> QED
      BY <3>1, <3>2, <3>3
  <2> QED
    BY <2>2, <2>3
<1> QED
  BY <1>3, <1>4, SeqEqual

LEMMA BeginFifo ==
  ASSUME IInv, IInv', NEW t \in Threads, NEW o \in Ops, Begin(t, o)
  PROVE  Fifo!Forget(t)
<1>1. /\ UNCHANGED <<index, turn, data>> /\ pc[t] = "out" /\ pc'[t] = "load" /\ op'[t] = o
      /\ o = "dequeue" => item'[t] = NoItem
      /\ \A u \in Threads \ {t} : UNCHANGED <<pc[u], op[u], pos[u], item[u]>>
  BY DEF Begin, Goto, IInv, TypeOK, Ops
<1>2. Cells' = Cells
  BY <1>1, SameCells DEF Busy
<1>3. Got(t)' = NoItem /\ \A u \in Threads \ {t} : Got(u)' = Got(u)
  BY <1>1 DEF Got, Slot
<1> QED
  BY <1>2, <1>3 DEF Fifo!Forget

(* Reading an index or a turn changes neither cells nor items.             *)
LEMMA ReadFifo ==
  ASSUME IInv, IInv', NEW t \in Threads,
         Load(t) \/ CheckTurn(t) \/ Reload(t) \/ (Advance(t) /\ index[op[t]] # pos[t])
  PROVE  UNCHANGED Fifo!vars
<1>1. /\ UNCHANGED <<index, turn, data, op, item>>
      /\ ~Busy(t) /\ ~Busy(t)' /\ pc[t] # "copy" /\ pc'[t] # "copy"
      /\ \A u \in Threads \ {t} : UNCHANGED <<pc[u], pos[u]>>
  BY DEF Load, CheckTurn, Reload, Refuses, Advance, Goto, IInv, TypeOK, Busy
<1>2. Cells' = Cells
  BY <1>1, SameCells DEF Busy
<1>3. \A u \in Threads : Got(u)' = Got(u)
  BY <1>1 DEF Got, Slot
<1> QED
  BY <1>2, <1>3, Stutter

(* The CAS on head claims the next place.                                  *)
LEMMA ClaimFifo ==
  ASSUME IInv, IInv', NEW t \in Threads, Advance(t), index[op[t]] = pos[t], op[t] = "enqueue"
  PROVE  item[t] \in Items /\ Fifo!Claim(t, item[t])
<1> DEFINE T == index["dequeue"]
           H == index["enqueue"]
           n == H - T
           cell == [item |-> item[t], owner |-> t]
<1>1. /\ UNCHANGED <<turn, data, op, pos, item>>
      /\ pc[t] = "advance" /\ pc'[t] = "copy" /\ \A u \in Threads \ {t} : pc'[u] = pc[u]
      /\ index'["enqueue"] = H + 1 /\ index'["dequeue"] = T /\ pos[t] = H
  BY DEF Advance, Goto, IInv, TypeOK, Ops
<1>2. T \in Nat /\ H \in Nat /\ n \in Nat /\ SLOTS \in Nat /\ H < T + SLOTS
  BY <1>1, AdvanceFinds, ConstantsOK DEF IInv, TypeOK, BoundsOK, Ops
<1>3. item[t] \in Items /\ cell \in CellSet
  BY <1>1 DEF IInv, ItemOK, CellSet
<1>4. CellsOK /\ CellsOK' /\ FullOK
  BY CellsFacts, CellsFactsNext DEF IInv
<1>5. /\ Cells \in Seq(CellSet) /\ Cells' \in Seq(CellSet) /\ Len(Cells) = n /\ Len(Cells') = n + 1
      /\ Append(Cells, cell) \in Seq(CellSet) /\ Len(Append(Cells, cell)) = n + 1
      /\ \A i \in 1..n : Append(Cells, cell)[i] = Cells[i]
      /\ Append(Cells, cell)[n + 1] = cell
  BY <1>1, <1>2, <1>3, <1>4 DEF CellsOK, CellSet
<1>6. ASSUME NEW i \in 1..n PROVE Cells'[i] = Cells[i]
  <2> DEFINE p == T + i - 1
  <2>1. p \in T..(H - 1) /\ i \in 1..(index'["enqueue"] - index'["dequeue"])
    BY <1>1, <1>2
  <2>2. CASE turn[Place(p)] = TurnAt("dequeue", p)
    BY <1>1, <1>4, <2>1, <2>2 DEF CellsOK
  <2>3. CASE turn[Place(p)] # TurnAt("dequeue", p)
    <3>1. PICK u \in Threads : op[u] = "enqueue" /\ Busy(u) /\ pos[u] = p
      BY <1>4, <2>1, <2>3 DEF FullOK
    <3>2. Busy(u)'
      BY <1>1, <3>1 DEF Busy
    <3>3. Cells'[i] = [item |-> item[u], owner |-> u]
      BY <1>1, <1>4, <2>1, <3>1, <3>2 DEF CellsOK
    <3>4. Cells[i] = [item |-> item[u], owner |-> u]
      BY <1>4, <3>1 DEF CellsOK
    <3> QED
      BY <3>3, <3>4
  <2> QED
    BY <2>2, <2>3
<1>7. Cells'[n + 1] = cell
  <2>1. n + 1 \in 1..(index'["enqueue"] - index'["dequeue"]) /\ index'["dequeue"] + (n + 1) - 1 = H
    BY <1>1, <1>2
  <2>2. op'[t] = "enqueue" /\ Busy(t)' /\ pos'[t] = H
    BY <1>1 DEF Busy
  <2> QED
    BY <1>1, <1>4, <2>1, <2>2 DEF CellsOK
<1>8. \A i \in 1..(n + 1) : Cells'[i] = Append(Cells, cell)[i]
  BY <1>2, <1>5, <1>6, <1>7
<1>9. Cells' = Append(Cells, cell)
  BY <1>2, <1>5, <1>8, SeqEqual
<1>10. \A u \in Threads : Got(u)' = Got(u)
  BY <1>1 DEF Got, Slot
<1> QED
  BY <1>2, <1>3, <1>5, <1>9, <1>10 DEF Fifo!Claim

(* The CAS on tail hands over the oldest item.                             *)
LEMMA TakeFifo ==
  ASSUME IInv, IInv', NEW t \in Threads, Advance(t), index[op[t]] = pos[t], op[t] = "dequeue"
  PROVE  Fifo!Take(t)
<1> DEFINE T == index["dequeue"]
           H == index["enqueue"]
           n == H - T
<1>1. /\ UNCHANGED <<turn, data, op, pos, item>>
      /\ pc[t] = "advance" /\ pc'[t] = "copy" /\ \A u \in Threads \ {t} : pc'[u] = pc[u]
      /\ index'["enqueue"] = H /\ index'["dequeue"] = T + 1 /\ pos[t] = T
  BY DEF Advance, Goto, IInv, TypeOK, Ops
<1>2. T \in Nat /\ H \in Nat /\ n \in Nat /\ n >= 1
  BY <1>1, AdvanceFinds DEF IInv, TypeOK, BoundsOK, Ops
<1>3. CellsOK /\ CellsOK' /\ FullOK /\ Mine(t)
  BY <1>1, CellsFacts, CellsFactsNext DEF IInv, AdvanceOK
<1>4. Cells \in Seq(CellSet) /\ Cells' \in Seq(CellSet) /\ Len(Cells) = n /\ Len(Cells') = n - 1
  BY <1>1, <1>2, <1>3 DEF CellsOK, CellSet
<1>5. /\ Cells # <<>> /\ Tail(Cells) \in Seq(CellSet) /\ Len(Tail(Cells)) = n - 1
      /\ \A i \in 1..(n - 1) : Tail(Cells)[i] = Cells[i + 1]
  BY <1>2, <1>4, HeadTailProperties
<1>6. Cells[1] = [item |-> data[Place(T)], owner |-> Ready]
  BY <1>1, <1>2, <1>3 DEF CellsOK, Mine
<1>7. ASSUME NEW i \in 1..(n - 1) PROVE Cells'[i] = Cells[i + 1]
  <2> DEFINE p == T + i
  <2>1. /\ p \in T..(H - 1) /\ i \in 1..(index'["enqueue"] - index'["dequeue"]) /\ i + 1 \in 1..n
        /\ index'["dequeue"] + i - 1 = p /\ T + (i + 1) - 1 = p
    BY <1>1, <1>2
  <2>2. CASE turn[Place(p)] = TurnAt("dequeue", p)
    <3>1. Cells'[i] = [item |-> data[Place(p)], owner |-> Ready]
      BY <1>1, <1>3, <2>1, <2>2 DEF CellsOK
    <3>2. Cells[i + 1] = [item |-> data[Place(p)], owner |-> Ready]
      BY <1>3, <2>1, <2>2 DEF CellsOK
    <3> QED
      BY <3>1, <3>2
  <2>3. CASE turn[Place(p)] # TurnAt("dequeue", p)
    <3>1. PICK u \in Threads : op[u] = "enqueue" /\ Busy(u) /\ pos[u] = p
      BY <1>3, <2>1, <2>3 DEF FullOK
    <3>2. Busy(u)'
      BY <1>1, <3>1 DEF Busy
    <3>3. Cells'[i] = [item |-> item[u], owner |-> u]
      BY <1>1, <1>3, <2>1, <3>1, <3>2 DEF CellsOK
    <3>4. Cells[i + 1] = [item |-> item[u], owner |-> u]
      BY <1>3, <2>1, <3>1 DEF CellsOK
    <3> QED
      BY <3>3, <3>4
  <2> QED
    BY <2>2, <2>3
<1>8. Cells' = Tail(Cells)
  BY <1>2, <1>4, <1>5, <1>7, SeqEqual
<1>9. Got(t)' = data[Place(T)] /\ \A u \in Threads \ {t} : Got(u)' = Got(u)
  BY <1>1 DEF Got, Slot, Place
<1>10. Head(Cells) = [item |-> data[Place(T)], owner |-> Ready]
  BY <1>6
<1>11. Head(Cells).owner = Ready /\ Head(Cells).item = Got(t)'
  BY <1>9, <1>10
<1>12. [u \in Threads |-> Got(u)]' = [[u \in Threads |-> Got(u)] EXCEPT ![t] = Head(Cells).item]
  BY <1>9, <1>11
<1> QED
  BY <1>5, <1>8, <1>11, <1>12 DEF Fifo!Take

(* A copy into a slot is not seen before the turn is passed on, and a copy *)
(* out of one delivers what was taken.                                     *)
LEMMA CopyFifo ==
  ASSUME IInv, IInv', NEW t \in Threads, Copy(t)
  PROVE  UNCHANGED Fifo!vars
<1> DEFINE q == pos[t]
<1>1. TypeOK /\ Slot(t) = Place(q) /\ Place(q) \in Ring /\ q \in Nat /\ op[t] \in Ops
  BY PlaceOfThread DEF IInv
<1>2. /\ UNCHANGED <<index, turn, op, pos>>
      /\ pc[t] = "copy" /\ pc'[t] = "pass" /\ \A u \in Threads \ {t} : pc'[u] = pc[u]
      /\ \A u \in Threads : u # t \/ op[t] = "enqueue" => item'[u] = item[u]
      /\ op[t] = "enqueue" => data' = [data EXCEPT ![Place(q)] = item[t]]
      /\ op[t] = "dequeue" => data' = data /\ item'[t] = data[Place(q)]
  BY <1>1 DEF Copy, Goto, TypeOK, Ops
<1>3. turn[Place(q)] = TurnAt(op[t], q)
  BY <1>2 DEF IInv, BusyOK, Busy, Mine
<1>4. ASSUME NEW p \in Nat, turn[Place(p)] = TurnAt("dequeue", p)
      PROVE  data'[Place(p)] = data[Place(p)]
  <2>1. CASE op[t] = "dequeue"
    BY <1>2, <2>1
  <2>2. CASE op[t] = "enqueue"
    <3>1. Place(p) # Place(q)
      BY <1>1, <1>3, <1>4, <2>2, OneTurn DEF Ops
    <3>2. Place(p) \in Ring
      BY Turns
    <3> QED
      BY <1>1, <1>2, <2>2, <3>1, <3>2 DEF TypeOK
  <2> QED
    BY <1>1, <2>1, <2>2 DEF Ops
<1>5. \A u \in Threads : Busy(u)' = Busy(u)
  BY <1>2 DEF Busy
<1>6. Cells' = Cells
  <2>1. index["dequeue"] \in Nat /\ index["enqueue"] \in Nat
    BY <1>1 DEF TypeOK, Ops
  <2>2. \A p \in index["dequeue"]..(index["enqueue"] - 1) : p \in Nat
    BY <2>1
  <2> QED
    BY <1>2, <1>4, <1>5, <2>2, SameCells
<1>7. ASSUME NEW u \in Threads PROVE Got(u)' = Got(u)
  <2>1. CASE u = t
    BY <1>1, <1>2, <2>1 DEF Got, Ops
  <2>2. CASE u # t /\ op[u] = "dequeue" /\ pc[u] = "copy"
    <3>1. /\ turn[Place(pos[u])] = TurnAt("dequeue", pos[u]) /\ pos[u] \in Nat
          /\ Slot(u) = Place(pos[u])
      BY <1>1, <2>2, PlaceOfThread DEF IInv, BusyOK, Busy, Mine
    <3>2. Slot(u)' = Place(pos[u])
      BY <1>2, <3>1 DEF Slot
    <3> QED
      BY <1>2, <1>4, <2>2, <3>1, <3>2 DEF Got
  <2>3. CASE u # t /\ ~(op[u] = "dequeue" /\ pc[u] = "copy")
    BY <1>2, <2>3 DEF Got
  <2> QED
    BY <2>1, <2>2, <2>3
<1> QED
  BY <1>6, <1>7, Stutter

(* Passing the turn on publishes what was enqueued.                        *)
LEMMA PublishFifo ==
  ASSUME IInv, IInv', NEW t \in Threads, PassTurn(t), op[t] = "enqueue"
  PROVE  \E i \in DOMAIN Cells : Fifo!Publish(i)
<1> DEFINE T == index["dequeue"]
           H == index["enqueue"]
           n == H - T
           q == pos[t]
           j == q - T + 1
           cell == [item |-> item[t], owner |-> Ready]
<1>1. TypeOK /\ q \in Nat /\ Place(q) \in Ring /\ MyTurn(t) = TurnAt("enqueue", q)
  BY PlaceOfThread DEF IInv
<1>2. /\ UNCHANGED <<index, data, op, pos, item>>
      /\ pc[t] = "pass" /\ pc'[t] = "out" /\ \A u \in Threads \ {t} : pc'[u] = pc[u]
      /\ turn' = [turn EXCEPT ![Place(q)] = TurnAt("enqueue", q) + 1]
  BY <1>1, PlaceOfThread DEF PassTurn, Goto, TypeOK
<1>3. /\ Busy(t) /\ T <= q /\ q < H /\ turn[Place(q)] = TurnAt("enqueue", q)
      /\ data[Place(q)] = item[t] /\ item[t] \in Items
  BY <1>2 DEF IInv, BusyOK, Busy, Mine, DataOK, ItemOK
<1>4. T \in Nat /\ H \in Nat /\ n \in Nat /\ j \in 1..n
  BY <1>1, <1>3 DEF TypeOK, Ops
<1>5. CellsOK /\ CellsOK' /\ FullOK
  BY CellsFacts, CellsFactsNext DEF IInv
<1>6. Cells \in Seq(CellSet) /\ Cells' \in Seq(CellSet) /\ Len(Cells) = n /\ Len(Cells') = n
  BY <1>2, <1>4, <1>5 DEF CellsOK, CellSet
<1>7. Cells[j] = [item |-> item[t], owner |-> t]
  BY <1>1, <1>3, <1>4, <1>5 DEF CellsOK
<1>8. Cells'[j] = cell
  <2>1. turn'[Place(q)] = TurnAt("dequeue", q)
    BY <1>1, <1>2, Turns DEF TypeOK
  <2>2. j \in 1..(index'["enqueue"] - index'["dequeue"]) /\ index'["dequeue"] + j - 1 = q
    BY <1>1, <1>2, <1>4
  <2> QED
    BY <1>2, <1>3, <1>5, <2>1, <2>2 DEF CellsOK
<1>9. ASSUME NEW i \in 1..n, i # j PROVE Cells'[i] = Cells[i]
  <2> DEFINE p == T + i - 1
  <2>1. p \in T..(H - 1) /\ p \in Nat /\ p # q /\ i \in 1..(index'["enqueue"] - index'["dequeue"])
    BY <1>1, <1>2, <1>4, <1>9
  <2>2. CASE turn[Place(p)] = TurnAt("dequeue", p)
    <3>1. Place(p) # Place(q) /\ Place(p) \in Ring
      BY <1>1, <1>3, <2>1, <2>2, OneTurn, Turns DEF Ops
    <3>2. turn'[Place(p)] = TurnAt("dequeue", p)
      BY <1>1, <1>2, <2>2, <3>1 DEF TypeOK
    <3> QED
      BY <1>2, <1>5, <2>1, <2>2, <3>2 DEF CellsOK
  <2>3. CASE turn[Place(p)] # TurnAt("dequeue", p)
    <3>1. PICK u \in Threads : op[u] = "enqueue" /\ Busy(u) /\ pos[u] = p
      BY <1>5, <2>1, <2>3 DEF FullOK
    <3>2. Busy(u)'
      BY <1>2, <2>1, <3>1 DEF Busy
    <3>3. Cells'[i] = [item |-> item[u], owner |-> u]
      BY <1>2, <1>5, <2>1, <3>1, <3>2 DEF CellsOK
    <3>4. Cells[i] = [item |-> item[u], owner |-> u]
      BY <1>5, <3>1 DEF CellsOK
    <3> QED
      BY <3>3, <3>4
  <2> QED
    BY <2>2, <2>3
<1>10. [Cells EXCEPT ![j] = [item |-> @.item, owner |-> Ready]] = [Cells EXCEPT ![j] = cell]
  BY <1>7
<1>11. /\ [Cells EXCEPT ![j] = cell] \in Seq(CellSet)
       /\ Len([Cells EXCEPT ![j] = cell]) = n
       /\ \A i \in 1..n : [Cells EXCEPT ![j] = cell][i] = IF i = j THEN cell ELSE Cells[i]
  <2>1. cell \in CellSet
    BY <1>3 DEF CellSet
  <2> QED
    BY <1>4, <1>6, <2>1, ExceptSeq
<1>12. \A i \in 1..n : Cells'[i] = [Cells EXCEPT ![j] = cell][i]
  BY <1>8, <1>9, <1>11
<1>13. Cells' = [Cells EXCEPT ![j] = [item |-> @.item, owner |-> Ready]]
  BY <1>6, <1>10, <1>11, <1>12, SeqEqual
<1>14. \A u \in Threads : Got(u)' = Got(u)
  BY <1>2, <1>3 DEF Got, Slot
<1>15. j \in DOMAIN Cells
  BY <1>4, <1>6, LenProperties
<1> QED
  BY <1>13, <1>14, <1>15 DEF Fifo!Publish

(* Passing the turn on after a dequeue frees a slot nobody can see.        *)
LEMMA ReleaseFifo ==
  ASSUME IInv, IInv', NEW t \in Threads, PassTurn(t), op[t] = "dequeue"
  PROVE  UNCHANGED Fifo!vars
<1> DEFINE q == pos[t]
<1>1. TypeOK /\ q \in Nat /\ Place(q) \in Ring
  BY PlaceOfThread DEF IInv
<1>2. /\ UNCHANGED <<index, data, op, pos, item>>
      /\ pc[t] = "pass" /\ pc'[t] = "out" /\ \A u \in Threads \ {t} : pc'[u] = pc[u]
      /\ turn' = [turn EXCEPT ![Place(q)] = TurnAt("dequeue", q) + 1]
  BY <1>1, PlaceOfThread DEF PassTurn, Goto, TypeOK
<1>3. ASSUME NEW p \in Nat, turn'[Place(p)] = TurnAt("dequeue", p)
      PROVE  turn[Place(p)] = TurnAt("dequeue", p)
  <2>1. SLOTS \in Nat /\ q + SLOTS \in Nat /\ Place(p) \in Ring
    BY <1>1, ConstantsOK, Turns
  <2>2. CASE Place(p) = Place(q)
    <3>1. TurnAt("dequeue", p) = TurnAt("enqueue", q + SLOTS) /\ Place(p) = Place(q + SLOTS)
      BY <1>1, <1>2, <1>3, <2>2, Turns DEF TypeOK
    <3> QED
      BY <2>1, <3>1, OneTurn DEF Ops
  <2>3. CASE Place(p) # Place(q)
    BY <1>1, <1>2, <1>3, <2>1, <2>3 DEF TypeOK
  <2> QED
    BY <2>2, <2>3
<1>4. Cells' = Cells
  <2>1. index["dequeue"] \in Nat /\ index["enqueue"] \in Nat
    BY <1>1 DEF TypeOK, Ops
  <2>2. \A p \in index["dequeue"]..(index["enqueue"] - 1) : p \in Nat
    BY <2>1
  <2>3. \A u \in Threads : op'[u] = "enqueue" /\ Busy(u)' => Busy(u)
    BY <1>2 DEF Busy
  <2> QED
    BY <1>2, <1>3, <2>2, <2>3, SameCells
<1>5. \A u \in Threads : Got(u)' = Got(u)
  BY <1>2 DEF Got, Slot
<1> QED
  BY <1>4, <1>5, Stutter

(* Items leave in the order in which their places were claimed, each once  *)
(* and unharmed, and at most SLOTS wait.                                   *)
THEOREM FifoAlways == Spec => IsFifo
<1>1. Init => Fifo!Init
  BY FifoInit
<1>2. IInv /\ IInv' /\ [Next]_vars => [Fifo!Next]_(Fifo!vars)
  <2> SUFFICES ASSUME IInv, IInv', [Next]_vars PROVE [Fifo!Next]_(Fifo!vars)
    OBVIOUS
  <2>1. CASE UNCHANGED vars
    <3>1. Cells' = Cells
      BY <2>1, SameCells DEF vars, Busy
    <3>2. \A u \in Threads : Got(u)' = Got(u)
      BY <2>1 DEF vars, Got, Slot
    <3> QED
      BY <3>1, <3>2, Stutter
  <2>2. ASSUME NEW t \in Threads, NEW o \in Ops, Begin(t, o) PROVE Fifo!Next
    BY <2>2, BeginFifo DEF Fifo!Next
  <2>3. ASSUME NEW t \in Threads, Advance(t), index[op[t]] = pos[t] PROVE Fifo!Next
    <3>1. op[t] \in Ops
      BY DEF IInv, TypeOK
    <3>2. CASE op[t] = "enqueue"
      BY <2>3, <3>2, ClaimFifo DEF Fifo!Next
    <3>3. CASE op[t] = "dequeue"
      BY <2>3, <3>3, TakeFifo DEF Fifo!Next
    <3> QED
      BY <3>1, <3>2, <3>3 DEF Ops
  <2>4. ASSUME NEW t \in Threads, PassTurn(t) PROVE [Fifo!Next]_(Fifo!vars)
    <3>1. op[t] \in Ops
      BY DEF IInv, TypeOK
    <3>2. CASE op[t] = "enqueue"
      BY <2>4, <3>2, PublishFifo DEF Fifo!Next
    <3>3. CASE op[t] = "dequeue"
      BY <2>4, <3>3, ReleaseFifo
    <3> QED
      BY <3>1, <3>2, <3>3 DEF Ops
  <2> QED
    BY <2>1, <2>2, <2>3, <2>4, ReadFifo, CopyFifo DEF Next, Step
<1>3. SafeSpec => []IInv
  BY Invariance
<1> QED
  BY <1>1, <1>2, <1>3, PTL DEF Spec, SafeSpec, IsFifo, Fifo!Spec

=============================================================================
