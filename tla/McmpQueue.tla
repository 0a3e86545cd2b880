------------------------------ MODULE McmpQueue ------------------------------
(***************************************************************************)
(* The lock-free ring of src/core/mcmpq.h.  try_enqueue and try_dequeue    *)
(* are one algorithm on two indices, head and tail: wait for no one, find  *)
(* the slot's turn to be one's own, advance the index with a CAS, copy the *)
(* item, pass the turn on.  Every atomic access and every memcpy is a step *)
(* of its own.                                                             *)
(***************************************************************************)
EXTENDS Integers, Sequences, FiniteSets

CONSTANTS
  Threads,
  Lead,        (* the thread that is guaranteed to be scheduled             *)
  SLOTS,
  MaxEnqueues, (* bound: calls of try_enqueue; the n-th enqueues item n     *)
  MaxDequeues, (* bound: calls of try_dequeue                               *)
  Ready        (* owner of a published cell                                 *)

ASSUME ConstantsOK ==
  /\ Lead \in Threads /\ Ready \notin Threads
  /\ SLOTS \in Nat \ {0} /\ MaxEnqueues \in Nat /\ MaxDequeues \in Nat

Ops    == {"enqueue", "dequeue"}
Items  == 1..MaxEnqueues
NoItem == 0
Ring   == 0..(SLOTS - 1)

VARIABLES
  index,       (* index["enqueue"] is head, index["dequeue"] is tail        *)
  turn, data,  (* the slots                                                 *)
  calls,       (* calls begun of each operation, bounded                    *)
  pc, op,      (* per thread: where it is, in which operation               *)
  pos,         (* its local head (tail)                                     *)
  item,        (* what it enqueues, or has dequeued                         *)
  excuse       (* ghost: it could not have succeeded when it read the turn  *)

vars == <<index, turn, data, calls, pc, op, pos, item, excuse>>

Init ==
  /\ index = [o \in Ops |-> 0]
  /\ turn = [s \in Ring |-> 0]
  /\ data = [s \in Ring |-> NoItem]
  /\ calls = [o \in Ops |-> 0]
  /\ pc = [t \in Threads |-> "out"]
  /\ op = [t \in Threads |-> "enqueue"]
  /\ pos = [t \in Threads |-> 0]
  /\ item = [t \in Threads |-> NoItem]
  /\ excuse = [t \in Threads |-> FALSE]

Slot(t)   == pos[t] % SLOTS
MyTurn(t) == (pos[t] \div SLOTS) * 2 + (IF op[t] = "dequeue" THEN 1 ELSE 0)

Goto(t, from, to) == pc[t] = from /\ pc' = [pc EXCEPT ![t] = to]

(* The queue as its users see it: the cells from tail to head.             *)
Published(p) == turn[p % SLOTS] = (p \div SLOTS) * 2 + 1
Owners(p)    == {t \in Threads : op[t] = "enqueue" /\ pos[t] = p /\ pc[t] \in {"copy", "pass"}}
Owner(p)     == CHOOSE t \in Owners(p) : TRUE
Cell(p)      == IF Published(p) THEN [item |-> data[p % SLOTS], owner |-> Ready]
                                ELSE [item |-> item[Owner(p)], owner |-> Owner(p)]
Cells        == [i \in 1..(index["enqueue"] - index["dequeue"]) |-> Cell(index["dequeue"] + i - 1)]

(* Taking an item that is there, or finding a place that is free, is       *)
(* impossible at this moment.                                              *)
Releasing   == {t \in Threads : op[t] = "dequeue" /\ pc[t] \in {"copy", "pass"}}
NothingToDo(o) ==
  IF o = "dequeue" THEN Cells = <<>> \/ Head(Cells).owner # Ready
                   ELSE Len(Cells) = SLOTS \/ \E t \in Releasing : pos[t] = index[o] - SLOTS

-----------------------------------------------------------------------------
Begin(t, o) ==
  /\ calls[o] < (IF o = "enqueue" THEN MaxEnqueues ELSE MaxDequeues)
  /\ calls' = [calls EXCEPT ![o] = @ + 1]
  /\ Goto(t, "out", "load")
  /\ op' = [op EXCEPT ![t] = o]
  /\ item' = [item EXCEPT ![t] = IF o = "enqueue" THEN calls'[o] ELSE NoItem]
  /\ UNCHANGED <<index, turn, data, pos, excuse>>

Load(t) ==
  /\ Goto(t, "load", "turn")
  /\ pos' = [pos EXCEPT ![t] = index[op[t]]]
  /\ UNCHANGED <<index, turn, data, calls, op, item, excuse>>

CheckTurn(t) ==
  /\ Goto(t, "turn", IF turn[Slot(t)] = MyTurn(t) THEN "advance" ELSE "reload")
  /\ excuse' = [excuse EXCEPT ![t] = NothingToDo(op[t])]
  /\ UNCHANGED <<index, turn, data, calls, op, pos, item>>

(* Mutants: the index is stored, not compared and swapped; the turn is     *)
(* passed on before the item is copied.                                    *)
AdvanceByStore(t) ==
  /\ Goto(t, "advance", "copy")
  /\ index' = [index EXCEPT ![op[t]] = pos[t] + 1]
  /\ UNCHANGED <<turn, data, calls, op, pos, item, excuse>>

AdvancePassingTurn(t) ==
  /\ \/ /\ index[op[t]] = pos[t]
        /\ Goto(t, "advance", "copy")
        /\ index' = [index EXCEPT ![op[t]] = pos[t] + 1]
        /\ turn' = [turn EXCEPT ![Slot(t)] = MyTurn(t) + 1]
        /\ UNCHANGED pos
     \/ /\ index[op[t]] # pos[t]
        /\ Goto(t, "advance", "turn")
        /\ pos' = [pos EXCEPT ![t] = index[op[t]]]
        /\ UNCHANGED <<index, turn>>
  /\ UNCHANGED <<data, calls, op, item, excuse>>

(* The CAS; on failure it has loaded the index again.                      *)
Advance(t) ==
  /\ \/ /\ index[op[t]] = pos[t]
        /\ Goto(t, "advance", "copy")
        /\ index' = [index EXCEPT ![op[t]] = pos[t] + 1]
        /\ UNCHANGED pos
     \/ /\ index[op[t]] # pos[t]
        /\ Goto(t, "advance", "turn")
        /\ pos' = [pos EXCEPT ![t] = index[op[t]]]
        /\ UNCHANGED index
  /\ UNCHANGED <<turn, data, calls, op, item, excuse>>

(* Mutant: a turn that is not one's own is refused at once.                *)
RefusesAtOnce(t) == pc[t] = "reload"

(* Nobody has moved: the queue is reported full (empty).                   *)
Refuses(t) == pc[t] = "reload" /\ index[op[t]] = pos[t]

(* Mutant: the caller is kept until there is room (an item).               *)
ReloadSpinning(t) ==
  /\ Goto(t, "reload", "turn")
  /\ pos' = [pos EXCEPT ![t] = index[op[t]]]
  /\ UNCHANGED <<index, turn, data, calls, op, item, excuse>>

Reload(t) ==
  /\ \/ Refuses(t) /\ Goto(t, "reload", "out") /\ UNCHANGED pos
     \/ /\ index[op[t]] # pos[t]
        /\ Goto(t, "reload", "turn")
        /\ pos' = [pos EXCEPT ![t] = index[op[t]]]
  /\ UNCHANGED <<index, turn, data, calls, op, item, excuse>>

Copy(t) ==
  /\ Goto(t, "copy", "pass")
  /\ \/ /\ op[t] = "enqueue"
        /\ data' = [data EXCEPT ![Slot(t)] = item[t]]
        /\ UNCHANGED item
     \/ /\ op[t] = "dequeue"
        /\ item' = [item EXCEPT ![t] = data[Slot(t)]]
        /\ UNCHANGED data
  /\ UNCHANGED <<index, turn, calls, op, pos, excuse>>

PassTurn(t) ==
  /\ Goto(t, "pass", "out")
  /\ turn' = [turn EXCEPT ![Slot(t)] = MyTurn(t) + 1]
  /\ UNCHANGED <<index, data, calls, op, pos, item, excuse>>

Step(t) == \/ Load(t) \/ CheckTurn(t) \/ Advance(t) \/ Reload(t) \/ Copy(t) \/ PassTurn(t)

Next == \E t \in Threads : Step(t) \/ \E o \in Ops : Begin(t, o)

(* Only Lead is sure to go on; all others may stop anywhere, for ever.     *)
SafeSpec == Init /\ [][Next]_vars
Spec == SafeSpec /\ WF_vars(Step(Lead))

-----------------------------------------------------------------------------
(* Properties.                                                             *)

(* Every variable ranges over what its C type and the bounds allow.        *)
TypeOK ==
  /\ index \in [Ops -> Nat] /\ turn \in [Ring -> Nat]
  /\ data \in [Ring -> Items \union {NoItem}]
  /\ calls \in [Ops -> Nat]
  /\ pc \in [Threads -> {"out", "load", "turn", "advance", "reload", "copy", "pass"}]
  /\ op \in [Threads -> Ops] /\ pos \in [Threads -> Nat]
  /\ item \in [Threads -> Items \union {NoItem}]
  /\ excuse \in [Threads -> BOOLEAN]

Copying == {t \in Threads : pc[t] = "copy"}
(* CopiesAreExclusive: every variable keeps its type, and two threads never *)
(* copy to or from the same slot at the same time, since the memcpy of     *)
(* mcmpq.h is not atomic.                                                  *)
CopiesAreExclusive == TypeOK /\ \A t, u \in Copying : Slot(t) = Slot(u) => t = u

(* "Empty" is answered only if, during the call, the queue was empty or    *)
(* its oldest entry was not published; "full" only if no place was free or *)
(* the next one was not released yet.                                      *)
RefusalsAreHonest == \A t \in Threads : Refuses(t) => excuse[t]

(* The ring is a bounded FIFO: an item is handed over at the CAS on tail,  *)
(* and what the memcpy then delivers is that item.                         *)
Got(t) == IF op[t] # "dequeue" THEN NoItem
          ELSE IF pc[t] = "copy" THEN data[Slot(t)] ELSE item[t]
Fifo == INSTANCE BoundedFifo WITH cells <- Cells, got <- [t \in Threads |-> Got(t)],
                                  Capacity <- SLOTS
IsFifo == Fifo!Spec

(* "Both operations are non-blocking": a thread that runs returns, even if *)
(* all others stop in the middle of theirs.                                *)
NeverBlocks == pc[Lead] # "out" ~> pc[Lead] = "out"
=============================================================================
