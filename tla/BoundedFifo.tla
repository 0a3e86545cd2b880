----------------------------- MODULE BoundedFifo -----------------------------
(***************************************************************************)
(* What a work queue of the job system promises: items leave in the order  *)
(* in which their cells were claimed, each once and unharmed, and never    *)
(* more than Capacity wait.  An item is claimed a place first and becomes  *)
(* available later; until then it hides those behind it.  WorkerIdle       *)
(* builds its queues this way.                                             *)
(***************************************************************************)
EXTENDS Naturals, Sequences

CONSTANTS Threads, Items, Capacity,
          Ready,     (* owner of a published cell: no thread                *)
          NoItem

VARIABLES cells,     (* records: item, and owner until it is published      *)
          got        (* per thread: the item it has dequeued                *)

vars == <<cells, got>>

Init == cells = <<>> /\ got = [t \in Threads |-> NoItem]

Claim(t, x) ==
  /\ Len(cells) < Capacity
  /\ cells' = Append(cells, [item |-> x, owner |-> t])
  /\ UNCHANGED got

Publish(i) ==
  /\ cells' = [cells EXCEPT ![i] = [item |-> @.item, owner |-> Ready]]
  /\ UNCHANGED got

Take(t) ==
  /\ cells # <<>> /\ Head(cells).owner = Ready
  /\ cells' = Tail(cells)
  /\ got' = [got EXCEPT ![t] = Head(cells).item]

Forget(t) == got' = [got EXCEPT ![t] = NoItem] /\ UNCHANGED cells

Next == \/ \E t \in Threads : Take(t) \/ Forget(t) \/ \E x \in Items : Claim(t, x)
        \/ \E i \in DOMAIN cells : Publish(i)

Spec == Init /\ [][Next]_vars
=============================================================================
