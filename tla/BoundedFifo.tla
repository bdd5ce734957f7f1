---------------------------- MODULE BoundedFifo ----------------------------
(***************************************************************************)
(* What a bounded first-in first-out buffer promises: items leave in the   *)
(* order they entered, none is lost or repeated, and at most Capacity of   *)
(* them are inside.  lab4/CircularBuffer.h is shown to implement it.       *)
(***************************************************************************)
EXTENDS Naturals, Sequences

CONSTANTS Item, Capacity

VARIABLE queue

Init == queue = << >>

Put(x) ==
  /\ Len(queue) < Capacity
  /\ queue' = Append(queue, x)

Get ==
  /\ queue # << >>
  /\ queue' = Tail(queue)

Next == Get \/ \E x \in Item : Put(x)

Spec == Init /\ [][Next]_queue
=============================================================================
