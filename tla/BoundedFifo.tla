---------------------------- MODULE BoundedFifo ----------------------------
(***************************************************************************)
(* What a ring buffer promises its users: a bounded first-in first-out     *)
(* queue.  Values leave in the order they entered, none is lost or         *)
(* duplicated, at most Capacity are held, and a non-empty queue is drained *)
(* as long as somebody takes from it.                                      *)
(***************************************************************************)
EXTENDS Naturals, Sequences

CONSTANTS Capacity,     \* number of slots
          Values        \* what the slots can hold

VARIABLE queue          \* the values held, oldest first

Init == queue = << >>

Enqueue(v) == /\ Len(queue) < Capacity
              /\ queue' = Append(queue, v)

Dequeue == /\ queue # << >>
           /\ queue' = Tail(queue)

Next == (\E v \in Values : Enqueue(v)) \/ Dequeue

Spec == Init /\ [][Next]_queue

FairSpec == Spec /\ WF_queue(Dequeue)
=============================================================================
