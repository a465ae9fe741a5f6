----------------------------- MODULE FifoQueue ------------------------------
(***************************************************************************)
(* What lab2/c/queue.c promises: a queue of values, first in first out.    *)
(* enqueue puts a value at the end; dequeue copies the first value to its  *)
(* caller and returns true, or returns false, only if there is none.       *)
(***************************************************************************)
EXTENDS Sequences

CONSTANTS Thread, Value, Nothing

VARIABLES
    items,   \* the values in the queue
    got      \* what a thread's last dequeue gave it, Nothing for false

vars == <<items, got>>

Init == items = << >> /\ got = [th \in Thread |-> Nothing]

Enqueue(v) == items' = Append(items, v) /\ UNCHANGED got

Dequeue(th) ==
    /\ items # << >>
    /\ got' = [got EXCEPT ![th] = Head(items)]
    /\ items' = Tail(items)

DequeueFails(th) ==
    /\ items = << >>
    /\ got' = [got EXCEPT ![th] = Nothing]
    /\ UNCHANGED items

Next ==
    \/ \E v \in Value : Enqueue(v)
    \/ \E th \in Thread : Dequeue(th) \/ DequeueFails(th)

Spec == Init /\ [][Next]_vars

=============================================================================
