----------------------------- MODULE BoundedQueue -----------------------------
(***************************************************************************)
(* What a queue between two threads promises: items come out in the order  *)
(* they went in, none lost, none twice, at most Limit of them inside.      *)
(***************************************************************************)
EXTENDS Integers, Sequences

CONSTANTS Values, Limit, NoItem

VARIABLES
    items,    \* what is in the queue, oldest first
    popped    \* what the last successful pop returned

Push(v) ==
    /\ Len(items) < Limit
    /\ items' = Append(items, v)
    /\ UNCHANGED popped

Pop ==
    /\ items # <<>>
    /\ popped' = Head(items)
    /\ items' = Tail(items)

Init == items = <<>> /\ popped = NoItem

Next == (\E v \in Values : Push(v)) \/ Pop

Spec == Init /\ [][Next]_<<items, popped>>
=============================================================================
