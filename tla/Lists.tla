-------------------------------- MODULE Lists --------------------------------
(***************************************************************************)
(* The doubly linked list of a level's orders, threaded through the slots  *)
(* sl (src/core/order_book.cpp): what taking a slot out and putting one in *)
(* do to the level and to the slots.                                       *)
(***************************************************************************)
EXTENDS BookTypes, Sequences

\* Where s is in a queue.
Position(q, s) == CHOOSE k \in 1 .. Len(q) : q[k] = s

\* Mutant: the tail is not moved when the last order leaves.
UnlinkLevelKeepsTail(sl, l, s) ==
    [l EXCEPT !.head = IF sl[s].prev = NULL_IDX THEN sl[s].next ELSE @]

\* Take s out of its list: what happens to the level and to the neighbours.
UnlinkLevel(sl, l, s) ==
    [l EXCEPT !.head = IF sl[s].prev = NULL_IDX THEN sl[s].next ELSE @,
              !.tail = IF sl[s].next = NULL_IDX THEN sl[s].prev ELSE @]

\* Mutant: the level keeps the quantity of the order that leaves.
RemovedLevelKeepsQty(sl, l, s, n) == [UnlinkLevel(sl, l, s) EXCEPT !.count = @ - 1]

\* The level when s, which holds n, is removed from it.
RemovedLevel(sl, l, s, n) ==
    [UnlinkLevel(sl, l, s) EXCEPT !.qty = (@ - n) % QtyMod, !.count = @ - 1]

UnlinkSlots(sl, s) ==
    LET p == sl[s].prev
        n == sl[s].next
    IN  [t \in Slots |->
            IF t \in {p, n}
            THEN [sl[t] EXCEPT !.next = IF t = p THEN n ELSE @,
                               !.prev = IF t = n THEN p ELSE @]
            ELSE sl[t]]

\* Put s, whose fields other than the links are r, at the tail of level l.
AppendLevel(l, s) == [l EXCEPT !.head = IF @ = NULL_IDX THEN s ELSE @, !.tail = s]

\* The level when an order of quantity n is booked, and when one is requeued
\* with n more.
BookedLevel(l, s, n) ==
    [AppendLevel(l, s) EXCEPT !.qty = (@ + n) % QtyMod, !.count = @ + 1]

RequeuedLevel(l, s, n) == [AppendLevel(l, s) EXCEPT !.qty = (@ + n) % QtyMod]

AppendSlots(sl, l, s, r) ==
    [t \in Slots |->
        CASE t = s -> [r EXCEPT !.next = NULL_IDX,
                                !.prev = IF l.head = NULL_IDX THEN NULL_IDX ELSE l.tail]
          [] l.head # NULL_IDX /\ t = l.tail /\ t # s -> [sl[t] EXCEPT !.next = s]
          [] OTHER -> sl[t]]

\* The level after its head has been filled with n and dequeued.
DequeuedLevel(sl, l, n) ==
    LET next == sl[l.head].next
    IN  [l EXCEPT !.qty = (@ - n) % QtyMod, !.count = @ - 1, !.head = next,
                  !.tail = IF next = NULL_IDX THEN NULL_IDX ELSE @]

\* Mutant: the filled slot is not freed.
DequeuedSlotsLeaks(sl, s) ==
    [t \in Slots |->
        IF t = sl[s].next /\ t # s THEN [sl[t] EXCEPT !.prev = NULL_IDX] ELSE sl[t]]

DequeuedSlots(sl, s) ==
    [t \in Slots |->
        CASE t = s -> NULL_IDX
          [] t = sl[s].next /\ t # s -> [sl[t] EXCEPT !.prev = NULL_IDX]
          [] OTHER -> sl[t]]
=============================================================================
