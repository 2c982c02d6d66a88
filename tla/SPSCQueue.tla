------------------------------ MODULE SPSCQueue ------------------------------
(***************************************************************************)
(* engine::SPSCQueue (include/core/spsc_queue.hpp): a ring shared by one   *)
(* producer thread and one consumer thread, synchronised only by the two   *)
(* positions.                                                              *)
(*                                                                         *)
(* Each atomic access is a step.  An acquire load may return any value the *)
(* position has had since this thread last loaded it (seen), not only the  *)
(* newest one; whoever sees a position also sees what was written before   *)
(* its release store.  A thread's relaxed load of the position that only   *)
(* it writes is exact.                                                     *)
(***************************************************************************)
EXTENDS Integers, Sequences

CONSTANTS
    Capacity,   \* size of the ring, a power of two
    Values,     \* what is queued
    NoItem      \* contents of a cell never written

ASSUME QueueAssumption == Capacity \in Nat /\ Capacity > 1 /\ NoItem \notin Values

VARIABLES
    buffer_, write_pos_, read_pos_,
    ppc, item, rseen,   \* producer: where it is, its argument, read_pos_ as last loaded
    cpc, out, wseen,    \* consumer: where it is, its result, write_pos_ as last loaded
    popped              \* history: the item the last successful try_pop returned

producer == <<ppc, item, rseen>>
consumer == <<cpc, out, wseen, popped>>
vars == <<buffer_, write_pos_, read_pos_, producer, consumer>>

Cells == 0 .. Capacity - 1

\* (pos + 1) & kMask
Succ(pos) == (pos + 1) % Capacity

\* How far b is ahead of a on the ring.
Ahead(a, b) == IF a <= b THEN b - a ELSE b - a + Capacity

\* The values a position moved through from a to b.
Between(a, b) == {c \in Cells : Ahead(a, c) <= Ahead(a, b)}

-----------------------------------------------------------------------------
(* try_push *)

PushCall(v) ==
    /\ ppc = "idle"
    /\ ppc' = "check"
    /\ item' = v
    /\ UNCHANGED <<buffer_, write_pos_, read_pos_, rseen, consumer>>

\* Mutant: try_push does not look whether the ring is full.
PushCheckNot(r) ==
    /\ ppc = "check"
    /\ r \in Between(rseen, read_pos_)
    /\ rseen' = r
    /\ ppc' = "write"
    /\ UNCHANGED <<buffer_, write_pos_, read_pos_, item, consumer>>

PushCheck(r) ==
    /\ ppc = "check"
    /\ r \in Between(rseen, read_pos_)
    /\ rseen' = r
    /\ ppc' = IF Succ(write_pos_) = r THEN "idle" ELSE "write"
    /\ UNCHANGED <<buffer_, write_pos_, read_pos_, item, consumer>>

PushWrite ==
    /\ ppc = "write"
    /\ buffer_' = [buffer_ EXCEPT ![write_pos_] = item]
    /\ ppc' = "publish"
    /\ UNCHANGED <<write_pos_, read_pos_, item, rseen, consumer>>

PushPublish ==
    /\ ppc = "publish"
    /\ write_pos_' = Succ(write_pos_)
    /\ ppc' = "idle"
    /\ UNCHANGED <<buffer_, read_pos_, item, rseen, consumer>>

-----------------------------------------------------------------------------
(* try_pop *)

\* Mutants: try_pop does not look whether the ring is empty; the load of
\* write_pos_ is hoisted out of the polling loop.
PopCheckNot(w) ==
    /\ cpc = "idle"
    /\ w \in Between(wseen, write_pos_)
    /\ wseen' = w
    /\ cpc' = "read"
    /\ UNCHANGED <<buffer_, write_pos_, read_pos_, out, popped, producer>>

PopCheckHoisted(w) ==
    /\ cpc = "idle"
    /\ cpc' = IF read_pos_ = wseen THEN "idle" ELSE "read"
    /\ UNCHANGED <<buffer_, write_pos_, read_pos_, out, wseen, popped, producer>>

PopCheck(w) ==
    /\ cpc = "idle"
    /\ w \in Between(wseen, write_pos_)
    /\ wseen' = w
    /\ cpc' = IF read_pos_ = w THEN "idle" ELSE "read"
    /\ UNCHANGED <<buffer_, write_pos_, read_pos_, out, popped, producer>>

PopRead ==
    /\ cpc = "read"
    /\ out' = buffer_[read_pos_]
    /\ cpc' = "publish"
    /\ UNCHANGED <<buffer_, write_pos_, read_pos_, wseen, popped, producer>>

PopPublish ==
    /\ cpc = "publish"
    /\ read_pos_' = Succ(read_pos_)
    /\ popped' = out
    /\ cpc' = "idle"
    /\ UNCHANGED <<buffer_, write_pos_, out, wseen, producer>>

-----------------------------------------------------------------------------
Init ==
    /\ buffer_ = [c \in Cells |-> NoItem]
    /\ write_pos_ = 0
    /\ read_pos_ = 0
    /\ ppc = "idle" /\ item = NoItem /\ rseen = 0
    /\ cpc = "idle" /\ out = NoItem /\ wseen = 0
    /\ popped = NoItem

PushStep == (\E r \in Cells : PushCheck(r)) \/ PushWrite \/ PushPublish
PopStep == (\E w \in Cells : PopCheck(w)) \/ PopRead \/ PopPublish

Next == (\E v \in Values : PushCall(v)) \/ PushStep \/ PopStep

Spec == Init /\ [][Next]_vars

-----------------------------------------------------------------------------
(* Properties *)

TypeOK ==
    /\ buffer_ \in [Cells -> Values \cup {NoItem}]
    /\ write_pos_ \in Cells /\ read_pos_ \in Cells
    /\ ppc \in {"idle", "check", "write", "publish"}
    /\ cpc \in {"idle", "read", "publish"}
    /\ item \in Values \cup {NoItem} /\ out \in Values \cup {NoItem}
    /\ rseen \in Cells /\ wseen \in Cells
    /\ popped \in Values \cup {NoItem}

\* The two threads never touch the same cell at the same time, however old
\* the positions they decided on are.
NoDataRace == ppc = "write" /\ cpc = "read" => write_pos_ # read_pos_

\* What lies between the positions.
Contents ==
    [k \in 1 .. Ahead(read_pos_, write_pos_) |-> buffer_[(read_pos_ + k - 1) % Capacity]]

Queue == INSTANCE BoundedQueue WITH items <- Contents, Limit <- Capacity - 1

\* The ring is a FIFO queue of Capacity - 1 places: nothing is lost,
\* duplicated, reordered or torn.
ImplementsQueue == Queue!Spec
=============================================================================
