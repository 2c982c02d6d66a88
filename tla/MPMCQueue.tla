------------------------------ MODULE MPMCQueue ------------------------------
(***************************************************************************)
(* engine::MPMCQueue (include/core/mpmc_queue.hpp): a bounded queue for    *)
(* many producers and consumers.  A thread claims a position by a          *)
(* compare-and-swap on enqueue_pos_ or dequeue_pos_ when the sequence      *)
(* number of the position's cell says that the cell is ready, uses the     *)
(* cell, and hands it on by storing the next sequence number.              *)
(*                                                                         *)
(* Each atomic access is a step.  A load may return any earlier value of   *)
(* its variable; a compare-and-swap works on the current one and may fail  *)
(* spuriously (compare_exchange_weak).                                     *)
(***************************************************************************)
EXTENDS Integers, Sequences

CONSTANTS
    Capacity,    \* cells
    Producers, Consumers,
    Values,
    NoItem,      \* contents of a cell never written
    MaxPushes    \* bound: pushes start only below this position

ASSUME MPMCAssumption ==
    /\ Capacity \in Nat /\ Capacity > 1
    /\ Producers \cap Consumers = {}
    /\ NoItem \notin Values
    /\ MaxPushes \in Nat

Threads == Producers \cup Consumers
Cell(p) == p % Capacity
Cells == 0 .. Capacity - 1

VARIABLES
    enqueue_pos_, dequeue_pos_,
    sequence, data,   \* slots_
    pc, pos,          \* per thread: where it is, the position it works on
    item,             \* per thread: what it pushes or has popped
    claimed           \* history: the items in the order their positions were claimed

shared == <<enqueue_pos_, dequeue_pos_, sequence, data>>
vars == <<enqueue_pos_, dequeue_pos_, sequence, data, pc, pos, item, claimed>>

Goto(t, l) == pc' = [pc EXCEPT ![t] = l]

\* The values the sequence number of cell c has had: c, then alternately
\* "written" and "free again, one lap later".
SequenceHistory(c) == {s \in 0 .. sequence[c] : s >= c /\ (Cell(s) = c \/ (s > c /\ Cell(s - 1) = c))}

-----------------------------------------------------------------------------
(* Both loops have the same shape: ready is 0 for try_push, 1 for try_pop. *)

LoadPos(t, counter, p) ==
    /\ pc[t] = "load"
    /\ p \in 0 .. counter
    /\ pos' = [pos EXCEPT ![t] = p]
    /\ Goto(t, "sequence")
    /\ UNCHANGED <<shared, item, claimed>>

\* Mutant: a cell that is not ready yet is taken as well.
LoadSequenceNeverFull(t, ready, s) ==
    LET diff == s - (pos[t] + ready)
    IN  /\ pc[t] = "sequence"
        /\ s \in SequenceHistory(Cell(pos[t]))
        /\ Goto(t, IF diff <= 0 THEN "claim" ELSE "load")
        /\ UNCHANGED <<shared, pos, item, claimed>>

\* Mutant: a push takes a cell whose item has not been popped.
LoadSequenceOverfull(t, ready, s) ==
    LET diff == s - (pos[t] + ready)
    IN  /\ pc[t] = "sequence"
        /\ s \in SequenceHistory(Cell(pos[t]))
        /\ Goto(t, CASE diff = 0 \/ (diff < 0 /\ ready = 0) -> "claim"
                     [] diff < 0 /\ ready = 1 -> "idle"
                     [] diff > 0 -> "load")
        /\ UNCHANGED <<shared, pos, item, claimed>>

LoadSequence(t, ready, s) ==
    LET diff == s - (pos[t] + ready)
    IN  /\ pc[t] = "sequence"
        /\ s \in SequenceHistory(Cell(pos[t]))
        /\ Goto(t, IF diff = 0 THEN "claim" ELSE IF diff < 0 THEN "idle" ELSE "load")
        /\ UNCHANGED <<shared, pos, item, claimed>>

ClaimFails(t, counter) ==
    /\ pc[t] = "claim"
    /\ pos' = [pos EXCEPT ![t] = counter]
    /\ Goto(t, "sequence")
    /\ UNCHANGED <<shared, item, claimed>>

Release(t, next) ==
    /\ pc[t] = "publish"
    /\ sequence' = [sequence EXCEPT ![Cell(pos[t])] = next]
    /\ Goto(t, "idle")
    /\ UNCHANGED <<enqueue_pos_, dequeue_pos_, data, pos, item, claimed>>

-----------------------------------------------------------------------------
(* try_push *)

PushCall(t, v) ==
    /\ pc[t] = "idle"
    /\ enqueue_pos_ < MaxPushes
    /\ item' = [item EXCEPT ![t] = v]
    /\ Goto(t, "load")
    /\ UNCHANGED <<shared, pos, claimed>>

\* Mutant: the cell is published before the item is in it.
PushClaimPublishes(t) ==
    /\ pc[t] = "claim"
    /\ enqueue_pos_ = pos[t]
    /\ enqueue_pos_' = enqueue_pos_ + 1
    /\ claimed' = Append(claimed, item[t])
    /\ Goto(t, "access")
    /\ sequence' = [sequence EXCEPT ![Cell(pos[t])] = pos[t] + 1]
    /\ UNCHANGED <<dequeue_pos_, data, pos, item>>

PushClaim(t) ==
    /\ pc[t] = "claim"
    /\ enqueue_pos_ = pos[t]
    /\ enqueue_pos_' = enqueue_pos_ + 1
    /\ claimed' = Append(claimed, item[t])
    /\ Goto(t, "access")
    /\ UNCHANGED <<dequeue_pos_, sequence, data, pos, item>>

PushWrite(t) ==
    /\ pc[t] = "access"
    /\ data' = [data EXCEPT ![Cell(pos[t])] = item[t]]
    /\ Goto(t, "publish")
    /\ UNCHANGED <<enqueue_pos_, dequeue_pos_, sequence, pos, item, claimed>>

PushPublish(t) == Release(t, pos[t] + 1)

PushStep(t) ==
    \/ \E p \in 0 .. enqueue_pos_ : LoadPos(t, enqueue_pos_, p)
    \/ \E s \in 0 .. enqueue_pos_ + Capacity : LoadSequence(t, 0, s)
    \/ PushClaim(t)
    \/ ClaimFails(t, enqueue_pos_)
    \/ PushWrite(t)
    \/ PushPublish(t)

-----------------------------------------------------------------------------
(* try_pop *)

PopCall(t) ==
    /\ pc[t] = "idle"
    /\ Goto(t, "load")
    /\ UNCHANGED <<shared, pos, item, claimed>>

PopClaim(t) ==
    /\ pc[t] = "claim"
    /\ dequeue_pos_ = pos[t]
    /\ dequeue_pos_' = dequeue_pos_ + 1
    /\ Goto(t, "access")
    /\ UNCHANGED <<enqueue_pos_, sequence, data, pos, item, claimed>>

PopRead(t) ==
    /\ pc[t] = "access"
    /\ item' = [item EXCEPT ![t] = data[Cell(pos[t])]]
    /\ Goto(t, "publish")
    /\ UNCHANGED <<shared, pos, claimed>>

\* Mutant: one too many.
PopPublishOffByOne(t) == Release(t, pos[t] + Capacity + 1)

\* pos + kMask + 1
PopPublish(t) == Release(t, pos[t] + Capacity)

PopStep(t) ==
    \/ PopCall(t)
    \/ \E p \in 0 .. dequeue_pos_ : LoadPos(t, dequeue_pos_, p)
    \/ \E s \in 0 .. enqueue_pos_ + Capacity : LoadSequence(t, 1, s)
    \/ PopClaim(t)
    \/ ClaimFails(t, dequeue_pos_)
    \/ PopRead(t)
    \/ PopPublish(t)

-----------------------------------------------------------------------------
Init ==
    /\ enqueue_pos_ = 0
    /\ dequeue_pos_ = 0
    /\ sequence = [c \in Cells |-> c]
    /\ data = [c \in Cells |-> NoItem]
    /\ pc = [t \in Threads |-> "idle"]
    /\ pos = [t \in Threads |-> 0]
    /\ item = [t \in Threads |-> NoItem]
    /\ claimed = <<>>

Next ==
    \/ \E t \in Producers : (\E v \in Values : PushCall(t, v)) \/ PushStep(t)
    \/ \E t \in Consumers : PopStep(t)

Spec == Init /\ [][Next]_vars

-----------------------------------------------------------------------------
(* Properties *)

TypeOK ==
    /\ enqueue_pos_ \in Nat /\ dequeue_pos_ \in Nat
    /\ sequence \in [Cells -> Nat]
    /\ data \in [Cells -> Values \cup {NoItem}]
    /\ pc \in [Threads -> {"idle", "load", "sequence", "claim", "access", "publish"}]
    /\ pos \in [Threads -> Nat]
    /\ item \in [Threads -> Values \cup {NoItem}]
    /\ claimed \in Seq(Values)

Inside(t) == pc[t] \in {"access", "publish"}

\* Between its claim and its release store a thread has its cell for itself,
\* although the claim was decided on values that may have been old.
ExclusiveCells ==
    /\ TypeOK
    /\ \A t, u \in Threads : t # u /\ Inside(t) /\ Inside(u) => Cell(pos[t]) # Cell(pos[u])

\* A pop returns the item pushed at its own position: nothing is lost,
\* duplicated, overtaken or read before it is written.
PopsInClaimOrder ==
    \A t \in Consumers : pc[t] = "publish" => item[t] = claimed[pos[t] + 1]

\* "EMPTY (seq=pos) -> WRITTEN (seq=pos+1) -> EMPTY (seq=pos+Capacity)": a
\* sequence number only moves one transition on, and never backwards.
SequenceAdvances ==
    [][\A c \in Cells : sequence'[c] # sequence[c] =>
          sequence'[c] = sequence[c] + (IF Cell(sequence[c]) = c THEN 1 ELSE Capacity - 1)]_vars

\* The items claimed for pushing and not yet claimed for popping.
Contents == SubSeq(claimed, dequeue_pos_ + 1, enqueue_pos_)
LastPopped == IF dequeue_pos_ = 0 THEN NoItem ELSE claimed[dequeue_pos_]

Queue == INSTANCE BoundedQueue
    WITH items <- Contents, popped <- LastPopped, Limit <- Capacity

\* In the order of the claims the queue is a FIFO queue of Capacity places.
ImplementsQueue == Queue!Spec
=============================================================================
