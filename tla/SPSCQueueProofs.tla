--------------------------- MODULE SPSCQueueProofs ---------------------------
(***************************************************************************)
(* For a ring of any capacity and any set of values: the threads never     *)
(* meet in a cell, and the ring implements a FIFO queue.                   *)
(***************************************************************************)
EXTENDS SPSCQueue, SequenceTheorems, TLAPS

\* Positions lie on the ring in the order rseen, read_pos_, wseen, write_pos_
\* within one lap: an old position is always a cautious one.  So what a thread
\* decided on an old position still holds on the current one.
IInv ==
    /\ TypeOK
    /\ Ahead(rseen, read_pos_) <= Ahead(rseen, write_pos_)
    /\ Ahead(read_pos_, wseen) <= Ahead(read_pos_, write_pos_)
    /\ ppc \in {"write", "publish"} => Succ(write_pos_) # rseen
    /\ cpc \in {"read", "publish"} => read_pos_ # wseen
    /\ ppc # "idle" => item \in Values
    /\ ppc = "publish" => buffer_[write_pos_] = item
    /\ cpc = "publish" => out = buffer_[read_pos_]

\* Masking wraps a position at most once.
LEMMA ModOnce ==
  ASSUME NEW x \in 0 .. 2 * Capacity - 1
  PROVE  x % Capacity = IF x < Capacity THEN x ELSE x - Capacity
  BY QueueAssumption

\* The successor of a position.
LEMMA SuccLemma ==
  ASSUME NEW a \in Cells
  PROVE  /\ Succ(a) = IF a = Capacity - 1 THEN 0 ELSE a + 1
         /\ Succ(a) \in Cells
  BY QueueAssumption, ModOnce DEF Cells, Succ

\* How distances change when a position moves on.
LEMMA AheadLemma ==
  ASSUME NEW a \in Cells, NEW b \in Cells
  PROVE  /\ Ahead(a, b) \in 0 .. Capacity - 1
         /\ Ahead(a, b) = 0 <=> a = b
         /\ a # b => Ahead(Succ(a), b) = Ahead(a, b) - 1
         /\ Succ(b) # a => Ahead(a, Succ(b)) = Ahead(a, b) + 1
         /\ Succ(b) = a => Ahead(a, b) = Capacity - 1
         /\ \A c \in Cells : Ahead(a, b) = Ahead(a, c) => b = c
  BY QueueAssumption, SuccLemma DEF Ahead, Cells

\* A producer past its test has room, a consumer past its test has an item.
LEMMA TestsHold ==
  ASSUME IInv
  PROVE  /\ ppc \in {"write", "publish"} => Succ(write_pos_) # read_pos_
         /\ cpc \in {"read", "publish"} => read_pos_ # write_pos_
<1> USE DEF IInv, TypeOK
<1>1. ASSUME ppc \in {"write", "publish"}, Succ(write_pos_) = read_pos_ PROVE FALSE
  <2>1. Ahead(rseen, read_pos_) = Ahead(rseen, write_pos_) + 1
    BY <1>1, AheadLemma
  <2> QED BY <2>1, AheadLemma, QueueAssumption
<1>2. ASSUME cpc \in {"read", "publish"}, read_pos_ = write_pos_ PROVE FALSE
  <2>1. Ahead(read_pos_, write_pos_) = 0 /\ Ahead(read_pos_, wseen) # 0
    BY <1>2, AheadLemma
  <2> QED BY <2>1, AheadLemma, QueueAssumption
<1> QED BY <1>1, <1>2

\* The ring is empty at the start.
LEMMA InitIInv == Init => IInv
  BY QueueAssumption DEF Init, IInv, TypeOK, Cells, Ahead

\* No step of either thread disturbs the order of the positions.
LEMMA NextIInv == IInv /\ [Next]_vars => IInv'
<1> SUFFICES ASSUME IInv, [Next]_vars PROVE IInv'
  OBVIOUS
<1> USE QueueAssumption DEF IInv, TypeOK
<1>1. ASSUME NEW v \in Values, PushCall(v) PROVE IInv'
  BY <1>1 DEF PushCall, consumer
<1>2. ASSUME NEW r \in Cells, PushCheck(r) PROVE IInv'
  <2>1. Ahead(r, read_pos_) <= Ahead(r, write_pos_)
    BY <1>2 DEF PushCheck, Between, Ahead, Cells
  <2> QED BY <1>2, <2>1 DEF PushCheck, consumer
<1>3. CASE PushWrite
  <2>1. cpc = "publish" => read_pos_ # write_pos_
    BY DEF Ahead, Cells
  <2> QED BY <1>3, <2>1 DEF PushWrite, consumer
<1>4. CASE PushPublish
  <2>1. /\ Ahead(rseen, Succ(write_pos_)) = Ahead(rseen, write_pos_) + 1
        /\ Ahead(read_pos_, Succ(write_pos_)) = Ahead(read_pos_, write_pos_) + 1
    BY <1>4, TestsHold, AheadLemma DEF PushPublish
  <2>2. /\ Ahead(rseen, read_pos_) \in Int /\ Ahead(rseen, write_pos_) \in Int
        /\ Ahead(read_pos_, wseen) \in Int /\ Ahead(read_pos_, write_pos_) \in Int
    BY AheadLemma
  <2>3. /\ Ahead(rseen, read_pos_) <= Ahead(rseen, Succ(write_pos_))
        /\ Ahead(read_pos_, wseen) <= Ahead(read_pos_, Succ(write_pos_))
    BY <2>1, <2>2
  <2> QED BY <1>4, <2>3, SuccLemma DEF PushPublish, consumer, Ahead
<1>5. ASSUME NEW w \in Cells, PopCheck(w) PROVE IInv'
  <2>1. Ahead(read_pos_, w) <= Ahead(read_pos_, write_pos_)
    BY <1>5 DEF PopCheck, Between, Ahead, Cells
  <2> QED BY <1>5, <2>1 DEF PopCheck, producer
<1>6. CASE PopRead
  BY <1>6 DEF PopRead, producer
<1>7. CASE PopPublish
  <2>1. /\ Ahead(rseen, Succ(read_pos_)) <= Ahead(rseen, write_pos_)
        /\ Ahead(Succ(read_pos_), wseen) <= Ahead(Succ(read_pos_), write_pos_)
    <3>1. read_pos_ # write_pos_ /\ read_pos_ # wseen
      BY <1>7, TestsHold DEF PopPublish
    <3>2. Ahead(rseen, read_pos_) # Ahead(rseen, write_pos_)
      BY <3>1, AheadLemma
    <3>3. Succ(read_pos_) # rseen
      BY <3>2, AheadLemma, SuccLemma
    <3>4. /\ Ahead(rseen, Succ(read_pos_)) = Ahead(rseen, read_pos_) + 1
          /\ Ahead(Succ(read_pos_), wseen) = Ahead(read_pos_, wseen) - 1
          /\ Ahead(Succ(read_pos_), write_pos_) = Ahead(read_pos_, write_pos_) - 1
      BY <3>1, <3>3, AheadLemma
    <3>5. /\ Ahead(rseen, read_pos_) \in Int /\ Ahead(rseen, write_pos_) \in Int
          /\ Ahead(read_pos_, wseen) \in Int /\ Ahead(read_pos_, write_pos_) \in Int
      BY AheadLemma
    <3> QED BY <3>2, <3>4, <3>5
  <2> QED BY <1>7, <2>1, SuccLemma DEF PopPublish, producer, Ahead
<1>8. CASE UNCHANGED vars
  BY <1>8 DEF vars, producer, consumer
<1> QED
  BY <1>1, <1>2, <1>3, <1>4, <1>5, <1>6, <1>7, <1>8 DEF Next, PushStep, PopStep

\* The invariant excludes a meeting in a cell.
LEMMA IInvNoDataRace == IInv => NoDataRace
  BY QueueAssumption DEF IInv, TypeOK, NoDataRace, Ahead, Cells

\* The fields keep their types, and producer and consumer never access the
\* same cell of buffer_ at the same time: try_push's and try_pop's tests on
\* possibly old positions are enough.
THEOREM Safety == Spec => [](TypeOK /\ NoDataRace)
<1>1. IInv => TypeOK
  BY DEF IInv
<1> QED
  BY InitIInv, NextIInv, IInvNoDataRace, <1>1, PTL DEF Spec

-----------------------------------------------------------------------------
(* Refinement *)

\* The cell of the k-th item in the queue.
Place(k) == (read_pos_ + k - 1) % Capacity

\* The places of the items are cells other than the one at write_pos_, and
\* the place after the last item is that one.
LEMMA Places ==
  ASSUME TypeOK
  PROVE  /\ Ahead(read_pos_, write_pos_) \in 0 .. Capacity - 1
         /\ \A k \in 1 .. Ahead(read_pos_, write_pos_) : Place(k) \in Cells /\ Place(k) # write_pos_
         /\ Place(Ahead(read_pos_, write_pos_) + 1) = write_pos_
         /\ Place(1) = read_pos_
<1> USE QueueAssumption DEF TypeOK, Cells
<1>1. Ahead(read_pos_, write_pos_) \in 0 .. Capacity - 1
  BY DEF Ahead
<1>2. \A k \in 1 .. Capacity :
        Place(k) = IF read_pos_ + k - 1 < Capacity THEN read_pos_ + k - 1
                   ELSE read_pos_ + k - 1 - Capacity
  <2> TAKE k \in 1 .. Capacity
  <2> DEFINE x == read_pos_ + k - 1
  <2>1. x \in 0 .. 2 * Capacity - 1
    OBVIOUS
  <2>2. Place(k) = x % Capacity
    BY DEF Place
  <2> HIDE DEF x
  <2>3. Place(k) = IF x < Capacity THEN x ELSE x - Capacity
    BY <2>1, <2>2, ModOnce
  <2> QED BY <2>3 DEF x
<1> QED BY <1>1, <1>2 DEF Ahead

\* Contents is a sequence.
LEMMA ContentsSeq ==
  ASSUME TypeOK
  PROVE  /\ Contents \in Seq(Values \cup {NoItem})
         /\ Len(Contents) = Ahead(read_pos_, write_pos_)
         /\ \A k \in 1 .. Len(Contents) : Contents[k] = buffer_[Place(k)]
<1>1. Contents = [k \in 1 .. Ahead(read_pos_, write_pos_) |-> buffer_[Place(k)]]
  BY DEF Contents, Place
<1> QED BY <1>1, Places DEF TypeOK

\* An empty ring is an empty queue.
LEMMA InitRefines == Init => Queue!Init
  BY QueueAssumption DEF Init, Queue!Init, Contents, Ahead

\* Storing the item outside the contents changes nothing.
LEMMA WriteStutters ==
  ASSUME IInv, PushWrite
  PROVE  Contents' = Contents /\ popped' = popped
<1>1. \A k \in 1 .. Ahead(read_pos_, write_pos_) : buffer_'[Place(k)] = buffer_[Place(k)]
  BY Places DEF IInv, TypeOK, PushWrite
<1> QED BY <1>1 DEF PushWrite, Contents, Place, consumer, Ahead

\* Moving write_pos_ appends the item.
LEMMA PublishPushes ==
  ASSUME IInv, IInv', PushPublish
  PROVE  Queue!Push(item)
<1> DEFINE n == Ahead(read_pos_, write_pos_)
<1>1. Ahead(read_pos_, Succ(write_pos_)) = n + 1 /\ n \in Nat /\ n + 1 \in 1 .. Capacity - 1
  <2>1. Succ(write_pos_) # read_pos_
    BY TestsHold DEF PushPublish
  <2> QED BY <2>1, AheadLemma, SuccLemma, QueueAssumption DEF IInv, TypeOK
<1>2. Contents \in Seq(Values \cup {NoItem}) /\ Len(Contents) = n
  BY ContentsSeq DEF IInv
<1>3. Contents' = [k \in 1 .. n + 1 |-> buffer_[Place(k)]]
  BY <1>1 DEF PushPublish, Contents, Place, Ahead
<1>4. buffer_[Place(n + 1)] = item
  BY Places DEF IInv, PushPublish
<1>5. \A k \in 1 .. n : buffer_[Place(k)] = Contents[k]
  BY ContentsSeq DEF IInv
<1>6. Contents' = Append(Contents, item)
  <2> HIDE DEF n
  <2>1. \A k \in 1 .. n + 1 : buffer_[Place(k)] \in Values \cup {NoItem}
    BY <1>1, <1>2, <1>4, <1>5 DEF IInv, TypeOK
  <2>2. Contents' \in Seq(Values \cup {NoItem}) /\ Len(Contents') = n + 1
    BY <1>1, <1>3, <2>1
  <2>3. /\ Append(Contents, item) \in Seq(Values \cup {NoItem})
        /\ Len(Append(Contents, item)) = n + 1
        /\ \A k \in 1 .. n : Append(Contents, item)[k] = Contents[k]
        /\ Append(Contents, item)[n + 1] = item
    BY <1>2, AppendProperties DEF IInv, TypeOK
  <2>4. \A k \in 1 .. n + 1 : Contents'[k] = Append(Contents, item)[k]
    <3>1. \A k \in 1 .. n + 1 : Contents'[k] = buffer_[Place(k)]
      BY <1>3
    <3>2. \A k \in 1 .. n + 1 : k \in 1 .. n \/ k = n + 1
      BY <1>1
    <3> QED BY <1>4, <1>5, <2>3, <3>1, <3>2
  <2> QED BY <2>2, <2>3, <2>4, SeqEqual
<1> QED BY <1>1, <1>2, <1>6, QueueAssumption DEF PushPublish, Queue!Push, consumer

\* Moving read_pos_ takes the oldest item.
LEMMA PublishPops ==
  ASSUME IInv, IInv', PopPublish
  PROVE  Queue!Pop
<1> DEFINE n == Ahead(read_pos_, write_pos_)
<1>1. n \in 1 .. Capacity - 1 /\ Ahead(Succ(read_pos_), write_pos_) = n - 1
  <2>1. read_pos_ # write_pos_
    BY TestsHold DEF PopPublish
  <2> QED BY <2>1, AheadLemma, QueueAssumption DEF IInv, TypeOK
<1>2. Contents \in Seq(Values \cup {NoItem}) /\ Len(Contents) = n
  BY ContentsSeq DEF IInv
<1>3. \A k \in 1 .. n : Contents[k] = buffer_[Place(k)]
  BY ContentsSeq DEF IInv
<1>4. \A k \in 1 .. n - 1 : (Succ(read_pos_) + k - 1) % Capacity = Place(k + 1)
  <2> HIDE DEF n
  <2> SUFFICES ASSUME NEW k \in 1 .. n - 1
               PROVE  (Succ(read_pos_) + k - 1) % Capacity = (read_pos_ + k) % Capacity
    BY <1>1 DEF Place, IInv, TypeOK, Cells
  <2>1. k \in 1 .. Capacity - 2 /\ read_pos_ \in 0 .. Capacity - 1
    BY <1>1, QueueAssumption DEF IInv, TypeOK, Cells
  <2>2. Succ(read_pos_) = IF read_pos_ = Capacity - 1 THEN 0 ELSE read_pos_ + 1
    BY SuccLemma DEF IInv, TypeOK
  <2> QED BY <2>1, <2>2, ModOnce, QueueAssumption
<1>5. Contents # <<>> /\ Head(Contents) = out
  BY <1>1, <1>2, <1>3, Places DEF IInv, PopPublish
<1>6. Contents' = Tail(Contents)
  <2>1. Contents' = [k \in 1 .. n - 1 |-> buffer_[(Succ(read_pos_) + k - 1) % Capacity]]
    BY <1>1 DEF Contents, PopPublish, Ahead
  <2> HIDE DEF n
  <2>2. /\ Tail(Contents) \in Seq(Values \cup {NoItem})
        /\ Len(Tail(Contents)) = n - 1
        /\ \A k \in 1 .. n - 1 : Tail(Contents)[k] = Contents[k + 1]
    BY <1>2, <1>5, HeadTailProperties
  <2>3. \A k \in 1 .. n - 1 : Contents[k + 1] = buffer_[(Succ(read_pos_) + k - 1) % Capacity]
    BY <1>1, <1>3, <1>4
  <2>4. \A k \in 1 .. n - 1 : Contents'[k] = Tail(Contents)[k]
    BY <2>1, <2>2, <2>3
  <2>5. \A k \in 1 .. n - 1 : Contents[k + 1] \in Values \cup {NoItem}
    BY <1>1, <1>2, ElementOfSeq
  <2>6. Contents' \in Seq(Values \cup {NoItem}) /\ Len(Contents') = n - 1
    BY <1>1, <2>1, <2>3, <2>5
  <2> QED BY <2>2, <2>4, <2>6, SeqEqual
<1> QED BY <1>5, <1>6 DEF PopPublish, Queue!Pop

\* try_push and try_pop implement the push and pop of a FIFO queue with
\* Capacity - 1 places, each at its release store.
THEOREM Refinement == Spec => ImplementsQueue
<1>1. IInv /\ IInv' /\ [Next]_vars => [Queue!Next]_<<Contents, popped>>
  <2> SUFFICES ASSUME IInv, IInv', [Next]_vars PROVE [Queue!Next]_<<Contents, popped>>
    OBVIOUS
  <2>1. ASSUME UNCHANGED <<buffer_, write_pos_, read_pos_, popped>>
        PROVE  UNCHANGED <<Contents, popped>>
    BY <2>1 DEF Contents, Ahead
  <2>2. CASE PushWrite
    BY <2>2, WriteStutters
  <2>3. CASE PushPublish
    BY <2>3, PublishPushes DEF Queue!Next, PushPublish, IInv
  <2>4. CASE PopPublish
    BY <2>4, PublishPops DEF Queue!Next
  <2> QED
    BY <2>1, <2>2, <2>3, <2>4
    DEF Next, PushStep, PopStep, PushCall, PushCheck, PopCheck, PopRead, vars, consumer
<1> QED
  BY InitIInv, NextIInv, InitRefines, <1>1, PTL DEF Spec, ImplementsQueue, Queue!Spec
=============================================================================
