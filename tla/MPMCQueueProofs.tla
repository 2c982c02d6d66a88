--------------------------- MODULE MPMCQueueProofs ---------------------------
(***************************************************************************)
(* The MPMC queue with any number of cells, producers and consumers: a     *)
(* claimed cell is exclusive, pops return the item claimed at their        *)
(* position, sequence numbers only advance, and the claims form a FIFO     *)
(* queue.                                                                  *)
(***************************************************************************)
EXTENDS MPMCQueue, SequenceTheorems, TLAPS

\* A multiple of a positive number that is smaller than it is not positive.
LEMMA SmallMultiple ==
  ASSUME NEW c \in Nat, c > 0, NEW k \in Int, c * k < c, c * k > -c
  PROVE  k = 0
<1>1. ASSUME k >= 1 PROVE FALSE
  <2>1. c * (k - 1) >= 0 BY <1>1
  <2>2. c * (k - 1) = c * k - c OBVIOUS
  <2> QED BY <2>1, <2>2
<1>2. ASSUME k <= -1 PROVE FALSE
  <2>1. c * (-1 - k) >= 0 BY <1>2
  <2>2. c * (-1 - k) = -c - c * k OBVIOUS
  <2> QED BY <2>1, <2>2
<1> QED BY <1>1, <1>2

\* Positions less than a lap apart that share a cell are the same.
LEMMA SameCell ==
  ASSUME NEW p \in Nat, NEW q \in Nat, Cell(p) = Cell(q), p - q < Capacity, q - p < Capacity
  PROVE  p = q
<1> DEFINE a == p \div Capacity
           b == q \div Capacity
<1>1. a \in Int /\ b \in Int /\ Capacity \in Nat /\ Capacity > 0
  BY MPMCAssumption
<1>2. p = Capacity * a + Cell(p) /\ q = Capacity * b + Cell(q) /\ Cell(p) \in Int
  BY MPMCAssumption DEF Cell
<1>3. Capacity * (a - b) = Capacity * a - Capacity * b /\ Capacity * a \in Int /\ Capacity * b \in Int
  <2> HIDE DEF a, b
  <2> QED BY <1>1
<1>4. Capacity * (a - b) = p - q
  <2> DEFINE x == Capacity * a
             y == Capacity * b
             r == Cell(p)
  <2>1. p = x + r /\ q = y + r /\ r \in Int /\ x \in Int /\ y \in Int
    BY <1>2, <1>3
  <2>2. x - y = p - q
    <3> HIDE DEF x, y, r
    <3> QED BY <2>1
  <2> QED BY <2>2, <1>3
<1>5. a - b = 0
  <2> DEFINE k == a - b
  <2>1. k \in Int /\ Capacity * k < Capacity /\ Capacity * k > -Capacity
    <3> HIDE DEF a, b
    <3> QED BY <1>1, <1>4
  <2> HIDE DEF k
  <2>2. k = 0 BY <1>1, <2>1, SmallMultiple
  <2> QED BY <2>2 DEF k
<1> HIDE DEF a, b
<1> QED BY <1>1, <1>4, <1>5

\* A position has a cell, and the same one a lap later.
LEMMA CellLap ==
  ASSUME NEW p \in Nat
  PROVE  /\ Cell(p) \in Cells
         /\ Cell(p + Capacity) = Cell(p)
         /\ Cell(p + 1) # Cell(p)
         /\ p < Capacity => Cell(p) = p
<1>1. Cell(p) \in Cells
  BY MPMCAssumption DEF Cell, Cells
<1>2. Cell(p + Capacity) = Cell(p)
  <2> DEFINE a == p \div Capacity
             b == (p + Capacity) \div Capacity
             r1 == Cell(p)
             r2 == Cell(p + Capacity)
             k == b - a - 1
  <2>1. a \in Int /\ b \in Int /\ r1 \in 0 .. Capacity - 1 /\ r2 \in 0 .. Capacity - 1
    BY MPMCAssumption DEF Cell
  <2>2. p = Capacity * a + r1 /\ p + Capacity = Capacity * b + r2
    BY MPMCAssumption DEF Cell
  <2> HIDE DEF a, b, r1, r2
  <2>3. Capacity * k = Capacity * b - Capacity * a - Capacity
        /\ Capacity * a \in Int /\ Capacity * b \in Int
    BY <2>1, MPMCAssumption
  <2>4. k \in Int /\ Capacity * k = r1 - r2
    BY <2>1, <2>2, <2>3, MPMCAssumption
  <2> HIDE DEF k
  <2>5. k = 0
    BY <2>1, <2>4, SmallMultiple, MPMCAssumption
  <2>6. r1 = r2
    BY <2>1, <2>4, <2>5, MPMCAssumption
  <2> QED BY <2>6 DEF r1, r2
<1>3. Cell(p + 1) # Cell(p)
  BY MPMCAssumption, SameCell
<1>4. p < Capacity => Cell(p) = p
  BY MPMCAssumption DEF Cell
<1> QED BY <1>1, <1>2, <1>3, <1>4

-----------------------------------------------------------------------------
(* The inductive invariant.                                                *)

\* The cell waits for a push at its sequence number, at most a lap ahead of
\* the pops, or it holds the item claimed at the position before it.
CellOK(c) ==
    \/ Cell(sequence[c]) = c /\ sequence[c] < dequeue_pos_ + Capacity
    \/ /\ sequence[c] > 0 /\ Cell(sequence[c] - 1) = c
       /\ sequence[c] <= enqueue_pos_ /\ sequence[c] <= dequeue_pos_ + Capacity
       /\ data[c] = claimed[sequence[c]]

\* What a thread saw of its cell is a lower bound until its claim; from then
\* on the cell stays as it is until the thread releases it.
ProducerOK(t) ==
    /\ pc[t] # "idle" => item[t] \in Values
    /\ pc[t] = "claim" => sequence[Cell(pos[t])] >= pos[t]
    /\ Inside(t) => /\ pos[t] < enqueue_pos_
                    /\ sequence[Cell(pos[t])] = pos[t]
                    /\ item[t] = claimed[pos[t] + 1]
    /\ pc[t] = "publish" => data[Cell(pos[t])] = item[t]

ConsumerOK(t) ==
    /\ pc[t] = "claim" => sequence[Cell(pos[t])] > pos[t]
    /\ Inside(t) => /\ pos[t] < dequeue_pos_
                    /\ sequence[Cell(pos[t])] = pos[t] + 1
    /\ pc[t] = "publish" => item[t] = claimed[pos[t] + 1]

\* A position is claimed once.
Distinct(S) == \A t, u \in S : t # u /\ Inside(t) /\ Inside(u) => pos[t] # pos[u]

MPMCInv ==
    /\ TypeOK
    /\ Len(claimed) = enqueue_pos_
    /\ dequeue_pos_ <= enqueue_pos_
    /\ \A c \in Cells : CellOK(c)
    /\ \A t \in Producers : ProducerOK(t)
    /\ \A t \in Consumers : ConsumerOK(t)
    /\ Distinct(Producers) /\ Distinct(Consumers)

\* Nothing has been pushed at the start.
LEMMA InitInv == Init => MPMCInv
<1> SUFFICES ASSUME Init PROVE MPMCInv
  OBVIOUS
<1>1. TypeOK /\ Len(claimed) = enqueue_pos_ /\ dequeue_pos_ <= enqueue_pos_
  BY MPMCAssumption DEF Init, TypeOK, Cells
<1>2. ASSUME NEW c \in Cells PROVE CellOK(c)
  BY CellLap, MPMCAssumption DEF Init, CellOK, Cells
<1>3. \A t \in Threads : pc[t] = "idle"
  BY DEF Init
<1> QED BY <1>1, <1>2, <1>3 DEF MPMCInv, ProducerOK, ConsumerOK, Distinct, Inside, Threads

\* The decision of try_push on an old sequence number is right when the
\* compare-and-swap succeeds: the cell is free.
LEMMA PushReady ==
  ASSUME MPMCInv, sequence[Cell(enqueue_pos_)] >= enqueue_pos_
  PROVE  sequence[Cell(enqueue_pos_)] = enqueue_pos_
<1> DEFINE E == enqueue_pos_
           D == dequeue_pos_
           c == Cell(E)
           s == sequence[c]
<1>1. E \in Nat /\ D \in Nat /\ D <= E /\ c \in Cells /\ s \in Nat /\ Capacity \in Nat /\ Capacity > 1
  BY CellLap, MPMCAssumption DEF MPMCInv, TypeOK
<1>2. CellOK(c)
  BY <1>1 DEF MPMCInv
<1>3. CASE Cell(s) = c /\ s < D + Capacity
  BY <1>1, <1>3, SameCell
<1>4. CASE s > 0 /\ Cell(s - 1) = c /\ s <= E
  <2>1. s = E /\ s - 1 \in Nat BY <1>1, <1>4
  <2>2. s - 1 = E BY <2>1, <1>1, <1>4, SameCell
  <2> QED BY <2>1, <2>2
<1> QED BY <1>2, <1>3, <1>4 DEF CellOK

\* The same for try_pop: the cell holds the item claimed at the position.
LEMMA PopReady ==
  ASSUME MPMCInv, sequence[Cell(dequeue_pos_)] > dequeue_pos_
  PROVE  sequence[Cell(dequeue_pos_)] = dequeue_pos_ + 1 /\ dequeue_pos_ < enqueue_pos_
<1> DEFINE E == enqueue_pos_
           D == dequeue_pos_
           c == Cell(D)
           s == sequence[c]
<1>1. E \in Nat /\ D \in Nat /\ D <= E /\ c \in Cells /\ s \in Nat /\ Capacity \in Nat /\ Capacity > 1
  BY CellLap, MPMCAssumption DEF MPMCInv, TypeOK
<1>2. CellOK(c)
  BY <1>1 DEF MPMCInv
<1>3. CASE Cell(s) = c /\ s < D + Capacity
  BY <1>1, <1>3, SameCell
<1>4. CASE s > 0 /\ Cell(s - 1) = c /\ s <= E /\ s <= D + Capacity
  <2>1. s - 1 \in Nat /\ s - 1 >= D /\ s - 1 < D + Capacity BY <1>1, <1>4
  <2>2. s - 1 = D BY <2>1, <1>1, <1>4, SameCell
  <2> QED BY <2>1, <2>2, <1>1, <1>4
<1> QED BY <1>2, <1>3, <1>4 DEF CellOK

\* Threads between claim and release are in different cells: the sequence
\* number of a cell tells which position it is used for, and by which side.
LEMMA InvExclusive == MPMCInv => ExclusiveCells
<1> SUFFICES ASSUME MPMCInv, NEW t \in Threads, NEW u \in Threads, t # u,
                    Inside(t), Inside(u), Cell(pos[t]) = Cell(pos[u])
             PROVE  FALSE
  BY DEF MPMCInv, ExclusiveCells
<1>1. pos[t] \in Nat /\ pos[u] \in Nat
  BY DEF MPMCInv, TypeOK
<1>2. CASE t \in Producers /\ u \in Producers
  BY <1>2 DEF MPMCInv, ProducerOK, Distinct
<1>3. CASE t \in Consumers /\ u \in Consumers
  BY <1>1, <1>3 DEF MPMCInv, ConsumerOK, Distinct
<1>4. CASE t \in Producers /\ u \in Consumers
  <2>1. pos[t] = pos[u] + 1 BY <1>4 DEF MPMCInv, ProducerOK, ConsumerOK
  <2> QED BY <2>1, <1>1, CellLap
<1>5. CASE t \in Consumers /\ u \in Producers
  <2>1. pos[u] = pos[t] + 1 BY <1>5 DEF MPMCInv, ProducerOK, ConsumerOK
  <2> QED BY <2>1, <1>1, CellLap
<1> QED BY <1>2, <1>3, <1>4, <1>5 DEF Threads

-----------------------------------------------------------------------------
(* Every step keeps the invariant.                                         *)

\* A step before the claim, or one that gives up: only the thread's own
\* variables change.
LEMMA LocalStep ==
  ASSUME MPMCInv, NEW t \in Threads, NEW l \in {"idle", "load", "sequence", "claim"},
         UNCHANGED <<shared, claimed>>, Goto(t, l),
         pos' \in [Threads -> Nat], item' \in [Threads -> Values \cup {NoItem}],
         \A u \in Threads \ {t} : pos'[u] = pos[u] /\ item'[u] = item[u],
         t \in Producers /\ l # "idle" => item'[t] \in Values,
         t \in Producers /\ l = "claim" => sequence[Cell(pos'[t])] >= pos'[t],
         t \in Consumers /\ l = "claim" => sequence[Cell(pos'[t])] > pos'[t]
  PROVE  MPMCInv'
<1>1. /\ pc' = [pc EXCEPT ![t] = l]
      /\ UNCHANGED <<enqueue_pos_, dequeue_pos_, sequence, data, claimed>>
  BY DEF Goto, shared
<1>2. TypeOK'
  BY <1>1 DEF MPMCInv, TypeOK
<1>3. ~Inside(t)' /\ pc'[t] = l
  BY <1>1 DEF Inside, MPMCInv, TypeOK
<1>4. \A u \in Threads \ {t} : pc'[u] = pc[u] /\ pos'[u] = pos[u] /\ item'[u] = item[u]
                               /\ (Inside(u)' <=> Inside(u))
  BY <1>1 DEF Inside, MPMCInv, TypeOK
<1>5. \A c \in Cells : CellOK(c)'
  BY <1>1 DEF CellOK, MPMCInv
<1>6. ASSUME NEW u \in Producers PROVE ProducerOK(u)'
  <2>1. CASE u = t
    BY <1>1, <1>3, <2>1 DEF ProducerOK, Inside
  <2>2. CASE u # t
    BY <1>1, <1>4, <2>2 DEF ProducerOK, MPMCInv, Threads
  <2> QED BY <2>1, <2>2
<1>7. ASSUME NEW u \in Consumers PROVE ConsumerOK(u)'
  <2>1. CASE u = t
    BY <1>1, <1>3, <2>1 DEF ConsumerOK, Inside
  <2>2. CASE u # t
    BY <1>1, <1>4, <2>2 DEF ConsumerOK, MPMCInv, Threads
  <2> QED BY <2>1, <2>2
<1>8. Distinct(Producers)' /\ Distinct(Consumers)'
  BY <1>3, <1>4 DEF Distinct, MPMCInv, Threads
<1> QED BY <1>1, <1>2, <1>5, <1>6, <1>7, <1>8 DEF MPMCInv

\* The loads and failed claims of either loop.
LEMMA LoadsKeep ==
  ASSUME MPMCInv, NEW t \in Threads, NEW r \in {0, 1}, NEW s \in Nat, NEW p \in Nat, NEW q,
         t \in Producers => r = 0, t \in Consumers => r = 1,
         t \in Producers => pc[t] # "idle",
         LoadPos(t, q, p) \/ LoadSequence(t, r, s) \/ (q \in Nat /\ ClaimFails(t, q))
  PROVE  MPMCInv'
<1>1. /\ item \in [Threads -> Values \cup {NoItem}] /\ pos \in [Threads -> Nat]
      /\ t \in Producers => item[t] \in Values
      /\ sequence \in [Cells -> Nat] /\ pos[t] \in Nat /\ Cell(pos[t]) \in Cells
  BY CellLap DEF MPMCInv, TypeOK, ProducerOK
<1>2. CASE LoadPos(t, q, p)
  BY <1>1, <1>2, LocalStep DEF LoadPos
<1>3. CASE LoadSequence(t, r, s)
  <2>1. s <= sequence[Cell(pos[t])] /\ UNCHANGED <<shared, pos, item, claimed>>
    BY <1>3 DEF LoadSequence, SequenceHistory
  <2>2. CASE s = pos[t] + r
    <3>1. Goto(t, "claim") BY <1>1, <1>3, <2>2 DEF LoadSequence
    <3>2. t \in Producers => sequence[Cell(pos'[t])] >= pos'[t]
      BY <2>1, <2>2, <1>1
    <3>3. t \in Consumers => sequence[Cell(pos'[t])] > pos'[t]
      BY <2>1, <2>2, <1>1
    <3> QED BY <3>1, <3>2, <3>3, <2>1, <1>1, LocalStep
  <2>3. CASE s < pos[t] + r
    <3>1. Goto(t, "idle") BY <1>1, <1>3, <2>3 DEF LoadSequence
    <3> QED BY <3>1, <2>1, <1>1, LocalStep
  <2>4. CASE s > pos[t] + r
    <3>1. Goto(t, "load") BY <1>1, <1>3, <2>4 DEF LoadSequence
    <3> QED BY <3>1, <2>1, <1>1, LocalStep
  <2> QED BY <2>2, <2>3, <2>4, <1>1
<1>4. CASE q \in Nat /\ ClaimFails(t, q)
  BY <1>1, <1>4, LocalStep DEF ClaimFails
<1> QED BY <1>2, <1>3, <1>4

\* The claim of a push: the position is new, and the cell is free.
LEMMA PushClaimKeeps ==
  ASSUME MPMCInv, NEW t \in Producers, PushClaim(t)
  PROVE  MPMCInv'
<1> DEFINE E == enqueue_pos_
<1>1. /\ pc[t] = "claim" /\ pos[t] = E /\ enqueue_pos_' = E + 1
      /\ claimed' = Append(claimed, item[t]) /\ pc' = [pc EXCEPT ![t] = "access"]
      /\ UNCHANGED <<dequeue_pos_, sequence, data, pos, item>>
  BY DEF PushClaim, Goto
<1>2. /\ t \in Threads /\ E \in Nat /\ dequeue_pos_ \in Nat /\ dequeue_pos_ <= E
      /\ claimed \in Seq(Values) /\ Len(claimed) = E /\ item[t] \in Values
  BY <1>1 DEF MPMCInv, TypeOK, Threads, ProducerOK
<1>3. sequence[Cell(E)] = E
  BY <1>1, PushReady DEF MPMCInv, ProducerOK
<1>4. /\ claimed' \in Seq(Values) /\ Len(claimed') = E + 1 /\ claimed'[E + 1] = item[t]
      /\ \A k \in 1 .. E : claimed'[k] = claimed[k]
  BY <1>1, <1>2
<1>5. TypeOK'
  BY <1>1, <1>2, <1>4 DEF MPMCInv, TypeOK
<1>6. /\ \A u \in Threads \ {t} : pc'[u] = pc[u] /\ (Inside(u)' <=> Inside(u))
      /\ pc'[t] = "access"
  BY <1>1, <1>2 DEF Inside, MPMCInv, TypeOK
<1>7. ASSUME NEW c \in Cells PROVE CellOK(c)'
  <2>1. CellOK(c) /\ sequence[c] \in Nat BY DEF MPMCInv, TypeOK
  <2> QED BY <2>1, <1>1, <1>2, <1>4 DEF CellOK
<1>8. ASSUME NEW u \in Producers PROVE ProducerOK(u)'
  <2>1. CASE u = t
    BY <2>1, <1>1, <1>2, <1>3, <1>4, <1>6 DEF ProducerOK, Inside
  <2>2. CASE u # t
    <3>1. ProducerOK(u) /\ pos[u] \in Nat /\ u \in Threads BY DEF MPMCInv, TypeOK, Threads
    <3> QED BY <3>1, <2>2, <1>1, <1>2, <1>4, <1>6 DEF ProducerOK
  <2> QED BY <2>1, <2>2
<1>9. ASSUME NEW u \in Consumers PROVE ConsumerOK(u)'
  <2>1. ConsumerOK(u) /\ pos[u] \in Nat /\ u \in Threads /\ u # t
    BY MPMCAssumption DEF MPMCInv, TypeOK, Threads
  <2>2. Inside(u) => pos[u] + 1 \in 1 .. E
    BY <2>1, <1>2 DEF ConsumerOK
  <2> QED BY <2>1, <2>2, <1>1, <1>4, <1>6 DEF ConsumerOK, Inside
<1>10. Distinct(Producers)'
  <2>1. \A u \in Producers \ {t} : Inside(u) => pos[u] < E /\ pos[u] # E
    BY <1>2 DEF MPMCInv, TypeOK, Threads, ProducerOK
  <2>2. SUFFICES ASSUME NEW u \in Producers, NEW v \in Producers, u # v, Inside(u)', Inside(v)'
                 PROVE  pos[u] # pos[v]
    BY <1>1 DEF Distinct
  <2>3. CASE u = t BY <2>1, <2>2, <2>3, <1>1, <1>6 DEF Threads
  <2>4. CASE v = t BY <2>1, <2>2, <2>4, <1>1, <1>6 DEF Threads
  <2>5. CASE u # t /\ v # t BY <2>2, <2>5, <1>6 DEF Threads, MPMCInv, Distinct
  <2> QED BY <2>3, <2>4, <2>5
<1>11. Distinct(Consumers)'
  BY <1>1, <1>6, MPMCAssumption DEF Distinct, MPMCInv, Threads
<1> QED BY <1>1, <1>2, <1>4, <1>5, <1>7, <1>8, <1>9, <1>10, <1>11 DEF MPMCInv

\* The claim of a pop: the position is new, and the cell holds its item.
LEMMA PopClaimKeeps ==
  ASSUME MPMCInv, NEW t \in Consumers, PopClaim(t)
  PROVE  MPMCInv'
<1> DEFINE D == dequeue_pos_
<1>1. /\ pc[t] = "claim" /\ pos[t] = D /\ dequeue_pos_' = D + 1
      /\ pc' = [pc EXCEPT ![t] = "access"]
      /\ UNCHANGED <<enqueue_pos_, sequence, data, pos, item, claimed>>
  BY DEF PopClaim, Goto
<1>2. t \in Threads /\ D \in Nat /\ enqueue_pos_ \in Nat /\ Capacity \in Nat
  BY MPMCAssumption DEF MPMCInv, TypeOK, Threads
<1>3. sequence[Cell(D)] = D + 1 /\ D < enqueue_pos_
  BY <1>1, PopReady DEF MPMCInv, ConsumerOK
<1>4. TypeOK'
  BY <1>1, <1>2 DEF MPMCInv, TypeOK
<1>5. /\ \A u \in Threads \ {t} : pc'[u] = pc[u] /\ (Inside(u)' <=> Inside(u))
      /\ pc'[t] = "access"
  BY <1>1, <1>2 DEF Inside, MPMCInv, TypeOK
<1>6. ASSUME NEW c \in Cells PROVE CellOK(c)'
  <2>1. CellOK(c) /\ sequence[c] \in Nat BY DEF MPMCInv, TypeOK
  <2> QED BY <2>1, <1>1, <1>2 DEF CellOK
<1>7. ASSUME NEW u \in Producers PROVE ProducerOK(u)'
  <2>1. ProducerOK(u) /\ u \in Threads /\ u # t
    BY MPMCAssumption DEF MPMCInv, Threads
  <2> QED BY <2>1, <1>1, <1>5 DEF ProducerOK
<1>8. ASSUME NEW u \in Consumers PROVE ConsumerOK(u)'
  <2>1. CASE u = t
    BY <2>1, <1>1, <1>2, <1>3, <1>5 DEF ConsumerOK, Inside
  <2>2. CASE u # t
    <3>1. ConsumerOK(u) /\ pos[u] \in Nat /\ u \in Threads BY DEF MPMCInv, TypeOK, Threads
    <3> QED BY <3>1, <2>2, <1>1, <1>2, <1>5 DEF ConsumerOK
  <2> QED BY <2>1, <2>2
<1>9. Distinct(Consumers)'
  <2>1. \A u \in Consumers \ {t} : Inside(u) => pos[u] < D /\ pos[u] # D
    BY <1>2 DEF MPMCInv, TypeOK, Threads, ConsumerOK
  <2>2. SUFFICES ASSUME NEW u \in Consumers, NEW v \in Consumers, u # v, Inside(u)', Inside(v)'
                 PROVE  pos[u] # pos[v]
    BY <1>1 DEF Distinct
  <2>3. CASE u = t BY <2>1, <2>2, <2>3, <1>1, <1>5 DEF Threads
  <2>4. CASE v = t BY <2>1, <2>2, <2>4, <1>1, <1>5 DEF Threads
  <2>5. CASE u # t /\ v # t BY <2>2, <2>5, <1>5 DEF Threads, MPMCInv, Distinct
  <2> QED BY <2>3, <2>4, <2>5
<1>10. Distinct(Producers)'
  BY <1>1, <1>5, MPMCAssumption DEF Distinct, MPMCInv, Threads
<1>11. dequeue_pos_' <= enqueue_pos_' /\ Len(claimed') = enqueue_pos_'
  BY <1>1, <1>2, <1>3 DEF MPMCInv
<1> QED BY <1>4, <1>6, <1>7, <1>8, <1>9, <1>10, <1>11 DEF MPMCInv

\* The cell of a thread between its claim and its release.
LEMMA InsideCell ==
  ASSUME MPMCInv, NEW t \in Threads, Inside(t)
  PROVE  /\ t \in Producers => pos[t] < dequeue_pos_ + Capacity
         /\ t \in Consumers => data[Cell(pos[t])] = claimed[pos[t] + 1]
<1> DEFINE c == Cell(pos[t])
<1>1. pos[t] \in Nat /\ c \in Cells /\ CellOK(c) /\ dequeue_pos_ \in Nat /\ Capacity \in Nat
  BY CellLap, MPMCAssumption DEF MPMCInv, TypeOK
<1>2. ASSUME t \in Producers PROVE pos[t] < dequeue_pos_ + Capacity
  <2>1. sequence[c] = pos[t] BY <1>2 DEF MPMCInv, ProducerOK
  <2>2. ASSUME pos[t] > 0 PROVE Cell(pos[t] - 1) # c
    <3>1. pos[t] - 1 \in Nat /\ (pos[t] - 1) + 1 = pos[t] BY <1>1, <2>2
    <3> QED BY <3>1, CellLap
  <2> QED BY <1>1, <2>1, <2>2 DEF CellOK
<1>3. ASSUME t \in Consumers PROVE data[c] = claimed[pos[t] + 1]
  <2>1. sequence[c] = pos[t] + 1 BY <1>3 DEF MPMCInv, ConsumerOK
  <2>2. Cell(pos[t] + 1) # c BY <1>1, CellLap
  <2> QED BY <1>1, <2>1, <2>2 DEF CellOK
<1> QED BY <1>2, <1>3

\* A push stores its item in a cell nobody else uses.
LEMMA PushWriteKeeps ==
  ASSUME MPMCInv, NEW t \in Producers, PushWrite(t)
  PROVE  MPMCInv'
<1> DEFINE c == Cell(pos[t])
<1>1. /\ pc[t] = "access" /\ data' = [data EXCEPT ![c] = item[t]]
      /\ pc' = [pc EXCEPT ![t] = "publish"]
      /\ UNCHANGED <<enqueue_pos_, dequeue_pos_, sequence, pos, item, claimed>>
  BY DEF PushWrite, Goto
<1>2. t \in Threads /\ Inside(t) /\ pos[t] \in Nat /\ c \in Cells /\ ProducerOK(t)
  BY <1>1, CellLap DEF MPMCInv, TypeOK, Threads, Inside
<1>3. /\ TypeOK' /\ data'[c] = item[t]
      /\ \A d \in Cells \ {c} : data'[d] = data[d]
  BY <1>1, <1>2 DEF MPMCInv, TypeOK
<1>4. /\ \A u \in Threads \ {t} : pc'[u] = pc[u]
      /\ \A u \in Threads : Inside(u)' <=> Inside(u)
      /\ pc'[t] = "publish"
  BY <1>1, <1>2 DEF Inside, MPMCInv, TypeOK
<1>5. ASSUME NEW d \in Cells PROVE CellOK(d)'
  <2>1. CASE d = c
    <3>1. sequence[c] = pos[t] /\ pos[t] < dequeue_pos_ + Capacity
      BY <1>2, InsideCell DEF ProducerOK
    <3> QED BY <3>1, <2>1, <1>1 DEF CellOK
  <2>2. CASE d # c
    BY <2>2, <1>1, <1>3 DEF CellOK, MPMCInv
  <2> QED BY <2>1, <2>2
<1>6. ASSUME NEW u \in Producers PROVE ProducerOK(u)'
  <2>1. CASE u = t
    BY <2>1, <1>1, <1>2, <1>3, <1>4 DEF ProducerOK, Inside
  <2>2. CASE u # t
    <3>1. u \in Threads /\ ProducerOK(u) /\ Cell(pos[u]) \in Cells
      BY CellLap DEF MPMCInv, TypeOK, Threads
    <3>2. pc[u] = "publish" => Cell(pos[u]) # c
      BY <3>1, <2>2, <1>2, InvExclusive DEF ExclusiveCells, Inside
    <3> QED BY <3>1, <3>2, <2>2, <1>1, <1>3, <1>4 DEF ProducerOK
  <2> QED BY <2>1, <2>2
<1>7. ASSUME NEW u \in Consumers PROVE ConsumerOK(u)'
  <2>1. u \in Threads /\ u # t /\ ConsumerOK(u)
    BY MPMCAssumption DEF MPMCInv, Threads
  <2> QED BY <2>1, <1>1, <1>4 DEF ConsumerOK
<1>8. Distinct(Producers)' /\ Distinct(Consumers)'
  BY <1>1, <1>4 DEF Distinct, MPMCInv, Threads
<1> QED BY <1>1, <1>3, <1>5, <1>6, <1>7, <1>8 DEF MPMCInv

\* A pop takes the item out.
LEMMA PopReadKeeps ==
  ASSUME MPMCInv, NEW t \in Consumers, PopRead(t)
  PROVE  MPMCInv'
<1>1. /\ pc[t] = "access" /\ item' = [item EXCEPT ![t] = data[Cell(pos[t])]]
      /\ pc' = [pc EXCEPT ![t] = "publish"]
      /\ UNCHANGED <<enqueue_pos_, dequeue_pos_, sequence, data, pos, claimed>>
  BY DEF PopRead, Goto, shared
<1>2. t \in Threads /\ Inside(t) /\ Cell(pos[t]) \in Cells /\ ConsumerOK(t)
  BY <1>1, CellLap DEF MPMCInv, TypeOK, Threads, Inside
<1>3. TypeOK'
  BY <1>1, <1>2 DEF MPMCInv, TypeOK
<1>4. /\ \A u \in Threads \ {t} : pc'[u] = pc[u] /\ item'[u] = item[u]
      /\ \A u \in Threads : Inside(u)' <=> Inside(u)
      /\ pc'[t] = "publish" /\ item'[t] = data[Cell(pos[t])]
  BY <1>1, <1>2 DEF Inside, MPMCInv, TypeOK
<1>5. \A c \in Cells : CellOK(c)'
  BY <1>1 DEF CellOK, MPMCInv
<1>6. ASSUME NEW u \in Producers PROVE ProducerOK(u)'
  <2>1. u \in Threads /\ u # t /\ ProducerOK(u)
    BY MPMCAssumption DEF MPMCInv, Threads
  <2> QED BY <2>1, <1>1, <1>4 DEF ProducerOK
<1>7. ASSUME NEW u \in Consumers PROVE ConsumerOK(u)'
  <2>1. CASE u = t
    BY <2>1, <1>1, <1>2, <1>4, InsideCell DEF ConsumerOK
  <2>2. CASE u # t
    BY <2>2, <1>1, <1>4 DEF ConsumerOK, MPMCInv, Threads
  <2> QED BY <2>1, <2>2
<1>8. Distinct(Producers)' /\ Distinct(Consumers)'
  BY <1>1, <1>4 DEF Distinct, MPMCInv, Threads
<1> QED BY <1>1, <1>3, <1>5, <1>6, <1>7, <1>8 DEF MPMCInv

\* A release store hands the cell to the other side.
LEMMA ReleaseKeeps ==
  ASSUME MPMCInv, NEW t \in Threads, NEW n \in Nat, Release(t, n),
         t \in Producers => n = pos[t] + 1,
         t \in Consumers => n = pos[t] + Capacity
  PROVE  MPMCInv'
<1> DEFINE c == Cell(pos[t])
<1>1. /\ pc[t] = "publish" /\ sequence' = [sequence EXCEPT ![c] = n]
      /\ pc' = [pc EXCEPT ![t] = "idle"]
      /\ UNCHANGED <<enqueue_pos_, dequeue_pos_, data, pos, item, claimed>>
  BY DEF Release, Goto
<1>2. /\ Inside(t) /\ pos[t] \in Nat /\ c \in Cells /\ Capacity \in Nat /\ Capacity > 1
      /\ enqueue_pos_ \in Nat /\ dequeue_pos_ \in Nat
  BY <1>1, CellLap, MPMCAssumption DEF MPMCInv, TypeOK, Inside
<1>3. /\ TypeOK' /\ sequence'[c] = n
      /\ \A d \in Cells \ {c} : sequence'[d] = sequence[d]
  BY <1>1, <1>2 DEF MPMCInv, TypeOK
<1>4. n >= sequence[c]
  <2>1. CASE t \in Producers BY <2>1, <1>2 DEF MPMCInv, ProducerOK
  <2>2. CASE t \in Consumers BY <2>2, <1>2 DEF MPMCInv, ConsumerOK
  <2> QED BY <2>1, <2>2 DEF Threads
<1>5. /\ \A u \in Threads \ {t} : pc'[u] = pc[u] /\ (Inside(u)' <=> Inside(u))
      /\ pc'[t] = "idle" /\ ~Inside(t)'
  BY <1>1 DEF Inside, MPMCInv, TypeOK
<1>6. ASSUME NEW d \in Cells PROVE CellOK(d)'
  <2>1. CASE d # c
    BY <2>1, <1>1, <1>3 DEF CellOK, MPMCInv
  <2>2. CASE d = c /\ t \in Producers
    <3>1. /\ n = pos[t] + 1 /\ pos[t] < enqueue_pos_ /\ pos[t] < dequeue_pos_ + Capacity
          /\ data[c] = claimed[pos[t] + 1]
      BY <2>2, <1>1, <1>2, InsideCell DEF MPMCInv, ProducerOK
    <3>2. n > 0 /\ n - 1 = pos[t] /\ n <= enqueue_pos_ /\ n <= dequeue_pos_ + Capacity
      BY <3>1, <1>2
    <3> QED BY <3>1, <3>2, <2>2, <1>1, <1>3 DEF CellOK
  <2>3. CASE d = c /\ t \in Consumers
    <3>1. n = pos[t] + Capacity /\ pos[t] < dequeue_pos_
      BY <2>3, <1>2 DEF MPMCInv, ConsumerOK
    <3>2. Cell(n) = c /\ n < dequeue_pos_ + Capacity
      BY <3>1, <1>2, CellLap
    <3> QED BY <3>2, <2>3, <1>1, <1>3 DEF CellOK
  <2> QED BY <2>1, <2>2, <2>3 DEF Threads
<1>7. ASSUME NEW u \in Threads, u # t
      PROVE  /\ sequence'[Cell(pos[u])] >= sequence[Cell(pos[u])]
             /\ Inside(u) => sequence'[Cell(pos[u])] = sequence[Cell(pos[u])]
             /\ pos[u] \in Nat /\ sequence[Cell(pos[u])] \in Nat /\ sequence'[Cell(pos[u])] \in Nat
  <2>1. pos[u] \in Nat /\ Cell(pos[u]) \in Cells /\ sequence[Cell(pos[u])] \in Nat
    BY CellLap DEF MPMCInv, TypeOK
  <2>2. Inside(u) => Cell(pos[u]) # c
    BY <1>2, <1>7, InvExclusive DEF ExclusiveCells
  <2> QED BY <2>1, <2>2, <1>3, <1>4
<1>8. ASSUME NEW u \in Producers PROVE ProducerOK(u)'
  <2>1. CASE u = t BY <2>1, <1>5 DEF ProducerOK, Inside
  <2>2. CASE u # t
    <3>1. u \in Threads /\ ProducerOK(u) BY DEF MPMCInv, Threads
    <3> QED BY <3>1, <2>2, <1>1, <1>5, <1>7 DEF ProducerOK
  <2> QED BY <2>1, <2>2
<1>9. ASSUME NEW u \in Consumers PROVE ConsumerOK(u)'
  <2>1. CASE u = t BY <2>1, <1>5 DEF ConsumerOK, Inside
  <2>2. CASE u # t
    <3>1. u \in Threads /\ ConsumerOK(u) BY DEF MPMCInv, Threads
    <3> QED BY <3>1, <2>2, <1>1, <1>5, <1>7 DEF ConsumerOK
  <2> QED BY <2>1, <2>2
<1>10. Distinct(Producers)' /\ Distinct(Consumers)'
  BY <1>1, <1>5 DEF Distinct, MPMCInv, Threads
<1> QED BY <1>1, <1>3, <1>6, <1>8, <1>9, <1>10 DEF MPMCInv

\* One step per action of either loop.
LEMMA NextInv == MPMCInv /\ [Next]_vars => MPMCInv'
<1> SUFFICES ASSUME MPMCInv, [Next]_vars PROVE MPMCInv'
  OBVIOUS
<1>1. /\ enqueue_pos_ \in Nat /\ dequeue_pos_ \in Nat /\ Capacity \in Nat
      /\ pos \in [Threads -> Nat] /\ item \in [Threads -> Values \cup {NoItem}]
  BY MPMCAssumption DEF MPMCInv, TypeOK
<1>2. ASSUME NEW t \in Producers PROVE t \in Threads /\ t \notin Consumers /\ pos[t] + 1 \in Nat
  BY <1>1, MPMCAssumption DEF Threads
<1>3. ASSUME NEW t \in Consumers PROVE t \in Threads /\ t \notin Producers /\ pos[t] + Capacity \in Nat
  BY <1>1, MPMCAssumption DEF Threads
<1>4. ASSUME NEW t \in Producers, NEW v \in Values, PushCall(t, v) PROVE MPMCInv'
  BY <1>1, <1>2, <1>4, LocalStep DEF PushCall
<1>5. ASSUME NEW t \in Producers, PushStep(t) PROVE MPMCInv'
  <2>1. ASSUME NEW p \in 0 .. enqueue_pos_, LoadPos(t, enqueue_pos_, p) PROVE MPMCInv'
    <3>1. pc[t] # "idle" /\ p \in Nat BY <2>1, <1>1 DEF LoadPos
    <3> QED BY <3>1, <2>1, <1>2, LoadsKeep
  <2>2. ASSUME NEW n \in 0 .. enqueue_pos_ + Capacity, LoadSequence(t, 0, n) PROVE MPMCInv'
    <3>1. pc[t] # "idle" /\ n \in Nat BY <2>2, <1>1 DEF LoadSequence
    <3> QED BY <3>1, <2>2, <1>2, LoadsKeep
  <2>3. CASE PushClaim(t) BY <2>3, PushClaimKeeps
  <2>4. CASE ClaimFails(t, enqueue_pos_)
    <3>1. pc[t] # "idle" BY <2>4 DEF ClaimFails
    <3> QED BY <3>1, <2>4, <1>1, <1>2, LoadsKeep
  <2>5. CASE PushWrite(t) BY <2>5, PushWriteKeeps
  <2>6. CASE PushPublish(t) BY <2>6, <1>2, ReleaseKeeps DEF PushPublish
  <2> QED BY <1>5, <2>1, <2>2, <2>3, <2>4, <2>5, <2>6 DEF PushStep
<1>6. ASSUME NEW t \in Consumers, PopStep(t) PROVE MPMCInv'
  <2>1. CASE PopCall(t) BY <2>1, <1>1, <1>3, LocalStep DEF PopCall
  <2>2. ASSUME NEW p \in 0 .. dequeue_pos_, LoadPos(t, dequeue_pos_, p) PROVE MPMCInv'
    <3>1. p \in Nat BY <1>1
    <3> QED BY <3>1, <2>2, <1>3, LoadsKeep
  <2>3. ASSUME NEW n \in 0 .. enqueue_pos_ + Capacity, LoadSequence(t, 1, n) PROVE MPMCInv'
    <3>1. n \in Nat BY <1>1
    <3> QED BY <3>1, <2>3, <1>3, LoadsKeep
  <2>4. CASE PopClaim(t) BY <2>4, PopClaimKeeps
  <2>5. CASE ClaimFails(t, dequeue_pos_) BY <2>5, <1>1, <1>3, LoadsKeep
  <2>6. CASE PopRead(t) BY <2>6, PopReadKeeps
  <2>7. CASE PopPublish(t) BY <2>7, <1>3, ReleaseKeeps DEF PopPublish
  <2> QED BY <1>6, <2>1, <2>2, <2>3, <2>4, <2>5, <2>6, <2>7 DEF PopStep
<1>7. CASE UNCHANGED vars
  BY <1>7 DEF vars, MPMCInv, TypeOK, CellOK, ProducerOK, ConsumerOK, Distinct, Inside
<1> QED BY <1>4, <1>5, <1>6, <1>7 DEF Next

-----------------------------------------------------------------------------
\* Between its compare-and-swap and its release store a thread of try_push or
\* try_pop has its cell for itself, although its loads may have been old.
THEOREM Exclusive == Spec => []ExclusiveCells
BY InitInv, NextInv, InvExclusive, PTL DEF Spec

\* try_pop returns the item that was pushed at its own position.
THEOREM PopOrder == Spec => []PopsInClaimOrder
<1>1. MPMCInv => PopsInClaimOrder
  BY DEF MPMCInv, ConsumerOK, PopsInClaimOrder
<1> QED BY <1>1, InitInv, NextInv, PTL DEF Spec

\* The sequence numbers go through the states the header documents, one
\* release store at a time.
THEOREM Advances == Spec => SequenceAdvances
<1> DEFINE Advance == \A c \in Cells : sequence'[c] # sequence[c] =>
                sequence'[c] = sequence[c] + (IF Cell(sequence[c]) = c THEN 1 ELSE Capacity - 1)
<1>1. ASSUME MPMCInv, Next PROVE Advance
  <2>1. ASSUME NEW t \in Threads, NEW n \in Nat, Release(t, n), NEW c \in Cells, sequence'[c] # sequence[c]
        PROVE  c = Cell(pos[t]) /\ sequence'[c] = n /\ Inside(t) /\ pos[t] \in Nat
    BY <1>1, <2>1 DEF Release, MPMCInv, TypeOK, Inside
  <2>2. ASSUME NEW t \in Producers, PushPublish(t) PROVE Advance
    <3>1. t \in Threads /\ pos[t] + 1 \in Nat /\ Release(t, pos[t] + 1)
      BY <1>1, <2>2 DEF MPMCInv, TypeOK, Threads, PushPublish
    <3> SUFFICES ASSUME NEW c \in Cells, sequence'[c] # sequence[c]
                 PROVE  sequence'[c] = sequence[c] + (IF Cell(sequence[c]) = c THEN 1 ELSE Capacity - 1)
      OBVIOUS
    <3>2. c = Cell(pos[t]) /\ sequence'[c] = pos[t] + 1 /\ Inside(t)
      BY <3>1, <2>1
    <3>3. sequence[c] = pos[t]
      BY <3>2, <1>1 DEF MPMCInv, ProducerOK
    <3> QED BY <3>2, <3>3
  <2>3. ASSUME NEW t \in Consumers, PopPublish(t) PROVE Advance
    <3>1. t \in Threads /\ pos[t] \in Nat /\ pos[t] + Capacity \in Nat /\ Release(t, pos[t] + Capacity)
      BY <1>1, <2>3, MPMCAssumption DEF MPMCInv, TypeOK, Threads, PopPublish
    <3> SUFFICES ASSUME NEW c \in Cells, sequence'[c] # sequence[c]
                 PROVE  sequence'[c] = sequence[c] + (IF Cell(sequence[c]) = c THEN 1 ELSE Capacity - 1)
      OBVIOUS
    <3>2. c = Cell(pos[t]) /\ sequence'[c] = pos[t] + Capacity /\ Inside(t)
      BY <3>1, <2>1
    <3>3. sequence[c] = pos[t] + 1
      BY <3>2, <1>1 DEF MPMCInv, ConsumerOK
    <3>4. Cell(sequence[c]) # c
      BY <3>1, <3>2, <3>3, CellLap
    <3> QED BY <3>1, <3>2, <3>3, <3>4, MPMCAssumption
  <2>4. CASE UNCHANGED sequence
    BY <2>4
  <2> QED
    BY <1>1, <2>2, <2>3, <2>4 DEF Next, PushCall, PushStep, PopStep, PopCall, LoadPos, LoadSequence,
        ClaimFails, PushClaim, PushWrite, PopClaim, PopRead, shared
<1>2. MPMCInv /\ [Next]_vars => [Advance]_vars
  BY <1>1
<1> QED BY <1>2, InitInv, NextInv, PTL DEF Spec, SequenceAdvances

-----------------------------------------------------------------------------
(* The queue in the order of the claims.                                   *)

\* The claims not yet popped, one by one.
LEMMA ContentsSeq ==
  ASSUME MPMCInv
  PROVE  /\ Contents \in Seq(Values)
         /\ Len(Contents) = enqueue_pos_ - dequeue_pos_
         /\ \A k \in 1 .. enqueue_pos_ - dequeue_pos_ : Contents[k] = claimed[dequeue_pos_ + k]
<1>1. /\ claimed \in Seq(Values) /\ Len(claimed) = enqueue_pos_
      /\ enqueue_pos_ \in Nat /\ dequeue_pos_ \in Nat /\ dequeue_pos_ <= enqueue_pos_
  BY DEF MPMCInv, TypeOK
<1> QED BY <1>1, SubSeqProperties DEF Contents

\* The claim of a push appends the item, and there is room for it.
LEMMA ClaimPushes ==
  ASSUME MPMCInv, MPMCInv', NEW t \in Producers, PushClaim(t)
  PROVE  Queue!Push(item[t]) /\ item[t] \in Values
<1> DEFINE n == enqueue_pos_ - dequeue_pos_
<1>1. /\ enqueue_pos_' = enqueue_pos_ + 1 /\ dequeue_pos_' = dequeue_pos_ /\ item[t] \in Values
      /\ claimed' = Append(claimed, item[t]) /\ claimed \in Seq(Values) /\ Len(claimed) = enqueue_pos_
      /\ enqueue_pos_ \in Nat /\ dequeue_pos_ \in Nat /\ dequeue_pos_ <= enqueue_pos_
      /\ Capacity \in Nat
  BY MPMCAssumption DEF PushClaim, MPMCInv, TypeOK, ProducerOK
<1>2. n < Capacity
  <2>1. Inside(t)' /\ pos'[t] = enqueue_pos_ /\ t \in Threads
    BY DEF PushClaim, Goto, Inside, MPMCInv, TypeOK, Threads
  <2>2. enqueue_pos_ < dequeue_pos_ + Capacity
    <3>1. sequence[Cell(enqueue_pos_)] = enqueue_pos_
      BY PushReady DEF PushClaim, MPMCInv, ProducerOK
    <3>2. Cell(enqueue_pos_) \in Cells /\ CellOK(Cell(enqueue_pos_))
      BY <1>1, CellLap DEF MPMCInv
    <3>3. ASSUME enqueue_pos_ > 0 PROVE Cell(enqueue_pos_ - 1) # Cell(enqueue_pos_)
      <4>1. enqueue_pos_ - 1 \in Nat /\ (enqueue_pos_ - 1) + 1 = enqueue_pos_ BY <1>1, <3>3
      <4> QED BY <4>1, CellLap
    <3> QED BY <3>1, <3>2, <3>3, <1>1 DEF CellOK
  <2> QED BY <2>2, <1>1
<1>3. /\ Contents \in Seq(Values) /\ Len(Contents) = n
      /\ \A k \in 1 .. n : Contents[k] = claimed[dequeue_pos_ + k]
  BY ContentsSeq
<1>4. /\ Contents' \in Seq(Values) /\ Len(Contents') = n + 1
      /\ \A k \in 1 .. n + 1 : Contents'[k] = claimed'[dequeue_pos_ + k]
  <2>1. /\ claimed' \in Seq(Values) /\ Len(claimed') = enqueue_pos_ + 1
    BY <1>1
  <2>2. Contents' = SubSeq(claimed', dequeue_pos_ + 1, enqueue_pos_ + 1)
    BY <1>1 DEF Contents
  <2> QED BY <1>1, <2>1, <2>2, SubSeqProperties
<1>5. Contents' = Append(Contents, item[t])
  <2>1. /\ Append(Contents, item[t]) \in Seq(Values) /\ Len(Append(Contents, item[t])) = n + 1
        /\ \A k \in 1 .. n : Append(Contents, item[t])[k] = Contents[k]
        /\ Append(Contents, item[t])[n + 1] = item[t]
    BY <1>1, <1>3, AppendProperties
  <2>2. /\ \A k \in 1 .. n : claimed'[dequeue_pos_ + k] = claimed[dequeue_pos_ + k]
        /\ claimed'[dequeue_pos_ + (n + 1)] = item[t]
    BY <1>1
  <2>3. \A k \in 1 .. n + 1 : k \in 1 .. n \/ k = n + 1
    BY <1>1
  <2>4. \A k \in 1 .. n + 1 : Contents'[k] = Append(Contents, item[t])[k]
    <3> SUFFICES ASSUME NEW k \in 1 .. n + 1 PROVE Contents'[k] = Append(Contents, item[t])[k]
      OBVIOUS
    <3>1. Contents'[k] = claimed'[dequeue_pos_ + k] BY <1>4
    <3> HIDE DEF n
    <3>2. CASE k \in 1 .. n BY <3>1, <3>2, <1>3, <2>1, <2>2
    <3>3. CASE k = n + 1 BY <3>1, <3>3, <2>1, <2>2
    <3> QED BY <3>2, <3>3, <2>3
  <2> QED BY <1>4, <2>1, <2>4, SeqEqual
<1>6. LastPopped' = LastPopped
  BY <1>1 DEF LastPopped
<1> QED BY <1>1, <1>2, <1>3, <1>5, <1>6 DEF Queue!Push

\* The claim of a pop takes the oldest item.
LEMMA ClaimPops ==
  ASSUME MPMCInv, NEW t \in Consumers, PopClaim(t)
  PROVE  Queue!Pop
<1> DEFINE n == enqueue_pos_ - dequeue_pos_
<1>1. /\ dequeue_pos_ < enqueue_pos_ /\ dequeue_pos_' = dequeue_pos_ + 1
      /\ UNCHANGED <<enqueue_pos_, claimed>>
      /\ claimed \in Seq(Values) /\ Len(claimed) = enqueue_pos_
      /\ enqueue_pos_ \in Nat /\ dequeue_pos_ \in Nat
  BY PopReady DEF PopClaim, MPMCInv, TypeOK, ConsumerOK
<1>2. /\ Contents \in Seq(Values) /\ Len(Contents) = n
      /\ \A k \in 1 .. n : Contents[k] = claimed[dequeue_pos_ + k]
  BY ContentsSeq
<1>3. Contents # <<>> /\ Head(Contents) = claimed[dequeue_pos_ + 1]
  BY <1>1, <1>2
<1>4. LastPopped' = claimed[dequeue_pos_ + 1]
  BY <1>1 DEF LastPopped
<1>5. Contents' = Tail(Contents)
  <2>1. Contents' = SubSeq(claimed, dequeue_pos_ + 2, enqueue_pos_)
    BY <1>1 DEF Contents
  <2>2. /\ Contents' \in Seq(Values) /\ Len(Contents') = n - 1
        /\ \A k \in 1 .. n - 1 : Contents'[k] = claimed[dequeue_pos_ + 1 + k]
    <3> DEFINE m == dequeue_pos_ + 2
               e == enqueue_pos_
    <3>1. m \in Int /\ e \in Int /\ m <= e + 1 /\ \A k \in m .. e : claimed[k] \in Values
      BY <1>1
    <3>2. /\ SubSeq(claimed, m, e) \in Seq(Values)
          /\ Len(SubSeq(claimed, m, e)) = IF m <= e THEN e - m + 1 ELSE 0
          /\ \A k \in 1 .. e - m + 1 : SubSeq(claimed, m, e)[k] = claimed[m + k - 1]
      <4> HIDE DEF m, e
      <4> QED BY <3>1, SubSeqProperties
    <3>3. e - m + 1 = n - 1 /\ \A k \in Int : m + k - 1 = dequeue_pos_ + 1 + k
      BY <1>1
    <3>4. Contents' = SubSeq(claimed, m, e)
      BY <2>1
    <3>5. Len(SubSeq(claimed, m, e)) = n - 1
      <4> HIDE DEF m, e
      <4> QED BY <3>1, <3>2, <3>3
    <3>6. ASSUME NEW k \in 1 .. n - 1 PROVE SubSeq(claimed, m, e)[k] = claimed[dequeue_pos_ + 1 + k]
      <4>1. k \in 1 .. e - m + 1 /\ m + k - 1 = dequeue_pos_ + 1 + k BY <1>1
      <4> HIDE DEF m, e, n
      <4> QED BY <4>1, <3>2
    <3> HIDE DEF m, e, n
    <3> QED BY <3>2, <3>4, <3>5, <3>6
  <2>3. /\ Tail(Contents) \in Seq(Values) /\ Len(Tail(Contents)) = n - 1
        /\ \A k \in 1 .. n - 1 : Tail(Contents)[k] = Contents[k + 1]
    BY <1>2, <1>3, HeadTailProperties
  <2>4. \A k \in 1 .. n - 1 : Contents[k + 1] = claimed[dequeue_pos_ + 1 + k]
    BY <1>1, <1>2
  <2>5. \A k \in 1 .. n - 1 : Contents'[k] = Tail(Contents)[k]
    BY <2>2, <2>3, <2>4
  <2> QED BY <2>2, <2>3, <2>5, SeqEqual
<1> QED BY <1>3, <1>4, <1>5 DEF Queue!Pop

\* try_push and try_pop implement the push and pop of a FIFO queue with
\* Capacity places, each at its successful compare-and-swap.
THEOREM Refinement == Spec => ImplementsQueue
<1>1. Init => Queue!Init
  BY DEF Init, Queue!Init, Contents, LastPopped
<1>2. MPMCInv /\ MPMCInv' /\ [Next]_vars => [Queue!Next]_<<Contents, LastPopped>>
  <2> SUFFICES ASSUME MPMCInv, MPMCInv', [Next]_vars PROVE [Queue!Next]_<<Contents, LastPopped>>
    OBVIOUS
  <2>1. ASSUME UNCHANGED <<enqueue_pos_, dequeue_pos_, claimed>>
        PROVE  UNCHANGED <<Contents, LastPopped>>
    BY <2>1 DEF Contents, LastPopped
  <2>2. ASSUME NEW t \in Producers, PushClaim(t) PROVE Queue!Next
    BY <2>2, ClaimPushes DEF Queue!Next
  <2>3. ASSUME NEW t \in Consumers, PopClaim(t) PROVE Queue!Next
    BY <2>3, ClaimPops DEF Queue!Next
  <2> QED
    BY <2>1, <2>2, <2>3
    DEF Next, PushCall, PushStep, PopStep, PopCall, LoadPos, LoadSequence, ClaimFails, PushWrite,
        PopRead, PushPublish, PopPublish, Release, shared, vars
<1> QED
  BY InitInv, NextInv, <1>1, <1>2, PTL DEF Spec, ImplementsQueue, Queue!Spec
=============================================================================
