----------------------------- MODULE LevelLemmas -----------------------------
(***************************************************************************)
(* The intrusive lists of the order book: when links and queues agree, and *)
(* that unlinking a slot and linking one at the tail keep them so.  The    *)
(* queues are a function ff from sides and prices to sequences of slots,   *)
(* the links are the fields next and prev of the slots sl.                 *)
(*                                                                         *)
(* Then the arrays of price levels: find_level, insert_level and           *)
(* remove_level keep them sorted, and changing, dropping or creating a     *)
(* level together with its queue keeps the arrays in agreement with ff.    *)
(***************************************************************************)
EXTENDS Levels, Lists, SequenceTheorems, WellFoundedInduction, TLAPS

QueuesType(ff) == ff \in [Sides -> [Prices -> Seq(Slots)]]

\* The links of every queued slot are those of its neighbours in the queue.
QueueLinked(sl, q, p) ==
    \A k \in 1 .. Len(q) :
        /\ sl[q[k]] \in Slot
        /\ sl[q[k]].price = p
        /\ sl[q[k]].prev = IF k = 1 THEN NULL_IDX ELSE q[k - 1]
        /\ sl[q[k]].next = IF k = Len(q) THEN NULL_IDX ELSE q[k + 1]

Linked(sl, ff) == \A sd \in Sides, p \in Prices : QueueLinked(sl, ff[sd][p], p)

\* A slot is in one place.
Separate(ff) ==
    \A sd1, sd2 \in Sides, p1, p2 \in Prices :
        \A k1 \in 1 .. Len(ff[sd1][p1]), k2 \in 1 .. Len(ff[sd2][p2]) :
            ff[sd1][p1][k1] = ff[sd2][p2][k2] => sd1 = sd2 /\ p1 = p2 /\ k1 = k2

\* ff2 is ff without place k of one queue.
RemovedAt(ff, ff2, sd, p, k) ==
    /\ QueuesType(ff2)
    /\ \A sd1 \in Sides, p1 \in Prices : (sd1 # sd \/ p1 # p) => ff2[sd1][p1] = ff[sd1][p1]
    /\ Len(ff2[sd][p]) = Len(ff[sd][p]) - 1
    /\ \A j \in 1 .. Len(ff[sd][p]) - 1 :
          ff2[sd][p][j] = IF j < k THEN ff[sd][p][j] ELSE ff[sd][p][j + 1]

\* ff2 is ff with s at the end of one queue.
AppendedTo(ff, ff2, sd, p, s) ==
    /\ QueuesType(ff2)
    /\ \A sd1 \in Sides, p1 \in Prices : (sd1 # sd \/ p1 # p) => ff2[sd1][p1] = ff[sd1][p1]
    /\ Len(ff2[sd][p]) = Len(ff[sd][p]) + 1
    /\ \A j \in 1 .. Len(ff[sd][p]) : ff2[sd][p][j] = ff[sd][p][j]
    /\ ff2[sd][p][Len(ff[sd][p]) + 1] = s

\* Slots r and r1 hold the same order.
SameOrder(r, r1) == r1 \in Slot /\ r1.id = r.id /\ r1.account = r.account /\ r1.price = r.price

\* sl2 is sl with s taken out of its list.
UnlinkedFrom(sl, sl2, s) ==
    \A t \in Slots \ {s} : sl[t] \in Slot =>
        /\ SameOrder(sl[t], sl2[t])
        /\ sl2[t].next = IF t = sl[s].prev THEN sl[s].next ELSE sl[t].next
        /\ sl2[t].prev = IF t = sl[s].next THEN sl[s].prev ELSE sl[t].prev

\* sl2 is sl with s linked behind the tail t0.
LinkedBehind(sl, sl2, s, t0) ==
    /\ sl2[s] \in Slot /\ sl2[s].next = NULL_IDX /\ sl2[s].prev = t0
    /\ \A t \in Slots \ {s} : sl[t] \in Slot =>
        /\ SameOrder(sl[t], sl2[t])
        /\ sl2[t].next = IF t = t0 THEN s ELSE sl[t].next
        /\ sl2[t].prev = sl[t].prev

\* Queued slots are slots.
LEMMA QueuedSlot ==
  ASSUME NEW ff, QueuesType(ff), NEW sd \in Sides, NEW p \in Prices
  PROVE  /\ ff[sd][p] \in Seq(Slots)
         /\ Len(ff[sd][p]) \in Nat
         /\ \A k \in 1 .. Len(ff[sd][p]) : ff[sd][p][k] \in Slots
<1>1. ff[sd][p] \in Seq(Slots)
  BY DEF QueuesType
<1> QED BY <1>1, ElementOfSeq

\* The places left after a removal: each is an old place, and not the one
\* removed.
LEMMA RemovedPlaces ==
  ASSUME NEW ff, QueuesType(ff), Separate(ff),
         NEW sd \in Sides, NEW p \in Prices, NEW k \in 1 .. Len(ff[sd][p]),
         NEW ff2, RemovedAt(ff, ff2, sd, p, k)
  PROVE  /\ Separate(ff2)
         /\ \A sd1 \in Sides, p1 \in Prices : \A j \in 1 .. Len(ff2[sd1][p1]) :
               ff2[sd1][p1][j] # ff[sd][p][k]
         /\ \A sd1 \in Sides, p1 \in Prices : \A j \in 1 .. Len(ff[sd1][p1]) :
               ff[sd1][p1][j] # ff[sd][p][k] =>
                   \E m \in 1 .. Len(ff2[sd1][p1]) : ff2[sd1][p1][m] = ff[sd1][p1][j]
<1> DEFINE old(sd1, p1, j) == IF sd1 = sd /\ p1 = p /\ j >= k THEN j + 1 ELSE j
<1>0. Len(ff[sd][p]) \in Nat /\ Len(ff2[sd][p]) = Len(ff[sd][p]) - 1
  BY QueuedSlot DEF RemovedAt
<1>1. ASSUME NEW sd1 \in Sides, NEW p1 \in Prices, NEW j \in 1 .. Len(ff2[sd1][p1])
      PROVE  /\ old(sd1, p1, j) \in 1 .. Len(ff[sd1][p1])
             /\ ff2[sd1][p1][j] = ff[sd1][p1][old(sd1, p1, j)]
             /\ sd1 = sd /\ p1 = p => old(sd1, p1, j) # k
  <2>1. CASE sd1 = sd /\ p1 = p
    BY <1>0, <2>1, SMTT(30) DEF RemovedAt
  <2>2. CASE sd1 # sd \/ p1 # p
    BY <2>2 DEF RemovedAt
  <2> QED BY <2>1, <2>2
<1>2. ASSUME NEW sd1 \in Sides, NEW p1 \in Prices,
             NEW i \in Int, NEW j \in Int, old(sd1, p1, i) = old(sd1, p1, j)
      PROVE  i = j
  BY <1>2
<1> HIDE DEF old
<1>3. Separate(ff2)
  <2> SUFFICES ASSUME NEW sd1 \in Sides, NEW sd2 \in Sides, NEW p1 \in Prices, NEW p2 \in Prices,
                      NEW k1 \in 1 .. Len(ff2[sd1][p1]), NEW k2 \in 1 .. Len(ff2[sd2][p2]),
                      ff2[sd1][p1][k1] = ff2[sd2][p2][k2]
               PROVE  sd1 = sd2 /\ p1 = p2 /\ k1 = k2
    BY DEF Separate
  <2>1. ff[sd1][p1][old(sd1, p1, k1)] = ff[sd2][p2][old(sd2, p2, k2)]
    BY <1>1
  <2>2. sd1 = sd2 /\ p1 = p2 /\ old(sd1, p1, k1) = old(sd2, p2, k2)
    BY <1>1, <2>1, SMTT(30) DEF Separate
  <2> QED BY <1>2, <2>2
<1>4. ASSUME NEW sd1 \in Sides, NEW p1 \in Prices, NEW j \in 1 .. Len(ff2[sd1][p1])
      PROVE  ff2[sd1][p1][j] # ff[sd][p][k]
  <2>1. /\ old(sd1, p1, j) \in 1 .. Len(ff[sd1][p1])
        /\ ff2[sd1][p1][j] = ff[sd1][p1][old(sd1, p1, j)]
        /\ sd1 = sd /\ p1 = p => old(sd1, p1, j) # k
    BY <1>1
  <2>2. ff[sd1][p1][old(sd1, p1, j)] = ff[sd][p][k]
           => sd1 = sd /\ p1 = p /\ old(sd1, p1, j) = k
    BY <2>1 DEF Separate
  <2> QED BY <2>1, <2>2
<1>5. ASSUME NEW sd1 \in Sides, NEW p1 \in Prices, NEW j \in 1 .. Len(ff[sd1][p1]),
             ff[sd1][p1][j] # ff[sd][p][k]
      PROVE  \E m \in 1 .. Len(ff2[sd1][p1]) : ff2[sd1][p1][m] = ff[sd1][p1][j]
  <2>1. CASE sd1 # sd \/ p1 # p
    BY <2>1 DEF RemovedAt
  <2>2. CASE sd1 = sd /\ p1 = p /\ j < k
    <3>1. j \in 1 .. Len(ff[sd][p]) - 1
      BY <1>0, <2>2
    <3> QED BY <1>0, <2>2, <3>1 DEF RemovedAt
  <2>3. CASE sd1 = sd /\ p1 = p /\ j > k
    <3>1. j - 1 \in 1 .. Len(ff[sd][p]) - 1 /\ ~(j - 1 < k) /\ (j - 1) + 1 = j
      BY <1>0, <2>3
    <3>2. ff2[sd][p][j - 1] = ff[sd][p][j]
      BY <3>1 DEF RemovedAt
    <3> QED BY <1>0, <2>3, <3>1, <3>2
  <2>4. CASE sd1 = sd /\ p1 = p /\ j = k
    BY <1>5, <2>4
  <2> QED BY <1>0, <2>1, <2>2, <2>3, <2>4
<1> QED BY <1>3, <1>4, <1>5

\* Taking a slot out of the list keeps the links right for all the others.
LEMMA RemoveLinked ==
  ASSUME NEW sl, NEW ff, QueuesType(ff), Separate(ff), Linked(sl, ff),
         NEW sd \in Sides, NEW p \in Prices, NEW k \in 1 .. Len(ff[sd][p]),
         NEW ff2, RemovedAt(ff, ff2, sd, p, k),
         NEW sl2, UnlinkedFrom(sl, sl2, ff[sd][p][k])
  PROVE  Linked(sl2, ff2)
<1> DEFINE q == ff[sd][p]
           s == q[k]
<1>0. Len(q) \in Nat /\ QueuesType(ff2) /\ s \in Slots
  BY QueuedSlot DEF RemovedAt
<1>1. /\ sl[s] \in Slot
      /\ sl[s].prev = IF k = 1 THEN NULL_IDX ELSE q[k - 1]
      /\ sl[s].next = IF k = Len(q) THEN NULL_IDX ELSE q[k + 1]
  BY DEF Linked, QueueLinked
<1>2. NULL_IDX \notin Slots
  BY RecordsAssumption
<1> SUFFICES ASSUME NEW sd1 \in Sides, NEW p1 \in Prices, NEW j \in 1 .. Len(ff2[sd1][p1])
             PROVE  LET q2 == ff2[sd1][p1]
                        r == sl2[q2[j]]
                    IN  /\ r \in Slot
                        /\ r.price = p1
                        /\ r.prev = IF j = 1 THEN NULL_IDX ELSE q2[j - 1]
                        /\ r.next = IF j = Len(q2) THEN NULL_IDX ELSE q2[j + 1]
  BY DEF Linked, QueueLinked
<1> DEFINE q2 == ff2[sd1][p1]
           t == q2[j]
<1>3. t \in Slots \ {s} /\ Len(q2) \in Nat
  BY <1>0, QueuedSlot, RemovedPlaces
<1>4. CASE sd1 # sd \/ p1 # p
  <2>1. q2 = ff[sd1][p1] /\ j \in 1 .. Len(ff[sd1][p1])
    BY <1>4 DEF RemovedAt
  <2>2. /\ sl[t] \in Slot
        /\ sl[t].price = p1
        /\ sl[t].prev = IF j = 1 THEN NULL_IDX ELSE q2[j - 1]
        /\ sl[t].next = IF j = Len(q2) THEN NULL_IDX ELSE q2[j + 1]
    BY <2>1, SMTT(30) DEF Linked, QueueLinked
  <2>3. \A m \in 1 .. Len(q) : t # q[m]
    BY <2>1, <1>4 DEF Separate
  <2>4. t # sl[s].prev
    BY <1>0, <1>1, <1>2, <1>3, <2>3
  <2>5. t # sl[s].next
    BY <1>0, <1>1, <1>2, <1>3, <2>3
  <2> HIDE DEF t, s
  <2>6. sl2[t] \in Slot /\ sl2[t].price = sl[t].price /\ sl2[t].next = sl[t].next /\ sl2[t].prev = sl[t].prev
    BY <1>3, <2>2, <2>4, <2>5 DEF UnlinkedFrom, SameOrder, s
  <2> QED BY <2>2, <2>6 DEF t
<1>5. CASE sd1 = sd /\ p1 = p
  <2>0. /\ Len(q2) = Len(q) - 1
        /\ \A m \in 1 .. Len(q) - 1 : q2[m] = IF m < k THEN q[m] ELSE q[m + 1]
    BY <1>5 DEF RemovedAt
  <2> DEFINE o == IF j < k THEN j ELSE j + 1
  <2>1. /\ o \in 1 .. Len(q) /\ t = q[o] /\ o # k
        /\ j < k => o = j
        /\ j >= k => o = j + 1
        /\ j \in 1 .. Len(q2) /\ k \in 1 .. Len(q)
    BY <2>0, <1>0
  <2> HIDE DEF o
  <2>2. /\ sl[t] \in Slot
        /\ sl[t].price = p
        /\ sl[t].prev = IF o = 1 THEN NULL_IDX ELSE q[o - 1]
        /\ sl[t].next = IF o = Len(q) THEN NULL_IDX ELSE q[o + 1]
    BY <2>1 DEF Linked, QueueLinked
  <2>3. \A m \in 1 .. Len(q) : t = q[m] => m = o
    <3>1. \A m \in 1 .. Len(q) : q[m] = q[o] => m = o
      BY <2>1 DEF Separate
    <3> QED BY <3>1, <2>1
  <2>4. t = sl[s].prev <=> o = k - 1
    BY <1>0, <1>1, <1>2, <1>3, <2>1, <2>3
  <2>5. t = sl[s].next <=> o = k + 1
    BY <1>0, <1>1, <1>2, <1>3, <2>1, <2>3
  <2> HIDE DEF t, s, q, q2
  <2>6. /\ sl2[t] \in Slot /\ sl2[t].price = sl[t].price
        /\ sl2[t].next = IF o = k - 1 THEN sl[s].next ELSE sl[t].next
        /\ sl2[t].prev = IF o = k + 1 THEN sl[s].prev ELSE sl[t].prev
    BY <1>3, <2>2, <2>4, <2>5 DEF UnlinkedFrom, SameOrder, s, q
  <2>7. sl2[t].prev = IF j = 1 THEN NULL_IDX ELSE q2[j - 1]
    <3>1. CASE j < k
      BY <3>1, <1>0, <1>3, <2>0, <2>1, <2>2, <2>6
    <3>2. CASE j = k
      BY <3>2, <1>0, <1>1, <1>3, <2>0, <2>1, <2>2, <2>6
    <3>3. CASE j > k
      BY SMTT(30), <3>3, <1>0, <1>3, <2>0, <2>1, <2>2, <2>6
    <3> QED BY <3>1, <3>2, <3>3
  <2>8. sl2[t].next = IF j = Len(q2) THEN NULL_IDX ELSE q2[j + 1]
    <3>1. CASE j < k - 1
      BY SMTT(30), <3>1, <1>0, <1>3, <2>0, <2>1, <2>2, <2>6
    <3>2. CASE j = k - 1
      BY <3>2, <1>0, <1>1, <1>3, <2>0, <2>1, <2>2, <2>6
    <3>3. CASE j >= k
      <4>1. sl2[t].next = IF j + 1 = Len(q) THEN NULL_IDX ELSE q[j + 2]
        BY <3>3, <1>0, <2>1, <2>2, <2>6
      <4>2. j # Len(q2) => j + 1 \in 1 .. Len(q) - 1 /\ ~(j + 1 < k) /\ (j + 1) + 1 = j + 2
        BY <3>3, <1>0, <2>0, <2>1
      <4>3. j # Len(q2) => q2[j + 1] = q[j + 2]
        BY <4>2, <2>0
      <4> QED BY <4>1, <4>3, <1>0, <2>0, <2>1
    <3> QED BY <3>1, <3>2, <3>3, <2>1
  <2> QED BY <1>5, <2>2, <2>6, <2>7, <2>8 DEF t, q2
<1> QED BY <1>4, <1>5

\* Linking a slot that is in no list behind the tail of one keeps the links
\* right for all.
LEMMA AppendLinked ==
  ASSUME NEW sl, NEW ff, QueuesType(ff), Separate(ff), Linked(sl, ff),
         NEW sd \in Sides, NEW p \in Prices, NEW s \in Slots,
         \A sd1 \in Sides, p1 \in Prices : \A j \in 1 .. Len(ff[sd1][p1]) : ff[sd1][p1][j] # s,
         NEW ff2, AppendedTo(ff, ff2, sd, p, s),
         NEW sl2, NEW t0,
         t0 = IF ff[sd][p] = <<>> THEN NULL_IDX ELSE ff[sd][p][Len(ff[sd][p])],
         LinkedBehind(sl, sl2, s, t0), sl2[s].price = p
  PROVE  Linked(sl2, ff2) /\ Separate(ff2)
<1> DEFINE q == ff[sd][p]
<1>0. Len(q) \in Nat /\ q \in Seq(Slots) /\ (q = <<>> <=> Len(q) = 0)
  BY QueuedSlot, EmptySeq
<1>1. ASSUME NEW sd1 \in Sides, NEW p1 \in Prices, NEW j \in 1 .. Len(ff2[sd1][p1])
      PROVE  \/ sd1 = sd /\ p1 = p /\ j = Len(q) + 1 /\ ff2[sd1][p1][j] = s
             \/ /\ j \in 1 .. Len(ff[sd1][p1])
                /\ ff2[sd1][p1][j] = ff[sd1][p1][j]
                /\ ff2[sd1][p1][j] \in Slots \ {s}
  <2>1. CASE sd1 = sd /\ p1 = p
    <3>1. j \in 1 .. Len(q) \/ j = Len(q) + 1
      BY <2>1, <1>0 DEF AppendedTo
    <3>2. CASE j = Len(q) + 1
      BY <2>1, <3>2 DEF AppendedTo
    <3>3. CASE j \in 1 .. Len(q)
      BY <2>1, <3>3, QueuedSlot DEF AppendedTo
    <3> QED BY <3>1, <3>2, <3>3
  <2>2. CASE sd1 # sd \/ p1 # p
    <3>1. ff2[sd1][p1] = ff[sd1][p1]
      BY <2>2 DEF AppendedTo
    <3> QED BY <3>1, QueuedSlot
  <2> QED BY <2>1, <2>2
<1>2. Separate(ff2)
  <2> SUFFICES ASSUME NEW sd1 \in Sides, NEW sd2 \in Sides, NEW p1 \in Prices, NEW p2 \in Prices,
                      NEW k1 \in 1 .. Len(ff2[sd1][p1]), NEW k2 \in 1 .. Len(ff2[sd2][p2]),
                      ff2[sd1][p1][k1] = ff2[sd2][p2][k2]
               PROVE  sd1 = sd2 /\ p1 = p2 /\ k1 = k2
    BY DEF Separate
  <2>1. CASE ff2[sd1][p1][k1] = s
    <3>1. sd1 = sd /\ p1 = p /\ k1 = Len(q) + 1
      BY <2>1, <1>1
    <3>2. sd2 = sd /\ p2 = p /\ k2 = Len(q) + 1
      <4>1. ff2[sd2][p2][k2] = s
        BY <2>1
      <4> QED BY <4>1, <1>1
    <3> QED BY <3>1, <3>2
  <2>2. CASE ff2[sd1][p1][k1] # s
    <3>1. /\ k1 \in 1 .. Len(ff[sd1][p1]) /\ k2 \in 1 .. Len(ff[sd2][p2])
          /\ ff[sd1][p1][k1] = ff[sd2][p2][k2]
      BY <2>2, <1>1
    <3> QED BY <3>1 DEF Separate
  <2> QED BY <2>1, <2>2
<1>3. Linked(sl2, ff2)
  <2> SUFFICES ASSUME NEW sd1 \in Sides, NEW p1 \in Prices, NEW j \in 1 .. Len(ff2[sd1][p1])
               PROVE  LET q2 == ff2[sd1][p1]
                          r == sl2[q2[j]]
                      IN  /\ r \in Slot
                          /\ r.price = p1
                          /\ r.prev = IF j = 1 THEN NULL_IDX ELSE q2[j - 1]
                          /\ r.next = IF j = Len(q2) THEN NULL_IDX ELSE q2[j + 1]
    BY DEF Linked, QueueLinked
  <2> DEFINE q2 == ff2[sd1][p1]
             t == q2[j]
  <2>1. CASE sd1 = sd /\ p1 = p /\ j = Len(q) + 1
    <3>1. t = s /\ Len(q2) = Len(q) + 1 /\ \A m \in 1 .. Len(q) : q2[m] = q[m]
      BY <2>1 DEF AppendedTo
    <3>2. sl2[s] \in Slot /\ sl2[s].next = NULL_IDX /\ sl2[s].prev = t0
      BY DEF LinkedBehind
    <3>3. t0 = IF j = 1 THEN NULL_IDX ELSE q2[j - 1]
      <4>1. t0 = IF q = <<>> THEN NULL_IDX ELSE q[Len(q)]
        OBVIOUS
      <4> HIDE DEF q, q2
      <4>2. CASE q = <<>>
        BY ONLY <2>1, <1>0, <4>1, <4>2
      <4>3. CASE q # <<>>
        <5>1. Len(q) \in 1 .. Len(q) /\ j # 1 /\ j - 1 = Len(q)
          BY ONLY <2>1, <1>0, <4>3
        <5> QED BY ONLY <3>1, <4>1, <4>3, <5>1
      <4> QED BY ONLY <4>2, <4>3
    <3>4. j = Len(q2) /\ p1 = p
      BY ONLY <2>1, <3>1
    <3> QED BY ONLY <3>1, <3>2, <3>3, <3>4, sl2[s].price = p
  <2>2. CASE ~(sd1 = sd /\ p1 = p /\ j = Len(q) + 1)
    <3>1. j \in 1 .. Len(ff[sd1][p1]) /\ t = ff[sd1][p1][j] /\ t \in Slots \ {s}
      BY <2>2, <1>1
    <3> DEFINE q1 == ff[sd1][p1]
    <3>2. /\ sl[t] \in Slot
          /\ sl[t].price = p1
          /\ sl[t].prev = IF j = 1 THEN NULL_IDX ELSE q1[j - 1]
          /\ sl[t].next = IF j = Len(q1) THEN NULL_IDX ELSE q1[j + 1]
      BY <3>1 DEF Linked, QueueLinked
    <3>3. /\ sl2[t] \in Slot /\ sl2[t].price = sl[t].price
          /\ sl2[t].next = IF t = t0 THEN s ELSE sl[t].next
          /\ sl2[t].prev = sl[t].prev
      BY <3>1, <3>2 DEF LinkedBehind, SameOrder
    <3>4. t = t0 <=> sd1 = sd /\ p1 = p /\ j = Len(q)
      <4>1. q # <<>> => Len(q) \in 1 .. Len(q)
        BY <1>0
      <4>2. q = <<>> => t # t0
        BY <3>1, RecordsAssumption
      <4> QED BY <4>1, <4>2, <3>1, <1>0 DEF Separate
    <3>5. CASE sd1 = sd /\ p1 = p
      <4>1. /\ Len(q2) = Len(q) + 1 /\ q1 = q
            /\ \A m \in 1 .. Len(q) : q2[m] = q[m]
            /\ q2[Len(q) + 1] = s
            /\ j \in 1 .. Len(q)
        BY <3>1, <3>5 DEF AppendedTo
      <4> HIDE DEF t, q, q1, q2
      <4>2. sl2[t].next = IF j = Len(q2) THEN NULL_IDX ELSE q2[j + 1]
        BY <1>0, <3>1, <3>2, <3>3, <3>4, <3>5, <4>1
      <4>3. sl2[t].prev = IF j = 1 THEN NULL_IDX ELSE q2[j - 1]
        BY <1>0, <3>1, <3>2, <3>3, <3>5, <4>1
      <4> QED BY <3>2, <3>3, <4>2, <4>3 DEF t, q2
    <3>6. CASE sd1 # sd \/ p1 # p
      <4>1. q2 = q1
        BY <3>6 DEF AppendedTo
      <4> QED BY <3>2, <3>3, <3>4, <3>6, <4>1
    <3> QED BY <3>5, <3>6
  <2> QED BY <2>1, <2>2
<1> QED BY <1>2, <1>3

-----------------------------------------------------------------------------
(* The index.                                                              *)

\* Entry e of order id leads to a queued slot that holds this order.
Leads(e, id, sl, ff) ==
    /\ e \in Entry
    /\ sl[e.slot] \in Slot
    /\ sl[e.slot].id = id
    /\ \E k \in 1 .. Len(ff[e.side][sl[e.slot].price]) : ff[e.side][sl[e.slot].price][k] = e.slot

\* The fields of an index entry have their types.
LEMMA EntryType == \A e \in Entry : e.slot \in Slots /\ e.side \in Sides
BY DEF Entry

\* The fields of an occupied slot have their types.
LEMMA SlotType == \A r \in Slot : r.price \in Prices /\ r.id \in OrderIds /\ r.qty \in Qty
                                 /\ r.account \in Nat /\ r # NULL_IDX
                                 /\ r.next \in Slots \cup {NULL_IDX} /\ r.prev \in Slots \cup {NULL_IDX}
<1>1. \A r \in Slot : r # NULL_IDX
  BY RecordsAssumption
<1>2. \A r \in Slot : r.price \in Prices /\ r.id \in OrderIds /\ r.qty \in Qty /\ r.account \in Nat
                      /\ r.next \in Slots \cup {NULL_IDX} /\ r.prev \in Slots \cup {NULL_IDX}
  BY DEF Slot
<1> QED BY <1>1, <1>2

\* Entries of other slots survive when one leaves its list.
LEMMA RemoveLeads ==
  ASSUME NEW sl, NEW ff, QueuesType(ff), Separate(ff),
         NEW sd \in Sides, NEW p \in Prices, NEW k \in 1 .. Len(ff[sd][p]),
         NEW ff2, RemovedAt(ff, ff2, sd, p, k),
         NEW sl2, UnlinkedFrom(sl, sl2, ff[sd][p][k]),
         NEW e, NEW id, Leads(e, id, sl, ff), e.slot # ff[sd][p][k]
  PROVE  Leads(e, id, sl2, ff2)
<1>1. /\ e \in Entry /\ e.slot \in Slots /\ e.side \in Sides /\ sl[e.slot] \in Slot
      /\ sl[e.slot].price \in Prices
  BY EntryType, SlotType DEF Leads
<1>2. SameOrder(sl[e.slot], sl2[e.slot])
  BY <1>1 DEF UnlinkedFrom
<1>3. PICK j \in 1 .. Len(ff[e.side][sl[e.slot].price]) : ff[e.side][sl[e.slot].price][j] = e.slot
  BY DEF Leads
<1>4. \E m \in 1 .. Len(ff2[e.side][sl[e.slot].price]) : ff2[e.side][sl[e.slot].price][m] = e.slot
  <2>1. \A sd1 \in Sides, p1 \in Prices : \A i \in 1 .. Len(ff[sd1][p1]) :
           ff[sd1][p1][i] # ff[sd][p][k] =>
               \E m \in 1 .. Len(ff2[sd1][p1]) : ff2[sd1][p1][m] = ff[sd1][p1][i]
    BY RemovedPlaces
  <2> QED BY <1>1, <1>3, <2>1
<1> QED BY <1>1, <1>2, <1>4 DEF Leads, SameOrder

\* All entries survive when a slot is linked.
LEMMA AppendLeads ==
  ASSUME NEW sl, NEW ff, QueuesType(ff),
         NEW sd \in Sides, NEW p \in Prices, NEW s \in Slots,
         \A sd1 \in Sides, p1 \in Prices : \A j \in 1 .. Len(ff[sd1][p1]) : ff[sd1][p1][j] # s,
         NEW ff2, AppendedTo(ff, ff2, sd, p, s),
         NEW sl2, NEW t0, LinkedBehind(sl, sl2, s, t0),
         NEW e, NEW id, Leads(e, id, sl, ff)
  PROVE  Leads(e, id, sl2, ff2) /\ e.slot # s
<1>1. /\ e \in Entry /\ e.slot \in Slots /\ e.side \in Sides /\ sl[e.slot] \in Slot
      /\ sl[e.slot].price \in Prices
  BY EntryType, SlotType DEF Leads
<1>2. PICK j \in 1 .. Len(ff[e.side][sl[e.slot].price]) : ff[e.side][sl[e.slot].price][j] = e.slot
  BY DEF Leads
<1>3. e.slot # s
  BY <1>1, <1>2
<1>4. SameOrder(sl[e.slot], sl2[e.slot])
  BY <1>1, <1>3 DEF LinkedBehind
<1> DEFINE q == ff[e.side][sl[e.slot].price]
           q2 == ff2[e.side][sl[e.slot].price]
<1>5. j \in 1 .. Len(q2) /\ q2[j] = e.slot
  <2>1. CASE e.side = sd /\ sl[e.slot].price = p
    BY <1>1, <1>2, <2>1, QueuedSlot DEF AppendedTo
  <2>2. CASE e.side # sd \/ sl[e.slot].price # p
    BY <1>1, <1>2, <2>2 DEF AppendedTo
  <2> QED BY <2>1, <2>2
<1> QED BY <1>1, <1>3, <1>4, <1>5 DEF Leads, SameOrder

\* The new entry leads to the slot just linked.
LEMMA NewLeads ==
  ASSUME NEW sl2, NEW ff, QueuesType(ff), NEW sd \in Sides, NEW p \in Prices, NEW s \in Slots,
         NEW ff2, AppendedTo(ff, ff2, sd, p, s),
         sl2[s] \in Slot, sl2[s].price = p
  PROVE  Leads([slot |-> s, side |-> sd], sl2[s].id, sl2, ff2)
<1>1. Len(ff[sd][p]) + 1 \in 1 .. Len(ff2[sd][p]) /\ ff2[sd][p][Len(ff[sd][p]) + 1] = s
  BY QueuedSlot DEF AppendedTo
<1> QED BY <1>1 DEF Leads, Entry

-----------------------------------------------------------------------------
(* What the operations do to slots and levels.                             *)

\* A level describes its queue.
Describes(l, q) == q # <<>> /\ l.head = q[1] /\ l.tail = q[Len(q)] /\ l.count = Len(q)

\* Quantities wrap to uint32_t.
LEMMA ModType ==
  ASSUME NEW x \in Int
  PROVE  x % QtyMod \in Qty
BY TypesAssumption DEF Qty

\* UnlinkSlots and DequeuedSlots take a queued slot out of its list.
LEMMA UnlinkSlotsRemoves ==
  ASSUME NEW sl \in [Slots -> Slot \cup {NULL_IDX}],
         NEW q \in Seq(Slots), NEW p, QueueLinked(sl, q, p),
         NEW k \in 1 .. Len(q), NEW s, s = q[k]
  PROVE  /\ UnlinkSlots(sl, s) \in [Slots -> Slot \cup {NULL_IDX}]
         /\ UnlinkedFrom(sl, UnlinkSlots(sl, s), s)
<1>0. Len(q) \in Nat /\ s \in Slots /\ NULL_IDX \notin Slots
  BY ElementOfSeq, RecordsAssumption
<1>1. /\ sl[s] \in Slot
      /\ sl[s].prev = IF k = 1 THEN NULL_IDX ELSE q[k - 1]
      /\ sl[s].next = IF k = Len(q) THEN NULL_IDX ELSE q[k + 1]
  BY DEF QueueLinked
<1>2. \A m \in 1 .. Len(q) : sl[q[m]] \in Slot
  BY DEF QueueLinked
<1>3. \A t \in Slots : t \in {sl[s].prev, sl[s].next} => sl[t] \in Slot
  BY <1>0, <1>1, <1>2
<1>4. sl[s].prev \in Slots \cup {NULL_IDX} /\ sl[s].next \in Slots \cup {NULL_IDX}
  BY <1>1, SlotType
<1> DEFINE a == sl[s].prev
           b == sl[s].next
           upd(r, t) == [r EXCEPT !.next = IF t = a THEN b ELSE @,
                                  !.prev = IF t = b THEN a ELSE @]
<1> HIDE DEF a, b
<1>5. ASSUME NEW r \in Slot, NEW t \in Slots
      PROVE  /\ SameOrder(r, upd(r, t))
             /\ upd(r, t).next = IF t = a THEN b ELSE r.next
             /\ upd(r, t).prev = IF t = b THEN a ELSE r.prev
  BY <1>4 DEF SameOrder, Slot, a, b
<1>6. \A t \in Slots : UnlinkSlots(sl, s)[t] = IF t \in {a, b} THEN upd(sl[t], t) ELSE sl[t]
  BY DEF UnlinkSlots, a, b
<1> HIDE DEF upd
<1>7. UnlinkSlots(sl, s) \in [Slots -> Slot \cup {NULL_IDX}]
  <2>1. \A t \in Slots : UnlinkSlots(sl, s)[t] \in Slot \cup {NULL_IDX}
    BY <1>3, <1>5, <1>6 DEF SameOrder, a, b
  <2>2. UnlinkSlots(sl, s) = [t \in Slots |-> UnlinkSlots(sl, s)[t]]
    BY DEF UnlinkSlots
  <2> QED BY <2>1, <2>2
<1>8. UnlinkedFrom(sl, UnlinkSlots(sl, s), s)
  <2> SUFFICES ASSUME NEW t \in Slots \ {s}, sl[t] \in Slot
               PROVE  /\ SameOrder(sl[t], UnlinkSlots(sl, s)[t])
                      /\ UnlinkSlots(sl, s)[t].next = IF t = a THEN b ELSE sl[t].next
                      /\ UnlinkSlots(sl, s)[t].prev = IF t = b THEN a ELSE sl[t].prev
    BY DEF UnlinkedFrom, a, b
  <2>1. CASE t \in {a, b}
    BY <1>5, <1>6, <2>1
  <2>2. CASE t \notin {a, b}
    BY <1>6, <2>2 DEF SameOrder
  <2> QED BY <2>1, <2>2
<1> QED BY <1>7, <1>8

\* A non-empty interval that is not a singleton holds 2: the order behind the
\* head of a queue of more than one order exists.
LEMMA AtLeastTwo == \A n \in Nat : 1 \in 1 .. n => (n # 1 => 2 \in 1 .. n)
OBVIOUS

\* Dequeuing the head, as try_match does, frees its slot and leaves every other
\* slot's links describing the rest of the queue.
LEMMA DequeuedSlotsRemoves ==
  ASSUME NEW sl \in [Slots -> Slot \cup {NULL_IDX}],
         NEW q \in Seq(Slots), NEW p, QueueLinked(sl, q, p),
         Len(q) >= 1, NEW s, s = q[1]
  PROVE  /\ DequeuedSlots(sl, s) \in [Slots -> Slot \cup {NULL_IDX}]
         /\ UnlinkedFrom(sl, DequeuedSlots(sl, s), s)
<1>0. Len(q) \in Nat /\ 1 \in 1 .. Len(q) /\ s \in Slots /\ NULL_IDX \notin Slots
  <2>1. Len(q) \in Nat /\ 1 \in 1 .. Len(q)
    OBVIOUS
  <2> QED BY <2>1, ElementOfSeq, RecordsAssumption
<1>1. /\ sl[s] \in Slot
      /\ sl[s].prev = NULL_IDX
      /\ sl[s].next = IF Len(q) = 1 THEN NULL_IDX ELSE q[2]
  <2>1. \A m \in 1 .. Len(q) :
           /\ sl[q[m]] \in Slot
           /\ sl[q[m]].prev = IF m = 1 THEN NULL_IDX ELSE q[m - 1]
           /\ sl[q[m]].next = IF m = Len(q) THEN NULL_IDX ELSE q[m + 1]
    BY DEF QueueLinked
  <2>2. 1 \in 1 .. Len(q) /\ 1 + 1 = 2
    BY <1>0
  <2>3. sl[q[1]].next = IF 1 = Len(q) THEN NULL_IDX ELSE q[2]
    BY <2>1, <2>2
  <2> QED BY <2>1, <2>2, <2>3
<1>2. \A m \in 1 .. Len(q) : sl[q[m]] \in Slot
  BY DEF QueueLinked
<1> DEFINE b == sl[s].next
           upd(r) == [r EXCEPT !.prev = NULL_IDX]
<1> HIDE DEF b
<1>3. \A t \in Slots : t = b => sl[t] \in Slot
  <2>1. Len(q) # 1 => 2 \in 1 .. Len(q)
    BY <1>0, AtLeastTwo
  <2> QED BY <1>0, <1>1, <1>2, <2>1 DEF b
<1>4. ASSUME NEW r \in Slot
      PROVE  SameOrder(r, upd(r)) /\ upd(r).next = r.next /\ upd(r).prev = NULL_IDX
  BY DEF SameOrder, Slot
<1>5. \A t \in Slots : DequeuedSlots(sl, s)[t] = IF t = s THEN NULL_IDX
                                             ELSE IF t = b THEN upd(sl[t]) ELSE sl[t]
  BY DEF DequeuedSlots, b
<1> HIDE DEF upd
<1>6. DequeuedSlots(sl, s) \in [Slots -> Slot \cup {NULL_IDX}]
  <2>1. \A t \in Slots : DequeuedSlots(sl, s)[t] \in Slot \cup {NULL_IDX}
    BY <1>3, <1>4, <1>5 DEF SameOrder
  <2>2. DequeuedSlots(sl, s) = [t \in Slots |-> DequeuedSlots(sl, s)[t]]
    BY DEF DequeuedSlots
  <2> QED BY <2>1, <2>2
<1>7. UnlinkedFrom(sl, DequeuedSlots(sl, s), s)
  <2> SUFFICES ASSUME NEW t \in Slots \ {s}, sl[t] \in Slot
               PROVE  /\ SameOrder(sl[t], DequeuedSlots(sl, s)[t])
                      /\ DequeuedSlots(sl, s)[t].next = sl[t].next
                      /\ DequeuedSlots(sl, s)[t].prev = IF t = b THEN NULL_IDX ELSE sl[t].prev
    BY <1>0, <1>1 DEF UnlinkedFrom, b
  <2>1. CASE t = b
    BY <1>4, <1>5, <2>1
  <2>2. CASE t # b
    BY <1>5, <2>2 DEF SameOrder
  <2> QED BY <2>1, <2>2
<1> QED BY <1>6, <1>7

\* AppendSlots links a slot behind the tail.
LEMMA AppendSlotsLinks ==
  ASSUME NEW sl \in [Slots -> Slot \cup {NULL_IDX}], NEW s \in Slots, NEW r \in Slot, NEW l \in Level,
         l.head # NULL_IDX => l.tail \in Slots /\ sl[l.tail] \in Slot /\ l.tail # s
  PROVE  LET sl2 == AppendSlots(sl, l, s, r)
             t0 == IF l.head = NULL_IDX THEN NULL_IDX ELSE l.tail
         IN  /\ sl2 \in [Slots -> Slot \cup {NULL_IDX}]
             /\ LinkedBehind(sl, sl2, s, t0)
             /\ SameOrder(r, sl2[s]) /\ sl2[s].qty = r.qty
<1> DEFINE sl2 == AppendSlots(sl, l, s, r)
           t0 == IF l.head = NULL_IDX THEN NULL_IDX ELSE l.tail
           r0 == [r EXCEPT !.next = NULL_IDX, !.prev = t0]
           upd(x) == [x EXCEPT !.next = s]
<1>0. NULL_IDX \notin Slots
  BY RecordsAssumption
<1>1. /\ t0 \in Slots \cup {NULL_IDX}
      /\ t0 # NULL_IDX => t0 \in Slots \ {s} /\ sl[t0] \in Slot
      /\ l.head # NULL_IDX /\ l.tail \in Slots <=> t0 \in Slots
  BY <1>0
<1>2. \A t \in Slots : sl2[t] = IF t = s THEN r0
                                ELSE IF t = t0 THEN upd(sl[t]) ELSE sl[t]
  BY <1>0 DEF AppendSlots
<1>3. sl2 = [t \in Slots |-> sl2[t]]
  BY DEF AppendSlots
<1> HIDE DEF sl2, t0
<1>4. r0 \in Slot /\ SameOrder(r, r0) /\ r0.qty = r.qty /\ r0.next = NULL_IDX /\ r0.prev = t0
  BY <1>1 DEF SameOrder, Slot
<1>5. ASSUME NEW x \in Slot
      PROVE  SameOrder(x, upd(x)) /\ upd(x).next = s /\ upd(x).prev = x.prev
  BY DEF SameOrder, Slot
<1> HIDE DEF r0, upd
<1>6. sl2 \in [Slots -> Slot \cup {NULL_IDX}]
  <2>1. \A t \in Slots : sl2[t] \in Slot \cup {NULL_IDX}
    BY <1>0, <1>1, <1>2, <1>4, <1>5 DEF SameOrder
  <2> QED BY <1>3, <2>1
<1>7. LinkedBehind(sl, sl2, s, t0)
  <2>1. sl2[s] = r0
    BY <1>2
  <2>2. ASSUME NEW t \in Slots \ {s}, sl[t] \in Slot
        PROVE  /\ SameOrder(sl[t], sl2[t])
               /\ sl2[t].next = IF t = t0 THEN s ELSE sl[t].next
               /\ sl2[t].prev = sl[t].prev
    <3>1. CASE t = t0
      BY <1>2, <1>5, <2>2, <3>1
    <3>2. CASE t # t0
      BY <1>2, <2>2, <3>2 DEF SameOrder
    <3> QED BY <3>1, <3>2
  <2> QED BY <2>1, <2>2, <1>4 DEF LinkedBehind
<1> QED BY <1>2, <1>4, <1>6, <1>7 DEF sl2, t0

\* q2 is q without its place k.
Without(q, k, q2) ==
    /\ Len(q2) = Len(q) - 1
    /\ \A j \in 1 .. Len(q) - 1 : q2[j] = IF j < k THEN q[j] ELSE q[j + 1]

\* UnlinkLevel moves head and tail to those of the shorter queue.
LEMMA UnlinkLevelDescribes ==
  ASSUME NEW sl, NEW q \in Seq(Slots), NEW p, QueueLinked(sl, q, p),
         NEW k \in 1 .. Len(q), NEW s, s = q[k],
         NEW l \in Level, Describes(l, q),
         NEW q2 \in Seq(Slots), Without(q, k, q2)
  PROVE  /\ UnlinkLevel(sl, l, s) \in Level
         /\ UnlinkLevel(sl, l, s).price = l.price
         /\ UnlinkLevel(sl, l, s).qty = l.qty
         /\ UnlinkLevel(sl, l, s).count = l.count
         /\ Len(q2) = 0 => UnlinkLevel(sl, l, s).head = NULL_IDX
         /\ Len(q2) # 0 => /\ UnlinkLevel(sl, l, s).head = q2[1]
                           /\ UnlinkLevel(sl, l, s).tail = q2[Len(q2)]
<1> DEFINE h == IF sl[s].prev = NULL_IDX THEN sl[s].next ELSE l.head
           t == IF sl[s].next = NULL_IDX THEN sl[s].prev ELSE l.tail
<1>0. /\ Len(q) \in Nat /\ NULL_IDX \notin Slots /\ \A j \in 1 .. Len(q) : q[j] \in Slots
      /\ l.head = q[1] /\ l.tail = q[Len(q)] /\ k \in 1 .. Len(q)
  BY ElementOfSeq, RecordsAssumption DEF Describes
<1>1. /\ sl[s] \in Slot
      /\ sl[s].prev = IF k = 1 THEN NULL_IDX ELSE q[k - 1]
      /\ sl[s].next = IF k = Len(q) THEN NULL_IDX ELSE q[k + 1]
  BY DEF QueueLinked
<1>2. /\ sl[s].prev = NULL_IDX <=> k = 1
      /\ sl[s].next = NULL_IDX <=> k = Len(q)
  BY <1>0, <1>1
<1>3. /\ UnlinkLevel(sl, l, s) = [l EXCEPT !.head = h, !.tail = t]
      /\ h \in Slots \cup {NULL_IDX} /\ t \in Slots \cup {NULL_IDX}
  BY <1>1, SlotType DEF UnlinkLevel, Level
<1>4. h = IF k = 1 THEN (IF k = Len(q) THEN NULL_IDX ELSE q[k + 1]) ELSE q[1]
  BY <1>0, <1>1, <1>2
<1>5. t = IF k = Len(q) THEN (IF k = 1 THEN NULL_IDX ELSE q[k - 1]) ELSE q[Len(q)]
  BY <1>0, <1>1, <1>2
<1> HIDE DEF h, t
<1>6. /\ UnlinkLevel(sl, l, s) \in Level
      /\ UnlinkLevel(sl, l, s).head = h /\ UnlinkLevel(sl, l, s).tail = t
      /\ UnlinkLevel(sl, l, s).price = l.price /\ UnlinkLevel(sl, l, s).qty = l.qty
      /\ UnlinkLevel(sl, l, s).count = l.count
  BY <1>3 DEF Level
<1>7. Len(q2) = Len(q) - 1 /\ \A j \in 1 .. Len(q) - 1 : q2[j] = IF j < k THEN q[j] ELSE q[j + 1]
  BY DEF Without
<1>8. Len(q2) = 0 => h = NULL_IDX
  <2>1. \A n \in Nat, m \in Int : k \in 1 .. n /\ m = n - 1 /\ m = 0 => k = 1 /\ k = n
    OBVIOUS
  <2>2. Len(q2) \in Int
    OBVIOUS
  <2>3. Len(q2) = 0 => k = 1 /\ k = Len(q)
    BY <1>0, <1>7, <2>1, <2>2
  <2> QED BY <1>4, <2>3
<1>9. Len(q2) # 0 => h = q2[1]
  BY <1>0, <1>4, <1>7
<1>10. Len(q2) # 0 => t = q2[Len(q2)]
  <2> HAVE Len(q2) # 0
  <2>1. Len(q) - 1 \in 1 .. Len(q) - 1 /\ (Len(q) - 1) + 1 = Len(q)
    BY <1>0, <1>7
  <2>2. q2[Len(q) - 1] = IF k = Len(q) THEN q[k - 1] ELSE q[Len(q)]
    BY <1>0, <1>7, <2>1
  <2> QED BY <1>0, <1>5, <1>7, <2>2
<1> QED BY <1>6, <1>8, <1>9, <1>10

\* So does DequeuedLevel.
LEMMA DequeuedLevelDescribes ==
  ASSUME NEW sl, NEW q \in Seq(Slots), NEW p, QueueLinked(sl, q, p),
         NEW l \in Level, Describes(l, q), NEW n \in Int,
         NEW q2 \in Seq(Slots), Len(q2) = Len(q) - 1,
         \A j \in 1 .. Len(q) - 1 : q2[j] = q[j + 1]
  PROVE  /\ DequeuedLevel(sl, l, n) \in Level
         /\ DequeuedLevel(sl, l, n).price = l.price
         /\ DequeuedLevel(sl, l, n).count = Len(q2)
         /\ Len(q2) # 0 => DequeuedLevel(sl, l, n).head = q2[1] /\ DequeuedLevel(sl, l, n).tail = q2[Len(q2)]
<1> DEFINE h == sl[l.head].next
           t == IF h = NULL_IDX THEN NULL_IDX ELSE l.tail
           m == (l.qty - n) % QtyMod
<1>0. /\ Len(q) \in Nat /\ NULL_IDX \notin Slots /\ \A j \in 1 .. Len(q) : q[j] \in Slots
      /\ l.head = q[1] /\ l.tail = q[Len(q)] /\ l.count = Len(q) /\ q # <<>>
  BY ElementOfSeq, RecordsAssumption DEF Describes
<1>1. Len(q) >= 1
  BY EmptySeq, <1>0
<1>2. sl[l.head] \in Slot /\ h = IF Len(q) = 1 THEN NULL_IDX ELSE q[2]
  <2>1. \A j \in 1 .. Len(q) :
           sl[q[j]] \in Slot /\ sl[q[j]].next = IF j = Len(q) THEN NULL_IDX ELSE q[j + 1]
    BY DEF QueueLinked
  <2>2. 1 \in 1 .. Len(q) /\ 1 + 1 = 2
    BY <1>0, <1>1
  <2>3. sl[q[1]] \in Slot /\ sl[q[1]].next = IF 1 = Len(q) THEN NULL_IDX ELSE q[2]
    BY <2>1, <2>2
  <2> QED BY <1>0, <2>3
<1>3. /\ h \in Slots \cup {NULL_IDX} /\ t \in Slots \cup {NULL_IDX}
      /\ h = NULL_IDX <=> Len(q) = 1
  <2>1. Len(q) # 1 => q[2] \in Slots
    BY <1>0, <1>1
  <2> QED BY <1>0, <1>2, <2>1, SlotType DEF Level
<1>4. m \in Qty
  <2>1. l.qty - n \in Int
    BY DEF Level, Qty
  <2> QED BY <2>1, ModType
<1>5. DequeuedLevel(sl, l, n) = [l EXCEPT !.qty = m, !.count = l.count - 1, !.head = h, !.tail = t]
  BY DEF DequeuedLevel, Level
<1>6. l.count - 1 \in Nat /\ l.count - 1 = Len(q2)
  BY <1>0, <1>1
<1> HIDE DEF h, t, m
<1>7. /\ DequeuedLevel(sl, l, n) \in Level /\ DequeuedLevel(sl, l, n).price = l.price
      /\ DequeuedLevel(sl, l, n).count = l.count - 1
      /\ DequeuedLevel(sl, l, n).head = h /\ DequeuedLevel(sl, l, n).tail = t
  BY <1>3, <1>4, <1>5, <1>6 DEF Level
<1>8. Len(q2) # 0 => h = q2[1] /\ t = q2[Len(q2)]
  <2> HAVE Len(q2) # 0
  <2>1. /\ Len(q) # 1 /\ 1 \in 1 .. Len(q) - 1 /\ 1 + 1 = 2
        /\ Len(q2) \in 1 .. Len(q) - 1 /\ Len(q2) + 1 = Len(q)
    BY <1>0, <1>1
  <2>2. q2[1] = q[2] /\ q2[Len(q2)] = q[Len(q)]
    BY <2>1
  <2>3. t = l.tail
    BY <1>3, <2>1 DEF t
  <2> QED BY <1>0, <1>2, <2>1, <2>2, <2>3
<1> QED BY <1>6, <1>7, <1>8

\* AppendLevel makes head and tail those of the longer queue.
LEMMA AppendLevelDescribes ==
  ASSUME NEW l \in Level, NEW s \in Slots, NEW q \in Seq(Slots), NEW q2 \in Seq(Slots),
         q = <<>> => l.head = NULL_IDX,
         q # <<>> => l.head = q[1] /\ l.tail = q[Len(q)],
         Len(q2) = Len(q) + 1, \A j \in 1 .. Len(q) : q2[j] = q[j], q2[Len(q) + 1] = s
  PROVE  /\ AppendLevel(l, s) \in Level
         /\ AppendLevel(l, s).price = l.price
         /\ AppendLevel(l, s).qty = l.qty
         /\ AppendLevel(l, s).count = l.count
         /\ q2 # <<>>
         /\ AppendLevel(l, s).head = q2[1]
         /\ AppendLevel(l, s).tail = q2[Len(q2)]
<1>1. /\ AppendLevel(l, s) \in Level
      /\ AppendLevel(l, s).price = l.price
      /\ AppendLevel(l, s).qty = l.qty
      /\ AppendLevel(l, s).count = l.count
      /\ AppendLevel(l, s).head = IF l.head = NULL_IDX THEN s ELSE l.head
      /\ AppendLevel(l, s).tail = s
  BY DEF AppendLevel, Level
<1>2. Len(q) \in Nat /\ Len(q2) # 0 /\ q2 # <<>>
  BY EmptySeq
<1>3. CASE q = <<>>
  BY <1>1, <1>2, <1>3, EmptySeq
<1>4. CASE q # <<>>
  <2>1. 1 \in 1 .. Len(q)
    BY <1>2, <1>4, EmptySeq
  <2>2. q[1] \in Slots /\ q[1] # NULL_IDX /\ q2[1] = q[1]
    BY <2>1, ElementOfSeq, RecordsAssumption
  <2> QED BY <1>1, <1>2, <1>4, <2>2
<1> QED BY <1>3, <1>4

-----------------------------------------------------------------------------
(* Facts about sequence operators.                                         *)

\* RemoveAt, which std::move and the shifts of remove_level amount to, closes
\* the gap and keeps everything else in order.
LEMMA RemoveAtProps ==
  ASSUME NEW S, NEW q \in Seq(S), NEW k \in 1 .. Len(q)
  PROVE  /\ RemoveAt(q, k) \in Seq(S)
         /\ Len(RemoveAt(q, k)) = Len(q) - 1
         /\ \A j \in 1 .. Len(q) - 1 : RemoveAt(q, k)[j] = IF j < k THEN q[j] ELSE q[j + 1]
<1> DEFINE a == SubSeq(q, 1, k - 1)
           b == SubSeq(q, k + 1, Len(q))
<1>1. Len(q) \in Nat /\ k \in Nat
  OBVIOUS
<1>2. a \in Seq(S) /\ Len(a) = k - 1 /\ \A j \in 1 .. k - 1 : a[j] = q[j]
  BY <1>1, SubSeqProperties
<1>3. b \in Seq(S) /\ Len(b) = Len(q) - k /\ \A j \in 1 .. Len(q) - k : b[j] = q[k + j]
  BY <1>1, SubSeqProperties
<1>4. RemoveAt(q, k) = a \o b
  BY DEF RemoveAt
<1> HIDE DEF a, b
<1>5. /\ a \o b \in Seq(S) /\ Len(a \o b) = Len(a) + Len(b)
      /\ \A j \in 1 .. Len(a) + Len(b) : (a \o b)[j] = IF j <= Len(a) THEN a[j] ELSE b[j - Len(a)]
  BY <1>2, <1>3, ConcatProperties
<1>6. ASSUME NEW j \in 1 .. Len(q) - 1
      PROVE  (a \o b)[j] = IF j < k THEN q[j] ELSE q[j + 1]
  <2>1. CASE j < k
    BY <2>1, <1>1, <1>2, <1>3, <1>5
  <2>2. CASE ~(j < k)
    <3>1. j - (k - 1) \in 1 .. Len(q) - k /\ k + (j - (k - 1)) = j + 1
      BY <2>2, <1>1
    <3>2. (a \o b)[j] = b[j - (k - 1)]
      BY <2>2, <1>1, <1>2, <1>3, <1>5
    <3>3. b[j - (k - 1)] = q[k + (j - (k - 1))]
      BY <3>1, <1>3
    <3> QED BY <2>2, <3>1, <3>2, <3>3
  <2> QED BY <2>1, <2>2
<1> QED BY <1>1, <1>2, <1>3, <1>4, <1>5, <1>6

\* InsertAt, the shift of insert_level, opens a gap and fills it.
LEMMA InsertAtProps ==
  ASSUME NEW S, NEW q \in Seq(S), NEW k \in 1 .. Len(q) + 1, NEW e \in S
  PROVE  /\ InsertAt(q, k, e) \in Seq(S)
         /\ Len(InsertAt(q, k, e)) = Len(q) + 1
         /\ \A j \in 1 .. Len(q) + 1 :
               InsertAt(q, k, e)[j] = IF j < k THEN q[j] ELSE IF j = k THEN e ELSE q[j - 1]
<1> DEFINE a == SubSeq(q, 1, k - 1)
           b == SubSeq(q, k, Len(q))
           c == a \o <<e>>
<1>1. Len(q) \in Nat /\ k \in Nat
  OBVIOUS
<1>2. a \in Seq(S) /\ Len(a) = k - 1 /\ \A j \in 1 .. k - 1 : a[j] = q[j]
  BY <1>1, SubSeqProperties
<1>3. b \in Seq(S) /\ Len(b) = Len(q) + 1 - k /\ \A j \in 1 .. Len(q) + 1 - k : b[j] = q[k + j - 1]
  BY <1>1, SubSeqProperties
<1>4. <<e>> \in Seq(S) /\ Len(<<e>>) = 1 /\ <<e>>[1] = e
  OBVIOUS
<1>5. /\ c \in Seq(S) /\ Len(c) = k
      /\ \A j \in 1 .. k - 1 : c[j] = q[j]
      /\ c[k] = e
  <2> HIDE DEF a
  <2>1. /\ c \in Seq(S) /\ Len(c) = Len(a) + 1
        /\ \A j \in 1 .. Len(a) + 1 : c[j] = IF j <= Len(a) THEN a[j] ELSE <<e>>[j - Len(a)]
    BY <1>2, <1>4, ConcatProperties
  <2> QED BY <1>1, <1>2, <1>4, <2>1
<1>6. InsertAt(q, k, e) = c \o b
  BY DEF InsertAt
<1> HIDE DEF a, b, c
<1>7. /\ c \o b \in Seq(S) /\ Len(c \o b) = Len(c) + Len(b)
      /\ \A j \in 1 .. Len(c) + Len(b) : (c \o b)[j] = IF j <= Len(c) THEN c[j] ELSE b[j - Len(c)]
  BY <1>3, <1>5, ConcatProperties
<1>8. ASSUME NEW j \in 1 .. Len(q) + 1
      PROVE  (c \o b)[j] = IF j < k THEN q[j] ELSE IF j = k THEN e ELSE q[j - 1]
  <2>1. CASE j <= k
    BY <2>1, <1>1, <1>3, <1>5, <1>7
  <2>2. CASE ~(j <= k)
    <3>1. j - k \in 1 .. Len(q) + 1 - k /\ k + (j - k) - 1 = j - 1
      BY <2>2, <1>1
    <3>2. (c \o b)[j] = b[j - k]
      BY <2>2, <1>1, <1>3, <1>5, <1>7
    <3>3. b[j - k] = q[k + (j - k) - 1]
      BY <3>1, <1>3
    <3> QED BY <2>2, <3>1, <3>2, <3>3, <1>1
  <2> QED BY <2>1, <2>2
<1> QED BY <1>1, <1>3, <1>5, <1>6, <1>7, <1>8

\* Removing what was just inserted gives the sequence back.
LEMMA RemoveInserted ==
  ASSUME NEW S, NEW q \in Seq(S), NEW k \in 1 .. Len(q) + 1, NEW e \in S
  PROVE  RemoveAt(InsertAt(q, k, e), k) = q
<1> DEFINE w == InsertAt(q, k, e)
           r == RemoveAt(w, k)
<1>0. Len(q) \in Nat
  OBVIOUS
<1>1. /\ w \in Seq(S) /\ Len(w) = Len(q) + 1
      /\ \A j \in 1 .. Len(q) + 1 :
            w[j] = IF j < k THEN q[j] ELSE IF j = k THEN e ELSE q[j - 1]
  BY InsertAtProps
<1> HIDE DEF w
<1>2. k \in 1 .. Len(w)
  BY <1>0, <1>1
<1>3. /\ r \in Seq(S) /\ Len(r) = Len(w) - 1
      /\ \A j \in 1 .. Len(w) - 1 : r[j] = IF j < k THEN w[j] ELSE w[j + 1]
  BY <1>1, <1>2, RemoveAtProps
<1> HIDE DEF r
<1>4. Len(r) = Len(q)
  BY <1>0, <1>1, <1>3
<1>5. ASSUME NEW j \in 1 .. Len(q) PROVE r[j] = q[j]
  <2>1. j \in 1 .. Len(w) - 1 /\ j \in 1 .. Len(q) + 1 /\ j + 1 \in 1 .. Len(q) + 1
    BY <1>0, <1>1
  <2>2. r[j] = IF j < k THEN w[j] ELSE w[j + 1]
    BY <1>3, <2>1
  <2>3. j < k => w[j] = q[j]
    BY <1>1, <2>1
  <2>4. ~(j < k) => w[j + 1] = q[j]
    <3>1. ~(j < k) => ~(j + 1 < k) /\ j + 1 # k /\ (j + 1) - 1 = j
      BY <2>1
    <3> QED BY <1>1, <2>1, <3>1
  <2> QED BY <2>2, <2>3, <2>4
<1>6. r = q
  BY <1>3, <1>4, <1>5, SeqEqual
<1> QED BY <1>6 DEF r, w

-----------------------------------------------------------------------------
(* One side's array.                                                       *)

\* One side's array, strictly sorted.
SortedSeq(sd, lv) ==
    \A i, j \in 1 .. Len(lv) : i < j => Better(sd, lv[i].price, lv[j].price)

\* What the prices of a typed array are.
LEMMA LevelPrice ==
  ASSUME NEW lv \in Seq(Level)
  PROVE  \A i \in 1 .. Len(lv) : lv[i] \in Level /\ lv[i].price \in Prices /\ lv[i].price \in Int
<1>1. \A i \in 1 .. Len(lv) : lv[i] \in Level
  BY ElementOfSeq
<1>2. \A l \in Level : l.price \in Prices
  BY DEF Level
<1>3. \A x \in Prices : x \in Int
  BY TypesAssumption
<1> QED BY <1>1, <1>2, <1>3

\* In a sorted array a price has one level, and find_level finds it.
LEMMA FindLevel ==
  ASSUME NEW sd \in Sides, NEW lv \in Seq(Level), SortedSeq(sd, lv), NEW p \in Prices
  PROVE  /\ find_level(lv, p) \in 0 .. Len(lv)
         /\ find_level(lv, p) = 0 <=> \A i \in 1 .. Len(lv) : lv[i].price # p
         /\ find_level(lv, p) # 0 => lv[find_level(lv, p)].price = p
         /\ \A i \in 1 .. Len(lv) : lv[i].price = p => find_level(lv, p) = i
<1>0. Len(lv) \in Nat
  OBVIOUS
<1>1. Len(lv) \in Nat /\ \A i \in 1 .. Len(lv) : lv[i].price \in Int
  BY <1>0, LevelPrice
<1>2. \A i, j \in 1 .. Len(lv) : lv[i].price = lv[j].price => i = j
  BY <1>1 DEF SortedSeq, Better
<1>3. ASSUME NEW i \in 1 .. Len(lv), lv[i].price = p
      PROVE  find_level(lv, p) = i
  <2>1. \A j \in 1 .. i - 1 : j \in 1 .. Len(lv) /\ lv[j].price # p
    BY <1>1, <1>2, <1>3
  <2>2. find_level(lv, p) = CHOOSE m \in 1 .. Len(lv) :
            lv[m].price = p /\ \A j \in 1 .. m - 1 : lv[j].price # p
    BY <1>3 DEF find_level
  <2>3. \A m \in 1 .. Len(lv) :
            (lv[m].price = p /\ \A j \in 1 .. m - 1 : lv[j].price # p) => m = i
    BY <1>2, <1>3
  <2> QED BY <1>3, <2>1, <2>2, <2>3
<1>4. (\A i \in 1 .. Len(lv) : lv[i].price # p) => find_level(lv, p) = 0
  BY DEF find_level
<1> QED BY <1>1, <1>3, <1>4

\* insert_level's loop stops at a position that keeps the array sorted.
LEMMA InsertPosition ==
  ASSUME NEW sd \in Sides, NEW lv \in Seq(Level), NEW p \in Prices
  PROVE  LET i == InsertPos(sd, lv, p)
         IN  /\ i \in 1 .. Len(lv) + 1
             /\ \A j \in 1 .. i - 1 : Better(sd, lv[j].price, p)
             /\ i <= Len(lv) => ~Better(sd, lv[i].price, p)
<1> DEFINE T == {i \in 1 .. Len(lv) + 1 : i <= Len(lv) => ~Better(sd, lv[i].price, p)}
<1>1. Len(lv) \in Nat
  OBVIOUS
<1>2. T \subseteq Nat /\ Len(lv) + 1 \in T
  BY <1>1
<1>3. PICK i \in T : \A j \in T : ~(<<j, i>> \in OpToRel(<, Nat))
  BY <1>2, NatLessThanWellFounded, WFMin
<1>4. \A j \in T : ~(j < i)
  BY <1>2, <1>3 DEF OpToRel
<1>5. ASSUME NEW j \in 1 .. i - 1 PROVE Better(sd, lv[j].price, p)
  <2>1. i \in 1 .. Len(lv) + 1
    BY <1>3
  <2>2. j \in 1 .. Len(lv) + 1 /\ j < i /\ j <= Len(lv)
    BY <2>1, <1>1
  <2>3. j \notin T
    BY <1>4, <2>2
  <2> QED BY <2>2, <2>3
<1> QED BY <1>3, <1>5 DEF InsertPos

\* A level opened by insert_level is a well-typed, empty level.
LEMMA NewLevelType == ASSUME NEW p \in Prices PROVE NewLevel(p) \in Level
BY TypesAssumption DEF NewLevel, Level, Qty

\* The array with a level for p: sorted, p has its level, the others are the
\* old ones and all of them are there.
LEMMA InsertLevel ==
  ASSUME NEW sd \in Sides, NEW lv \in Seq(Level), SortedSeq(sd, lv), NEW p \in Prices,
         \A i \in 1 .. Len(lv) : lv[i].price # p
  PROVE  LET w == insert_level(sd, lv, p)
             i == find_level(w, p)
         IN  /\ w \in Seq(Level)
             /\ SortedSeq(sd, w)
             /\ i \in 1 .. Len(w)
             /\ w[i] = NewLevel(p)
             /\ \A j \in 1 .. Len(w) : j # i => \E m \in 1 .. Len(lv) : w[j] = lv[m]
             /\ \A m \in 1 .. Len(lv) : \E j \in 1 .. Len(w) : w[j] = lv[m]
             /\ remove_level(w, i) = lv
<1> DEFINE k == InsertPos(sd, lv, p)
           w == insert_level(sd, lv, p)
<1>0. Len(lv) \in Nat /\ p \in Int
  BY TypesAssumption
<1>1. /\ Len(lv) \in Nat /\ p \in Int
      /\ \A i \in 1 .. Len(lv) : lv[i].price \in Int
  BY <1>0, LevelPrice
<1>2. /\ k \in 1 .. Len(lv) + 1
      /\ \A j \in 1 .. k - 1 : Better(sd, lv[j].price, p)
      /\ k <= Len(lv) => ~Better(sd, lv[k].price, p)
  BY InsertPosition
<1> HIDE DEF k
<1>3. NewLevel(p) \in Level /\ NewLevel(p).price = p
  BY NewLevelType DEF NewLevel
<1>4. w = InsertAt(lv, k, NewLevel(p))
  BY DEF insert_level, k
<1> HIDE DEF w
<1>5. /\ w \in Seq(Level) /\ Len(w) = Len(lv) + 1
      /\ \A j \in 1 .. Len(lv) + 1 :
            w[j] = IF j < k THEN lv[j] ELSE IF j = k THEN NewLevel(p) ELSE lv[j - 1]
  <2> DEFINE e == NewLevel(p)
  <2> HIDE DEF e
  <2>1. e \in Level
    BY <1>3 DEF e
  <2>2. /\ InsertAt(lv, k, e) \in Seq(Level) /\ Len(InsertAt(lv, k, e)) = Len(lv) + 1
        /\ \A j \in 1 .. Len(lv) + 1 : InsertAt(lv, k, e)[j] =
              IF j < k THEN lv[j] ELSE IF j = k THEN e ELSE lv[j - 1]
    BY <1>2, <2>1, InsertAtProps
  <2> QED BY <1>4, <2>2 DEF e
<1>6. \A j \in 1 .. Len(lv) : j >= k => Better(sd, p, lv[j].price)
  <2> TAKE j \in 1 .. Len(lv)
  <2> HAVE j >= k
  <2>1. k \in 1 .. Len(lv) /\ ~Better(sd, lv[k].price, p) /\ lv[k].price # p
    BY <1>1, <1>2
  <2>2. Better(sd, p, lv[k].price)
    BY <2>1, <1>1 DEF Better
  <2>3. j = k \/ Better(sd, lv[k].price, lv[j].price)
    BY <2>1, <1>1 DEF SortedSeq
  <2> QED BY <2>1, <2>2, <2>3, <1>1 DEF Better
<1>7. SortedSeq(sd, w)
  <2> SUFFICES ASSUME NEW i \in 1 .. Len(w), NEW j \in 1 .. Len(w), i < j
               PROVE  Better(sd, w[i].price, w[j].price)
    BY DEF SortedSeq
  <2>1. CASE j < k
    <3>1. /\ i \in 1 .. Len(lv) /\ j \in 1 .. Len(lv) /\ i < k
          /\ i \in 1 .. Len(lv) + 1 /\ j \in 1 .. Len(lv) + 1
      BY <2>1, <1>1, <1>2, <1>5
    <3>2. w[i] = lv[i] /\ w[j] = lv[j]
      BY <2>1, <3>1, <1>5
    <3> QED BY <3>1, <3>2 DEF SortedSeq
  <2>2. CASE j = k
    BY <2>2, <1>1, <1>2, <1>3, <1>5
  <2>3. CASE j > k /\ i < k
    <3>1. Better(sd, lv[i].price, p) /\ Better(sd, p, lv[j - 1].price)
      BY <2>3, <1>1, <1>2, <1>5, <1>6
    <3>2. w[i] = lv[i] /\ w[j] = lv[j - 1] /\ lv[i].price \in Int /\ lv[j - 1].price \in Int
      BY <2>3, <1>1, <1>2, <1>5
    <3> QED BY <3>1, <3>2, <1>1 DEF Better
  <2>4. CASE j > k /\ i = k
    BY SMTT(30), <2>4, <1>1, <1>2, <1>3, <1>5, <1>6
  <2>5. CASE i > k
    <3>1. w[i] = lv[i - 1] /\ w[j] = lv[j - 1] /\ i - 1 < j - 1
          /\ i - 1 \in 1 .. Len(lv) /\ j - 1 \in 1 .. Len(lv)
      BY <2>5, <1>1, <1>2, <1>5
    <3> QED BY <3>1 DEF SortedSeq
  <2> QED BY <2>1, <2>2, <2>3, <2>4, <2>5, <1>1, <1>2, <1>5
<1>8. k \in 1 .. Len(w) /\ w[k] = NewLevel(p)
  BY <1>1, <1>2, <1>5
<1>9. find_level(w, p) = k
  BY <1>3, <1>5, <1>7, <1>8, FindLevel
<1>10. ASSUME NEW j \in 1 .. Len(w), j # k
       PROVE  \E m \in 1 .. Len(lv) : w[j] = lv[m]
  <2>1. CASE j < k
    <3>1. j \in 1 .. Len(lv) /\ w[j] = lv[j]
      <4>1. j \in 1 .. Len(lv) + 1 /\ j \in 1 .. Len(lv)
        BY ONLY <2>1, <1>1, <1>2, <1>5, j \in 1 .. Len(w)
      <4> QED BY ONLY <2>1, <1>5, <4>1
    <3> QED BY <3>1
  <2>2. CASE j > k
    <3>1. j - 1 \in 1 .. Len(lv) /\ w[j] = lv[j - 1]
      BY <2>2, <1>1, <1>2, <1>5
    <3> QED BY <3>1
  <2> QED BY <1>10, <2>1, <2>2, <1>2, <1>5
<1>11. ASSUME NEW m \in 1 .. Len(lv)
       PROVE  \E j \in 1 .. Len(w) : w[j] = lv[m]
  <2>1. CASE m < k
    <3>1. m \in 1 .. Len(w) /\ w[m] = lv[m]
      BY <2>1, <1>1, <1>2, <1>5
    <3> QED BY <3>1
  <2>2. CASE m >= k
    <3>1. m + 1 \in 1 .. Len(w) /\ w[m + 1] = lv[m]
      BY <2>2, <1>1, <1>2, <1>5
    <3> QED BY <3>1
  <2> QED BY <2>1, <2>2, <1>1, <1>2
<1>12. remove_level(w, k) = lv
  BY <1>2, <1>3, <1>4, RemoveInserted DEF remove_level
<1> QED BY <1>5, <1>7, <1>8, <1>9, <1>10, <1>11, <1>12 DEF w

-----------------------------------------------------------------------------
(* Levels and the queues they stand for.                                   *)

\* Bids are below asks, on every pair of levels.
Uncrossed(lv) ==
    \A i \in 1 .. Len(lv["Buy"]), j \in 1 .. Len(lv["Sell"]) :
        lv["Buy"][i].price < lv["Sell"][j].price

\* The two arrays are sorted, uncrossed, and have a level for every queue.
LevelsOK(lv, ff) ==
    /\ lv \in [Sides -> Seq(Level)]
    /\ \A sd \in Sides : SortedSeq(sd, lv[sd])
    /\ Uncrossed(lv)
    /\ \A sd \in Sides : \A i \in 1 .. Len(lv[sd]) :
          Describes(lv[sd][i], ff[sd][lv[sd][i].price])
    /\ \A sd \in Sides : \A p \in Prices : ff[sd][p] # <<>> =>
          \E i \in 1 .. Len(lv[sd]) : lv[sd][i].price = p

\* ff2 differs from ff in one queue only.
OneQueue(ff, ff2, sd, p) ==
    \A sd1 \in Sides, p1 \in Prices : (sd1 # sd \/ p1 # p) => ff2[sd1][p1] = ff[sd1][p1]

\* Replacing one side's array by one with the same prices, or fewer, keeps the
\* sides uncrossed.
LEMMA StaysUncrossed ==
  ASSUME NEW lv \in [Sides -> Seq(Level)], Uncrossed(lv), NEW sd \in Sides, NEW w \in Seq(Level),
         \A j \in 1 .. Len(w) : \E m \in 1 .. Len(lv[sd]) : w[j].price = lv[sd][m].price
  PROVE  Uncrossed([lv EXCEPT ![sd] = w])
<1> DEFINE lv2 == [lv EXCEPT ![sd] = w]
<1>1. lv2[sd] = w /\ \A sd1 \in Sides : sd1 # sd => lv2[sd1] = lv[sd1]
  OBVIOUS
<1> HIDE DEF lv2
<1>2. \A sd1 \in Sides : \A j \in 1 .. Len(lv2[sd1]) :
         \E m \in 1 .. Len(lv[sd1]) : lv2[sd1][j].price = lv[sd1][m].price
  <2> TAKE sd1 \in Sides
  <2>1. CASE sd1 = sd
    BY <1>1, <2>1
  <2>2. CASE sd1 # sd
    BY <1>1, <2>2
  <2> QED BY <2>1, <2>2
<1>3. Uncrossed(lv2)
  BY <1>2 DEF Uncrossed, Sides
<1> QED BY <1>3 DEF lv2

\* A level changes with its queue.
LEMMA UpdateLevel ==
  ASSUME NEW lv, NEW ff, LevelsOK(lv, ff), NEW sd \in Sides, NEW i \in 1 .. Len(lv[sd]),
         NEW p, p = lv[sd][i].price, NEW l1 \in Level, l1.price = p,
         NEW ff2, OneQueue(ff, ff2, sd, p), Describes(l1, ff2[sd][p])
  PROVE  LevelsOK([lv EXCEPT ![sd] = [lv[sd] EXCEPT ![i] = l1]], ff2)
<1> DEFINE w == [lv[sd] EXCEPT ![i] = l1]
           lv2 == [lv EXCEPT ![sd] = w]
<1>0. lv \in [Sides -> Seq(Level)] /\ lv[sd] \in Seq(Level) /\ Len(lv[sd]) \in Nat
  BY DEF LevelsOK
<1>1. w \in Seq(Level) /\ Len(w) = Len(lv[sd])
  BY <1>0
<1>2. \A j \in 1 .. Len(lv[sd]) : w[j] = IF j = i THEN l1 ELSE lv[sd][j]
  BY <1>0
<1>3. \A j \in 1 .. Len(lv[sd]) : w[j].price = lv[sd][j].price
  BY <1>2
<1> HIDE DEF w
<1>4. lv2 \in [Sides -> Seq(Level)] /\ lv2[sd] = w /\ \A sd1 \in Sides : sd1 # sd => lv2[sd1] = lv[sd1]
  BY <1>0, <1>1
<1>5. Uncrossed(lv2)
  BY <1>0, <1>1, <1>3, StaysUncrossed DEF LevelsOK
<1>6. \A sd1 \in Sides : SortedSeq(sd1, lv2[sd1])
  <2>1. SortedSeq(sd, w)
    BY <1>1, <1>3 DEF LevelsOK, SortedSeq
  <2> QED BY <1>4, <2>1 DEF LevelsOK
<1> HIDE DEF lv2
<1>7. ASSUME NEW sd1 \in Sides, NEW j \in 1 .. Len(lv2[sd1])
      PROVE  Describes(lv2[sd1][j], ff2[sd1][lv2[sd1][j].price])
  <2>1. CASE sd1 # sd
    <3>1. lv2[sd1] = lv[sd1] /\ lv[sd1] \in Seq(Level)
      BY <1>0, <1>4, <2>1
    <3>2. lv[sd1][j].price \in Prices
      BY <3>1, LevelPrice
    <3>3. ff2[sd1][lv[sd1][j].price] = ff[sd1][lv[sd1][j].price]
      BY <2>1, <3>2 DEF OneQueue
    <3> QED BY <3>1, <3>3 DEF LevelsOK
  <2>2. CASE sd1 = sd /\ j = i
    BY <1>1, <1>2, <1>4, <2>2
  <2>3. CASE sd1 = sd /\ j # i
    <3>1. j \in 1 .. Len(lv[sd]) /\ lv2[sd1][j] = lv[sd][j]
      BY <1>1, <1>2, <1>4, <2>3
    <3>2. lv[sd][j].price \in Prices /\ lv[sd][j].price # p
      <4>1. /\ \A m \in 1 .. Len(lv[sd]) : lv[sd][m].price \in Int /\ lv[sd][m].price \in Prices
            /\ SortedSeq(sd, lv[sd])
        BY <1>0, LevelPrice DEF LevelsOK
      <4> QED BY <4>1, <3>1, <2>3, <1>0 DEF SortedSeq, Better
    <3>3. ff2[sd][lv[sd][j].price] = ff[sd][lv[sd][j].price]
      BY <3>2 DEF OneQueue
    <3> QED BY <2>3, <3>1, <3>3 DEF LevelsOK
  <2> QED BY <2>1, <2>2, <2>3
<1>8. ASSUME NEW sd1 \in Sides, NEW p1 \in Prices, ff2[sd1][p1] # <<>>
      PROVE  \E j \in 1 .. Len(lv2[sd1]) : lv2[sd1][j].price = p1
  <2>1. CASE sd1 = sd /\ p1 = p
    BY <1>1, <1>2, <1>4, <2>1
  <2>2. CASE sd1 # sd
    <3>1. ff[sd1][p1] # <<>>
      BY <1>8, <2>2 DEF OneQueue
    <3>2. \E j \in 1 .. Len(lv[sd1]) : lv[sd1][j].price = p1
      BY <3>1 DEF LevelsOK
    <3> QED BY <1>4, <2>2, <3>2
  <2>3. CASE sd1 = sd /\ p1 # p
    <3>1. ff[sd1][p1] # <<>>
      BY <1>8, <2>3 DEF OneQueue
    <3>2. PICK j \in 1 .. Len(lv[sd]) : lv[sd][j].price = p1
      BY <2>3, <3>1 DEF LevelsOK
    <3>3. j \in 1 .. Len(w) /\ w[j].price = p1
      BY <1>1, <1>3, <3>2
    <3>4. lv2[sd1] = w
      BY <1>4, <2>3
    <3>5. \E m \in 1 .. Len(w) : w[m].price = p1
      BY <3>3
    <3> QED BY <3>4, <3>5
  <2> QED BY <2>1, <2>2, <2>3
<1>9. LevelsOK(lv2, ff2)
  BY <1>4, <1>5, <1>6, <1>7, <1>8 DEF LevelsOK
<1> QED BY <1>9 DEF lv2, w

\* A level goes when its queue is empty.
LEMMA DropLevel ==
  ASSUME NEW lv, NEW ff, LevelsOK(lv, ff), NEW sd \in Sides, NEW i \in 1 .. Len(lv[sd]),
         NEW p, p = lv[sd][i].price,
         NEW ff2, OneQueue(ff, ff2, sd, p), ff2[sd][p] = <<>>
  PROVE  LevelsOK([lv EXCEPT ![sd] = remove_level(lv[sd], i)], ff2)
<1> DEFINE w == remove_level(lv[sd], i)
           lv2 == [lv EXCEPT ![sd] = w]
<1>0. lv \in [Sides -> Seq(Level)] /\ lv[sd] \in Seq(Level) /\ Len(lv[sd]) \in Nat
  BY DEF LevelsOK
<1>1. /\ w \in Seq(Level) /\ Len(w) = Len(lv[sd]) - 1
      /\ \A j \in 1 .. Len(lv[sd]) - 1 : w[j] = IF j < i THEN lv[sd][j] ELSE lv[sd][j + 1]
  BY <1>0, RemoveAtProps DEF remove_level
<1> HIDE DEF w
<1>2. ASSUME NEW j \in 1 .. Len(w)
      PROVE  \E m \in 1 .. Len(lv[sd]) : m # i /\ w[j] = lv[sd][m]
  <2>1. CASE j < i
    BY <2>1, <1>0, <1>1
  <2>2. CASE j >= i
    <3>1. j + 1 \in 1 .. Len(lv[sd]) /\ w[j] = lv[sd][j + 1] /\ j + 1 # i
      BY <2>2, <1>0, <1>1
    <3> QED BY <3>1
  <2> QED BY <2>1, <2>2, <1>0, <1>1
<1>3. ASSUME NEW m \in 1 .. Len(lv[sd]), m # i
      PROVE  \E j \in 1 .. Len(w) : w[j] = lv[sd][m]
  <2>1. CASE m < i
    BY <2>1, <1>0, <1>1
  <2>2. CASE m > i
    <3>1. m - 1 \in 1 .. Len(w) /\ w[m - 1] = lv[sd][m]
      BY <2>2, <1>0, <1>1
    <3> QED BY <3>1
  <2> QED BY <1>3, <2>1, <2>2, <1>0
<1>4. lv2 \in [Sides -> Seq(Level)] /\ lv2[sd] = w /\ \A sd1 \in Sides : sd1 # sd => lv2[sd1] = lv[sd1]
  BY <1>0, <1>1
<1>5. Uncrossed(lv2)
  <2>1. \A j \in 1 .. Len(w) : \E m \in 1 .. Len(lv[sd]) : w[j].price = lv[sd][m].price
    BY <1>2
  <2> QED BY <1>0, <1>1, <2>1, StaysUncrossed DEF LevelsOK
<1>6. \A sd1 \in Sides : SortedSeq(sd1, lv2[sd1])
  <2>1. SortedSeq(sd, w)
    <3> SUFFICES ASSUME NEW j1 \in 1 .. Len(w), NEW j2 \in 1 .. Len(w), j1 < j2
                 PROVE  Better(sd, w[j1].price, w[j2].price)
      BY DEF SortedSeq
    <3> DEFINE m1 == IF j1 < i THEN j1 ELSE j1 + 1
               m2 == IF j2 < i THEN j2 ELSE j2 + 1
    <3>1. m1 \in 1 .. Len(lv[sd]) /\ m2 \in 1 .. Len(lv[sd]) /\ m1 < m2
      BY <1>0, <1>1
    <3>2. w[j1] = lv[sd][m1] /\ w[j2] = lv[sd][m2]
      BY <1>0, <1>1
    <3> HIDE DEF m1, m2
    <3>3. SortedSeq(sd, lv[sd])
      BY DEF LevelsOK
    <3> QED BY <3>1, <3>2, <3>3 DEF SortedSeq
  <2> QED BY <1>4, <2>1 DEF LevelsOK
<1> HIDE DEF lv2
<1>7. \A m \in 1 .. Len(lv[sd]) : m # i => lv[sd][m].price \in Prices /\ lv[sd][m].price # p
  <2>1. /\ \A m \in 1 .. Len(lv[sd]) : lv[sd][m].price \in Int /\ lv[sd][m].price \in Prices
        /\ SortedSeq(sd, lv[sd])
    BY <1>0, LevelPrice DEF LevelsOK
  <2> QED BY <2>1, <1>0 DEF SortedSeq, Better
<1>8. ASSUME NEW sd1 \in Sides, NEW j \in 1 .. Len(lv2[sd1])
      PROVE  Describes(lv2[sd1][j], ff2[sd1][lv2[sd1][j].price])
  <2>1. CASE sd1 # sd
    <3>1. lv2[sd1] = lv[sd1] /\ lv[sd1] \in Seq(Level)
      BY <1>0, <1>4, <2>1
    <3>2. lv[sd1][j].price \in Prices
      BY <3>1, LevelPrice
    <3>3. ff2[sd1][lv[sd1][j].price] = ff[sd1][lv[sd1][j].price]
      BY <2>1, <3>2 DEF OneQueue
    <3> QED BY <3>1, <3>3 DEF LevelsOK
  <2>2. CASE sd1 = sd
    <3>1. PICK m \in 1 .. Len(lv[sd]) : m # i /\ lv2[sd1][j] = lv[sd][m]
      BY <1>2, <1>4, <2>2
    <3>2. ff2[sd][lv[sd][m].price] = ff[sd][lv[sd][m].price]
      BY <1>7, <3>1 DEF OneQueue
    <3> QED BY <2>2, <3>1, <3>2 DEF LevelsOK
  <2> QED BY <2>1, <2>2
<1>9. ASSUME NEW sd1 \in Sides, NEW p1 \in Prices, ff2[sd1][p1] # <<>>
      PROVE  \E j \in 1 .. Len(lv2[sd1]) : lv2[sd1][j].price = p1
  <2>1. ff[sd1][p1] # <<>> /\ (sd1 # sd \/ p1 # p)
    BY <1>9 DEF OneQueue
  <2>2. CASE sd1 # sd
    BY <1>4, <2>1, <2>2 DEF LevelsOK
  <2>3. CASE sd1 = sd
    <3>1. PICK m \in 1 .. Len(lv[sd]) : lv[sd][m].price = p1
      BY <2>1, <2>3 DEF LevelsOK
    <3>2. m # i
      BY <2>1, <2>3, <3>1
    <3> QED BY <1>3, <1>4, <2>3, <3>1, <3>2
  <2> QED BY <2>2, <2>3
<1>10. LevelsOK(lv2, ff2)
  BY <1>4, <1>5, <1>6, <1>8, <1>9 DEF LevelsOK
<1> QED BY <1>10 DEF lv2, w

\* A level is created with its queue, on the right side of the other side's
\* prices.
LEMMA CreateLevel ==
  ASSUME NEW lv, NEW ff, LevelsOK(lv, ff), NEW sd \in Sides, NEW p \in Prices,
         \A j \in 1 .. Len(lv[sd]) : lv[sd][j].price # p,
         \A j \in 1 .. Len(lv[Opposite(sd)]) :
             IF sd = "Buy" THEN p < lv["Sell"][j].price ELSE lv["Buy"][j].price < p,
         NEW w, w = insert_level(sd, lv[sd], p), NEW i, i = find_level(w, p),
         NEW l1 \in Level, l1.price = p,
         NEW ff2, OneQueue(ff, ff2, sd, p), Describes(l1, ff2[sd][p])
  PROVE  LevelsOK([lv EXCEPT ![sd] = [w EXCEPT ![i] = l1]], ff2)
<1> DEFINE w1 == [w EXCEPT ![i] = l1]
           lv2 == [lv EXCEPT ![sd] = w1]
<1>0. /\ lv \in [Sides -> Seq(Level)] /\ lv[sd] \in Seq(Level) /\ Len(lv[sd]) \in Nat
      /\ SortedSeq(sd, lv[sd])
  BY DEF LevelsOK
<1>1. /\ w \in Seq(Level) /\ SortedSeq(sd, w) /\ i \in 1 .. Len(w) /\ w[i] = NewLevel(p)
      /\ \A j \in 1 .. Len(w) : j # i => \E m \in 1 .. Len(lv[sd]) : w[j] = lv[sd][m]
      /\ \A m \in 1 .. Len(lv[sd]) : \E j \in 1 .. Len(w) : w[j] = lv[sd][m]
  <2>1. LET w2 == insert_level(sd, lv[sd], p)
            i2 == find_level(w2, p)
        IN  /\ w2 \in Seq(Level) /\ SortedSeq(sd, w2) /\ i2 \in 1 .. Len(w2) /\ w2[i2] = NewLevel(p)
            /\ \A j \in 1 .. Len(w2) : j # i2 => \E m \in 1 .. Len(lv[sd]) : w2[j] = lv[sd][m]
            /\ \A m \in 1 .. Len(lv[sd]) : \E j \in 1 .. Len(w2) : w2[j] = lv[sd][m]
    BY ONLY ZenonT(30), <1>0, sd \in Sides, p \in Prices,
            \A j \in 1 .. Len(lv[sd]) : lv[sd][j].price # p, InsertLevel
  <2> QED BY <2>1
<1>2. NewLevel(p).price = p
  BY DEF NewLevel
<1>3. /\ w1 \in Seq(Level) /\ Len(w1) = Len(w)
      /\ \A j \in 1 .. Len(w) : w1[j] = IF j = i THEN l1 ELSE w[j]
  BY <1>1
<1> HIDE DEF w1
<1>4. \A j \in 1 .. Len(w) : w1[j].price = w[j].price
  BY <1>1, <1>2, <1>3
<1>5. lv2 \in [Sides -> Seq(Level)] /\ lv2[sd] = w1 /\ \A sd1 \in Sides : sd1 # sd => lv2[sd1] = lv[sd1]
  BY <1>0, <1>3
<1> HIDE DEF lv2
<1>6. \A sd1 \in Sides : SortedSeq(sd1, lv2[sd1])
  <2>1. SortedSeq(sd, w1)
    BY ONLY <1>1, <1>3, <1>4 DEF SortedSeq
  <2> QED BY <1>5, <2>1 DEF LevelsOK
<1>7. Uncrossed(lv2)
  <2> SUFFICES ASSUME NEW a \in 1 .. Len(lv2["Buy"]), NEW b \in 1 .. Len(lv2["Sell"])
               PROVE  lv2["Buy"][a].price < lv2["Sell"][b].price
    BY DEF Uncrossed
  <2>1. \A j \in 1 .. Len(w1) :
           w1[j].price = p \/ \E m \in 1 .. Len(lv[sd]) : w1[j].price = lv[sd][m].price
    <3> SUFFICES ASSUME NEW j \in 1 .. Len(w1)
                 PROVE  w1[j].price = p \/ \E m \in 1 .. Len(lv[sd]) : w1[j].price = lv[sd][m].price
      OBVIOUS
    <3>1. CASE j = i
      BY <1>3, <3>1
    <3>2. CASE j # i
      <4>1. PICK m \in 1 .. Len(lv[sd]) : w[j] = lv[sd][m]
        BY <1>1, <1>3, <3>2
      <4>2. w1[j] = lv[sd][m]
        BY <1>3, <3>2, <4>1
      <4> QED BY <4>2
    <3> QED BY <3>1, <3>2
  <2>2. CASE sd = "Buy"
    <3>1. lv2["Buy"] = w1 /\ lv2["Sell"] = lv["Sell"] /\ Opposite(sd) = "Sell"
      BY <1>5, <2>2 DEF Sides, Opposite
    <3>2. CASE w1[a].price = p
      BY <2>2, <3>1, <3>2
    <3>3. CASE \E m \in 1 .. Len(lv[sd]) : w1[a].price = lv[sd][m].price
      BY <2>2, <3>1, <3>3 DEF LevelsOK, Uncrossed
    <3> QED BY <2>1, <3>1, <3>2, <3>3
  <2>3. CASE sd = "Sell"
    <3>1. lv2["Sell"] = w1 /\ lv2["Buy"] = lv["Buy"] /\ Opposite(sd) = "Buy"
      BY <1>5, <2>3 DEF Sides, Opposite
    <3>2. CASE w1[b].price = p
      BY <2>3, <3>1, <3>2
    <3>3. CASE \E m \in 1 .. Len(lv[sd]) : w1[b].price = lv[sd][m].price
      BY <2>3, <3>1, <3>3 DEF LevelsOK, Uncrossed
    <3> QED BY <2>1, <3>1, <3>2, <3>3
  <2> QED BY <2>2, <2>3 DEF Sides
<1>8. ASSUME NEW sd1 \in Sides, NEW j \in 1 .. Len(lv2[sd1])
      PROVE  Describes(lv2[sd1][j], ff2[sd1][lv2[sd1][j].price])
  <2>1. CASE sd1 # sd
    <3>1. lv2[sd1] = lv[sd1] /\ lv[sd1] \in Seq(Level)
      BY <1>0, <1>5, <2>1
    <3>2. lv[sd1][j].price \in Prices
      BY <3>1, LevelPrice
    <3>3. ff2[sd1][lv[sd1][j].price] = ff[sd1][lv[sd1][j].price]
      BY <2>1, <3>2 DEF OneQueue
    <3> QED BY <3>1, <3>3 DEF LevelsOK
  <2>2. CASE sd1 = sd /\ j = i
    BY <1>1, <1>3, <1>5, <2>2
  <2>3. CASE sd1 = sd /\ j # i
    <3>1. PICK m \in 1 .. Len(lv[sd]) : lv2[sd1][j] = lv[sd][m]
      <4>1. j \in 1 .. Len(w) /\ lv2[sd1] = w1
        BY <1>3, <1>5, <1>8, <2>3
      <4>2. w1[j] = w[j]
        BY ONLY <4>1, <1>3, <2>3
      <4>3. \E m \in 1 .. Len(lv[sd]) : w[j] = lv[sd][m]
        BY ONLY <4>1, <1>1, <2>3, Zenon
      <4> QED BY ONLY <4>1, <4>2, <4>3, Zenon
    <3>2. lv[sd][m].price \in Prices /\ lv[sd][m].price # p
      BY <1>0, LevelPrice
    <3>3. ff2[sd][lv[sd][m].price] = ff[sd][lv[sd][m].price]
      BY <3>2 DEF OneQueue
    <3> QED BY <2>3, <3>1, <3>3 DEF LevelsOK
  <2> QED BY <2>1, <2>2, <2>3
<1>9. ASSUME NEW sd1 \in Sides, NEW p1 \in Prices, ff2[sd1][p1] # <<>>
      PROVE  \E j \in 1 .. Len(lv2[sd1]) : lv2[sd1][j].price = p1
  <2>1. CASE sd1 = sd /\ p1 = p
    BY <1>1, <1>3, <1>5, <2>1
  <2>2. CASE sd1 # sd \/ p1 # p
    <3>1. ff[sd1][p1] # <<>>
      BY <1>9, <2>2 DEF OneQueue
    <3>2. PICK m \in 1 .. Len(lv[sd1]) : lv[sd1][m].price = p1
      BY <3>1 DEF LevelsOK
    <3>3. CASE sd1 = sd
      <4>1. PICK j \in 1 .. Len(w) : w[j] = lv[sd][m]
        BY <1>1, <3>2, <3>3
      <4>2. w1[j].price = p1 /\ j \in 1 .. Len(w1)
        BY <1>3, <1>4, <3>2, <3>3, <4>1
      <4> QED BY <1>5, <3>3, <4>2
    <3>4. CASE sd1 # sd
      BY <1>5, <3>2, <3>4
    <3> QED BY <3>3, <3>4
  <2> QED BY <2>1, <2>2
<1>10. LevelsOK(lv2, ff2)
  BY <1>5, <1>6, <1>7, <1>8, <1>9 DEF LevelsOK
<1> QED BY <1>10 DEF lv2, w1
=============================================================================
