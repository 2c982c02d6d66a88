----------------------------- MODULE BookLemmas -----------------------------
(***************************************************************************)
(* The order book as a whole: levels lv, slots sl, index ix and queues ff  *)
(* agree (BookOK), and the four ways in which the operations change a book *)
(* keep them in agreement: an order leaves, changes its quantity in place, *)
(* moves to the tail of its level, or comes to rest.                       *)
(***************************************************************************)
EXTENDS LevelLemmas

BookOK(lv, sl, ix, ff) ==
    /\ sl \in [Slots -> Slot \cup {NULL_IDX}]
    /\ ix \in [OrderIds -> Entry \cup {NULL_IDX}]
    /\ QueuesType(ff)
    /\ Separate(ff)
    /\ Linked(sl, ff)
    /\ LevelsOK(lv, ff)
    /\ \A id \in OrderIds : ix[id] # NULL_IDX => Leads(ix[id], id, sl, ff)

\* Level i of side sd is the one for price p.
LevelAt(lv, sd, i, p) == i \in 1 .. Len(lv[sd]) /\ p = lv[sd][i].price

\* What BookOK says of one level.
LEMMA LevelFacts ==
  ASSUME NEW lv, NEW sl, NEW ix, NEW ff, BookOK(lv, sl, ix, ff), NEW sd \in Sides, NEW i \in 1 .. Len(lv[sd])
  PROVE  LET l == lv[sd][i]
             q == ff[sd][l.price]
         IN  /\ l \in Level
             /\ l.price \in Prices
             /\ q \in Seq(Slots) /\ Len(q) \in Nat /\ Len(q) >= 1 /\ 1 \in 1 .. Len(q)
             /\ QueueLinked(sl, q, l.price)
             /\ Describes(l, q)
             /\ l.head = q[1] /\ l.head \in Slots
             /\ sl[l.head] \in Slot
<1> DEFINE l == lv[sd][i]
           q == ff[sd][l.price]
<1>1. l \in Level /\ l.price \in Prices
  BY LevelPrice DEF BookOK, LevelsOK
<1>2. Describes(l, q)
  BY DEF BookOK, LevelsOK
<1>3. q \in Seq(Slots) /\ QueueLinked(sl, q, l.price)
  BY <1>1, QueuedSlot DEF BookOK, Linked
<1> HIDE DEF q
<1>4. Len(q) \in Nat /\ Len(q) >= 1
  BY <1>2, <1>3, EmptySeq DEF Describes
<1>5. 1 \in 1 .. Len(q)
  BY <1>4
<1>6. l.head = q[1] /\ q[1] \in Slots /\ sl[q[1]] \in Slot
  BY <1>2, <1>3, <1>5, ElementOfSeq DEF Describes, QueueLinked
<1> QED BY <1>1, <1>2, <1>3, <1>4, <1>5, <1>6 DEF q

\* How the queues change.
LEMMA QueueEdits ==
  ASSUME NEW ff, QueuesType(ff), NEW sd \in Sides, NEW p \in Prices
  PROVE  /\ ff[sd][p] # <<>> => RemovedAt(ff, [ff EXCEPT ![sd][p] = Tail(ff[sd][p])], sd, p, 1)
         /\ \A k \in 1 .. Len(ff[sd][p]) :
               RemovedAt(ff, [ff EXCEPT ![sd][p] = RemoveAt(ff[sd][p], k)], sd, p, k)
         /\ \A s \in Slots : AppendedTo(ff, [ff EXCEPT ![sd][p] = Append(ff[sd][p], s)], sd, p, s)
<1> DEFINE q == ff[sd][p]
           E(x) == [ff EXCEPT ![sd][p] = x]
<1>0. q \in Seq(Slots) /\ Len(q) \in Nat
  BY QueuedSlot
<1>1. ASSUME NEW x \in Seq(Slots)
      PROVE  /\ QueuesType(E(x))
             /\ \A sd1 \in Sides, p1 \in Prices : (sd1 # sd \/ p1 # p) => E(x)[sd1][p1] = ff[sd1][p1]
             /\ E(x)[sd][p] = x
  BY DEF QueuesType
<1> HIDE DEF E
<1>2. q # <<>> => RemovedAt(ff, E(Tail(q)), sd, p, 1)
  <2> HAVE q # <<>>
  <2>1. /\ Tail(q) \in Seq(Slots) /\ Len(Tail(q)) = Len(q) - 1
        /\ \A j \in 1 .. Len(q) - 1 : Tail(q)[j] = q[j + 1]
    BY <1>0, HeadTailProperties
  <2>2. \A j \in 1 .. Len(q) - 1 : ~(j < 1)
    BY <1>0
  <2> QED BY <1>1, <2>1, <2>2 DEF RemovedAt
<1>3. ASSUME NEW k \in 1 .. Len(q) PROVE RemovedAt(ff, E(RemoveAt(q, k)), sd, p, k)
  <2>1. /\ RemoveAt(q, k) \in Seq(Slots) /\ Len(RemoveAt(q, k)) = Len(q) - 1
        /\ \A j \in 1 .. Len(q) - 1 : RemoveAt(q, k)[j] = IF j < k THEN q[j] ELSE q[j + 1]
    BY <1>0, RemoveAtProps
  <2> QED BY <1>1, <2>1 DEF RemovedAt
<1>4. ASSUME NEW s \in Slots PROVE AppendedTo(ff, E(Append(q, s)), sd, p, s)
  <2>1. /\ Append(q, s) \in Seq(Slots) /\ Len(Append(q, s)) = Len(q) + 1
        /\ \A j \in 1 .. Len(q) : Append(q, s)[j] = q[j]
        /\ Append(q, s)[Len(q) + 1] = s
    BY <1>0, AppendProperties
  <2> QED BY <1>1, <2>1 DEF AppendedTo
<1> QED BY <1>2, <1>3, <1>4 DEF E

\* Both kinds of edit touch one queue.
LEMMA EditsOneQueue ==
  ASSUME NEW ff, NEW ff2, NEW sd, NEW p
  PROVE  /\ \A k : RemovedAt(ff, ff2, sd, p, k) => OneQueue(ff, ff2, sd, p)
         /\ \A s : AppendedTo(ff, ff2, sd, p, s) => OneQueue(ff, ff2, sd, p)
BY DEF RemovedAt, AppendedTo, OneQueue

\* Level l has the count of queue q and, unless q is empty, its ends.
Fits(l, q) == l.count = Len(q) /\ (Len(q) # 0 => l.head = q[1] /\ l.tail = q[Len(q)])

\* The levels once level i has become l1: it goes when no order is left in it.
Shrunk(lv, sd, i, l1) ==
    [lv EXCEPT ![sd] = IF l1.count = 0 THEN remove_level(lv[sd], i)
                       ELSE [lv[sd] EXCEPT ![i] = l1]]

Forgotten(ix, id) == [ix EXCEPT ![id] = NULL_IDX]

\* An order leaves the book: its level shrinks or goes, its slot is unlinked,
\* its queue and the index forget it.
LEMMA Leave ==
  ASSUME NEW lv, NEW sl, NEW ix, NEW ff, BookOK(lv, sl, ix, ff),
         NEW sd \in Sides, NEW p \in Prices, NEW i, LevelAt(lv, sd, i, p),
         NEW k \in 1 .. Len(ff[sd][p]), NEW s, s = ff[sd][p][k],
         NEW sl2, NEW ff2, RemovedAt(ff, ff2, sd, p, k),
         sl2 \in [Slots -> Slot \cup {NULL_IDX}], UnlinkedFrom(sl, sl2, s),
         NEW l1 \in Level, l1.price = p, Fits(l1, ff2[sd][p])
  PROVE  BookOK(Shrunk(lv, sd, i, l1), sl2, Forgotten(ix, sl[s].id), ff2)
<1> DEFINE lv2 == Shrunk(lv, sd, i, l1)
           ix2 == Forgotten(ix, sl[s].id)
<1> HIDE DEF lv2, ix2
<1>1. QueuesType(ff2) /\ OneQueue(ff, ff2, sd, p)
  BY EditsOneQueue DEF RemovedAt
<1>2. Separate(ff2)
  BY RemovedPlaces DEF BookOK
<1>3. Linked(sl2, ff2)
  BY RemoveLinked DEF BookOK
<1>4. ff2[sd][p] = <<>> <=> Len(ff2[sd][p]) = 0
  BY <1>1, EmptySeq, QueuedSlot
<1>5. LevelsOK(lv, ff)
  BY DEF BookOK
<1>6. LevelsOK(lv2, ff2)
  <2>1. CASE l1.count = 0
    <3>1. lv2 = [lv EXCEPT ![sd] = remove_level(lv[sd], i)]
      BY <2>1 DEF lv2, Shrunk
    <3>2. ff2[sd][p] = <<>>
      BY <1>4, <2>1 DEF Fits
    <3>3. LevelsOK([lv EXCEPT ![sd] = remove_level(lv[sd], i)], ff2)
      BY <1>1, <1>5, <3>2, DropLevel DEF LevelAt
    <3> QED BY <3>1, <3>3
  <2>2. CASE l1.count # 0
    <3>1. lv2 = [lv EXCEPT ![sd] = [lv[sd] EXCEPT ![i] = l1]]
      BY <2>2 DEF lv2, Shrunk
    <3>2. Describes(l1, ff2[sd][p])
      BY <1>4, <2>2 DEF Describes, Fits
    <3>3. LevelsOK([lv EXCEPT ![sd] = [lv[sd] EXCEPT ![i] = l1]], ff2)
      BY <1>1, <1>5, <3>2, UpdateLevel DEF LevelAt
    <3> QED BY <3>1, <3>3
  <2> QED BY <2>1, <2>2
<1>7. sl[s] \in Slot /\ sl[s].id \in OrderIds
  BY SlotType DEF BookOK, Linked, QueueLinked
<1>8. ix2 \in [OrderIds -> Entry \cup {NULL_IDX}]
  BY <1>7 DEF BookOK, ix2, Forgotten
<1>9. ASSUME NEW id \in OrderIds, ix2[id] # NULL_IDX
      PROVE  Leads(ix2[id], id, sl2, ff2)
  <2>1. ix2[id] = ix[id] /\ id # sl[s].id
    BY <1>7, <1>9 DEF BookOK, ix2, Forgotten
  <2>2. Leads(ix[id], id, sl, ff)
    BY <1>9, <2>1 DEF BookOK
  <2>3. ix[id].slot # s
    BY <2>1, <2>2 DEF Leads
  <2> DEFINE e == ix[id]
  <2>4. Leads(e, id, sl2, ff2)
    <3>1. QueuesType(ff) /\ Separate(ff) /\ UnlinkedFrom(sl, sl2, ff[sd][p][k])
      BY DEF BookOK
    <3>2. Leads(e, id, sl, ff) /\ e.slot # ff[sd][p][k]
      BY <2>2, <2>3
    <3> HIDE DEF e
    <3> QED BY ONLY <3>1, <3>2, sd \in Sides, p \in Prices, k \in 1 .. Len(ff[sd][p]),
               RemovedAt(ff, ff2, sd, p, k), RemoveLeads
  <2> QED BY <2>1, <2>4
<1>10. BookOK(lv2, sl2, ix2, ff2)
  BY <1>1, <1>2, <1>3, <1>6, <1>8, <1>9 DEF BookOK
<1> QED BY <1>10 DEF lv2, ix2

\* An order's quantity and its level's change, nothing else.
LEMMA ChangeQty ==
  ASSUME NEW lv, NEW sl, NEW ix, NEW ff, BookOK(lv, sl, ix, ff), NEW sd \in Sides, NEW i \in 1 .. Len(lv[sd]),
         NEW l1 \in Level, l1.price = lv[sd][i].price, l1.count = lv[sd][i].count,
         l1.head = lv[sd][i].head, l1.tail = lv[sd][i].tail,
         NEW s \in Slots, sl[s] \in Slot, NEW m \in Qty,
         NEW lv2, NEW sl2, NEW ix2, NEW ff2,
         sl2 = [sl EXCEPT ![s] = [sl[s] EXCEPT !.qty = m]],
         lv2 = [lv EXCEPT ![sd] = [lv[sd] EXCEPT ![i] = l1]],
         ff2 = ff, ix2 = ix
  PROVE  BookOK(lv2, sl2, ix2, ff2)
<1> DEFINE r == [sl[s] EXCEPT !.qty = m]
<1>1. SameOrder(sl[s], r) /\ r.next = sl[s].next /\ r.prev = sl[s].prev
  BY DEF SameOrder, Slot
<1> HIDE DEF r
<1>2. sl2 = [sl EXCEPT ![s] = r]
  BY DEF r
<1>3. sl2 \in [Slots -> Slot \cup {NULL_IDX}]
  BY <1>1, <1>2 DEF BookOK, SameOrder
<1>4. \A t \in Slots : sl[t] \in Slot =>
         SameOrder(sl[t], sl2[t]) /\ sl2[t].next = sl[t].next /\ sl2[t].prev = sl[t].prev
  BY <1>1, <1>2 DEF BookOK, SameOrder
<1>5. Linked(sl2, ff2)
  <2> SUFFICES ASSUME NEW sd1 \in Sides, NEW p1 \in Prices
               PROVE  QueueLinked(sl2, ff[sd1][p1], p1)
    BY DEF Linked
  <2>1. QueueLinked(sl, ff[sd1][p1], p1)
    BY DEF BookOK, Linked
  <2>2. \A k \in 1 .. Len(ff[sd1][p1]) : ff[sd1][p1][k] \in Slots
    BY QueuedSlot DEF BookOK
  <2> SUFFICES ASSUME NEW k \in 1 .. Len(ff[sd1][p1])
               PROVE  LET q == ff[sd1][p1]
                      IN  /\ sl2[q[k]] \in Slot
                          /\ sl2[q[k]].price = p1
                          /\ sl2[q[k]].prev = IF k = 1 THEN NULL_IDX ELSE q[k - 1]
                          /\ sl2[q[k]].next = IF k = Len(q) THEN NULL_IDX ELSE q[k + 1]
    BY DEF QueueLinked
  <2> DEFINE t == ff[sd1][p1][k]
  <2>3. /\ t \in Slots /\ sl[t] \in Slot
        /\ sl[t].price = p1
        /\ sl[t].prev = IF k = 1 THEN NULL_IDX ELSE ff[sd1][p1][k - 1]
        /\ sl[t].next = IF k = Len(ff[sd1][p1]) THEN NULL_IDX ELSE ff[sd1][p1][k + 1]
    BY <2>1, <2>2 DEF QueueLinked
  <2> HIDE DEF t
  <2>4. /\ sl2[t] \in Slot /\ sl2[t].price = sl[t].price
        /\ sl2[t].next = sl[t].next /\ sl2[t].prev = sl[t].prev
    BY <1>4, <2>3 DEF SameOrder
  <2> QED BY <2>3, <2>4 DEF t
<1>6. LevelsOK(lv2, ff2)
  <2> DEFINE p == lv[sd][i].price
  <2>1. OneQueue(ff, ff2, sd, p)
    BY DEF OneQueue
  <2>2. Describes(l1, ff2[sd][p])
    <3>1. Describes(lv[sd][i], ff[sd][p])
      BY DEF BookOK, LevelsOK
    <3> HIDE DEF p
    <3> QED BY <3>1 DEF Describes
  <2> HIDE DEF p
  <2> QED BY <2>1, <2>2, UpdateLevel DEF BookOK, p
<1>7. ASSUME NEW id \in OrderIds, ix2[id] # NULL_IDX
      PROVE  Leads(ix2[id], id, sl2, ff2)
  <2>1. Leads(ix[id], id, sl, ff) /\ ix[id].slot \in Slots
    BY <1>7, EntryType DEF BookOK, Leads
  <2> DEFINE e == ix[id]
  <2> HIDE DEF e
  <2>2. Leads(e, id, sl, ff) /\ e.slot \in Slots
    BY <2>1 DEF e
  <2>3. /\ sl2[e.slot] \in Slot /\ sl2[e.slot].id = sl[e.slot].id
        /\ sl2[e.slot].price = sl[e.slot].price
    BY <1>4, <2>2 DEF Leads, SameOrder
  <2>4. Leads(e, id, sl2, ff)
    BY <2>2, <2>3 DEF Leads
  <2> QED BY <2>4 DEF e
<1> QED BY <1>3, <1>5, <1>6, <1>7 DEF BookOK

\* An order moves to the tail of its level; its index entry stays right.
LEMMA Move ==
  ASSUME NEW lv, NEW sl, NEW ix, NEW ff, BookOK(lv, sl, ix, ff),
         NEW sd \in Sides, NEW p \in Prices, NEW i, LevelAt(lv, sd, i, p),
         NEW k \in 1 .. Len(ff[sd][p]), NEW s \in Slots, s = ff[sd][p][k],
         NEW sl1, UnlinkedFrom(sl, sl1, s), NEW ff1, RemovedAt(ff, ff1, sd, p, k),
         NEW t0, t0 = IF ff1[sd][p] = <<>> THEN NULL_IDX ELSE ff1[sd][p][Len(ff1[sd][p])],
         NEW sl2 \in [Slots -> Slot \cup {NULL_IDX}], LinkedBehind(sl1, sl2, s, t0),
         SameOrder(sl[s], sl2[s]),
         NEW ff2, AppendedTo(ff1, ff2, sd, p, s),
         NEW l1 \in Level, l1.price = p, Describes(l1, ff2[sd][p])
  PROVE  BookOK([lv EXCEPT ![sd] = [lv[sd] EXCEPT ![i] = l1]], sl2, ix, ff2)
<1>1. /\ ix \in [OrderIds -> Entry \cup {NULL_IDX}]
      /\ QueuesType(ff) /\ Separate(ff) /\ Linked(sl, ff) /\ LevelsOK(lv, ff)
      /\ \A id \in OrderIds : ix[id] # NULL_IDX => Leads(ix[id], id, sl, ff)
  BY DEF BookOK
<1>2. QueuesType(ff1) /\ QueuesType(ff2)
  BY DEF RemovedAt, AppendedTo
<1>3. /\ Separate(ff1)
      /\ \A sd1 \in Sides, p1 \in Prices : \A j \in 1 .. Len(ff1[sd1][p1]) : ff1[sd1][p1][j] # s
  <2>1. /\ Separate(ff1)
        /\ \A sd1 \in Sides, p1 \in Prices : \A j \in 1 .. Len(ff1[sd1][p1]) :
              ff1[sd1][p1][j] # ff[sd][p][k]
    BY ONLY <1>1, sd \in Sides, p \in Prices, k \in 1 .. Len(ff[sd][p]),
            RemovedAt(ff, ff1, sd, p, k), RemovedPlaces
  <2> QED BY ONLY <2>1, s = ff[sd][p][k]
<1>4. Linked(sl1, ff1)
  BY <1>1, RemoveLinked
<1>5. sl[s] \in Slot /\ sl[s].price = p /\ sl2[s].price = p /\ sl2[s] \in Slot
      /\ sl2[s].id = sl[s].id
  <2>1. QueueLinked(sl, ff[sd][p], p)
    BY ONLY <1>1, sd \in Sides, p \in Prices DEF Linked
  <2>2. sl[s] \in Slot /\ sl[s].price = p
    BY ONLY <2>1, k \in 1 .. Len(ff[sd][p]), s = ff[sd][p][k] DEF QueueLinked
  <2> QED BY ONLY <2>2, SameOrder(sl[s], sl2[s]) DEF SameOrder
<1>6. Linked(sl2, ff2) /\ Separate(ff2)
  BY ONLY ZenonT(30), <1>2, <1>3, <1>4, <1>5, sd \in Sides, p \in Prices, s \in Slots,
          AppendedTo(ff1, ff2, sd, p, s), LinkedBehind(sl1, sl2, s, t0), AppendLinked,
          t0 = IF ff1[sd][p] = <<>> THEN NULL_IDX ELSE ff1[sd][p][Len(ff1[sd][p])]
<1>7. OneQueue(ff, ff2, sd, p)
  <2> SUFFICES ASSUME NEW sd1 \in Sides, NEW p1 \in Prices, sd1 # sd \/ p1 # p
               PROVE  ff2[sd1][p1] = ff[sd1][p1]
    BY DEF OneQueue
  <2>1. ff1[sd1][p1] = ff[sd1][p1]
    BY DEF RemovedAt
  <2>2. ff2[sd1][p1] = ff1[sd1][p1]
    BY DEF AppendedTo
  <2> QED BY <2>1, <2>2
<1>8. LevelsOK([lv EXCEPT ![sd] = [lv[sd] EXCEPT ![i] = l1]], ff2)
  BY <1>1, <1>7, UpdateLevel DEF LevelAt
<1>9. ASSUME NEW id \in OrderIds, ix[id] # NULL_IDX
      PROVE  Leads(ix[id], id, sl2, ff2)
  <2> DEFINE e == ix[id]
  <2>1. Leads(e, id, sl, ff)
    BY <1>1, <1>9
  <2> HIDE DEF e
  <2>2. CASE e.slot # s
    <3>1. Leads(e, id, sl1, ff1)
      <4>1. e.slot # ff[sd][p][k] /\ UnlinkedFrom(sl, sl1, ff[sd][p][k])
        BY <2>2
      <4> QED BY ONLY <1>1, <2>1, <4>1, sd \in Sides, p \in Prices, k \in 1 .. Len(ff[sd][p]),
                 RemovedAt(ff, ff1, sd, p, k), RemoveLeads
    <3> QED BY ONLY <1>2, <1>3, <3>1, sd \in Sides, p \in Prices, s \in Slots,
               AppendedTo(ff1, ff2, sd, p, s), LinkedBehind(sl1, sl2, s, t0), AppendLeads DEF e
  <2>3. CASE e.slot = s
    <3>1. e \in Entry /\ sl[s].id = id /\ \E j \in 1 .. Len(ff[e.side][p]) : ff[e.side][p][j] = s
      BY <1>5, <2>1, <2>3 DEF Leads
    <3>2. e.side \in Sides
      BY <3>1, EntryType
    <3>3. e.side = sd
      <4>1. PICK j \in 1 .. Len(ff[e.side][p]) : ff[e.side][p][j] = s
        BY <3>1
      <4> DEFINE sd1 == e.side
      <4>2. sd1 \in Sides /\ j \in 1 .. Len(ff[sd1][p]) /\ ff[sd1][p][j] = ff[sd][p][k]
        BY <3>2, <4>1
      <4> HIDE DEF sd1
      <4>3. sd1 = sd
        BY ONLY <1>1, <4>2, sd \in Sides, p \in Prices, k \in 1 .. Len(ff[sd][p]) DEF Separate
      <4> QED BY <4>3 DEF sd1
    <3>4. e = [slot |-> s, side |-> sd]
      BY <2>3, <3>1, <3>3 DEF Entry
    <3>5. Leads([slot |-> s, side |-> sd], sl2[s].id, sl2, ff2)
      BY <1>2, <1>5, NewLeads
    <3> QED BY <1>5, <3>1, <3>4, <3>5 DEF e
  <2> QED BY <2>2, <2>3 DEF e
<1> QED BY <1>1, <1>2, <1>6, <1>8, <1>9 DEF BookOK

\* One side's array once it has a level for p.
Opened(sd, lv, p) == IF find_level(lv, p) = 0 THEN insert_level(sd, lv, p) ELSE lv

\* The level an order comes to rest at: the one that is there, or a new one.
LEMMA RestingLevel ==
  ASSUME NEW lv, NEW ff, LevelsOK(lv, ff), NEW sd \in Sides, NEW p \in Prices,
         NEW w, w = Opened(sd, lv[sd], p),
         NEW i, i = find_level(w, p)
  PROVE  /\ i \in 1 .. Len(w)
         /\ w[i] \in Level /\ w[i].price = p
         /\ find_level(lv[sd], p) = 0 => ff[sd][p] = <<>> /\ w[i] = NewLevel(p)
         /\ find_level(lv[sd], p) # 0 => Describes(w[i], ff[sd][p])
<1>1. lv[sd] \in Seq(Level) /\ SortedSeq(sd, lv[sd])
  BY DEF LevelsOK
<1>2. CASE find_level(lv[sd], p) = 0
  <2>1. \A j \in 1 .. Len(lv[sd]) : lv[sd][j].price # p
    BY <1>1, <1>2, FindLevel
  <2>2. i \in 1 .. Len(w) /\ w[i] = NewLevel(p)
    BY <1>1, <1>2, <2>1, InsertLevel DEF Opened
  <2>3. ff[sd][p] = <<>>
    BY <2>1 DEF LevelsOK
  <2>4. NewLevel(p).price = p
    BY DEF NewLevel
  <2> QED BY <1>2, <2>2, <2>3, <2>4, NewLevelType
<1>3. CASE find_level(lv[sd], p) # 0
  <2>1. w = lv[sd]
    BY <1>3 DEF Opened
  <2>2. i \in 0 .. Len(lv[sd]) /\ i # 0 /\ lv[sd][i].price = p
    BY <1>1, <1>3, <2>1, FindLevel
  <2>3. Len(lv[sd]) \in Nat
    BY <1>1, LenProperties
  <2>4. i \in 1 .. Len(lv[sd])
    BY <2>2, <2>3
  <2>5. lv[sd][i] \in Level
    BY <1>1, <2>4, LevelPrice
  <2>6. Describes(lv[sd][i], ff[sd][p])
    BY <2>2, <2>4 DEF LevelsOK
  <2> QED BY <1>3, <2>1, <2>2, <2>4, <2>5, <2>6
<1> QED BY <1>2, <1>3

\* Price p is on the right side of all prices of the side opposite to sd.
Clear(lv, sd, p) ==
    \A j \in 1 .. Len(lv[Opposite(sd)]) :
        IF sd = "Buy" THEN p < lv["Sell"][j].price ELSE lv["Buy"][j].price < p

\* Putting the order's level in place keeps the arrays in order, provided its
\* price is on the right side of the other side's prices.
LEMMA RestLevels ==
  ASSUME NEW lv, NEW ff, LevelsOK(lv, ff), NEW sd \in Sides, NEW p \in Prices,
         Clear(lv, sd, p),
         NEW w, w = Opened(sd, lv[sd], p),
         NEW i, i = find_level(w, p), NEW l1 \in Level, l1.price = p,
         NEW ff2, OneQueue(ff, ff2, sd, p), Describes(l1, ff2[sd][p])
  PROVE  LevelsOK([lv EXCEPT ![sd] = [w EXCEPT ![i] = l1]], ff2)
<1>1. lv[sd] \in Seq(Level) /\ SortedSeq(sd, lv[sd])
  BY DEF LevelsOK
<1>2. CASE find_level(lv[sd], p) = 0
  <2>1. \A j \in 1 .. Len(lv[sd]) : lv[sd][j].price # p
    BY <1>1, <1>2, FindLevel
  <2>2. w = insert_level(sd, lv[sd], p)
    BY <1>2 DEF Opened
  <2>3. \A j \in 1 .. Len(lv[Opposite(sd)]) :
           IF sd = "Buy" THEN p < lv["Sell"][j].price ELSE lv["Buy"][j].price < p
    BY DEF Clear
  <2> QED BY <2>1, <2>2, <2>3, CreateLevel
<1>3. CASE find_level(lv[sd], p) # 0
  <2>1. w = lv[sd] /\ i \in 1 .. Len(w) /\ w[i].price = p
    BY <1>3, RestingLevel DEF Opened
  <2>2. LevelsOK([lv EXCEPT ![sd] = [lv[sd] EXCEPT ![i] = l1]], ff2)
    BY <2>1, UpdateLevel
  <2> QED BY <2>1, <2>2
<1> QED BY <1>2, <1>3

\* An order comes to rest in a free slot.
LEMMA Rest ==
  ASSUME NEW lv, NEW sl, NEW ix, NEW ff, BookOK(lv, sl, ix, ff),
         NEW sd \in Sides, NEW p \in Prices, NEW s \in Slots, sl[s] = NULL_IDX,
         NEW ff2, AppendedTo(ff, ff2, sd, p, s),
         NEW t0, t0 = IF ff[sd][p] = <<>> THEN NULL_IDX ELSE ff[sd][p][Len(ff[sd][p])],
         NEW sl2 \in [Slots -> Slot \cup {NULL_IDX}], LinkedBehind(sl, sl2, s, t0),
         sl2[s].price = p,
         NEW id0, id0 = sl2[s].id,
         NEW lv2, LevelsOK(lv2, ff2)
  PROVE  BookOK(lv2, sl2, [ix EXCEPT ![id0] = [slot |-> s, side |-> sd]], ff2)
<1>1. /\ ix \in [OrderIds -> Entry \cup {NULL_IDX}]
      /\ QueuesType(ff) /\ Separate(ff) /\ Linked(sl, ff)
      /\ \A id \in OrderIds : ix[id] # NULL_IDX => Leads(ix[id], id, sl, ff)
  BY DEF BookOK
<1>2. QueuesType(ff2)
  BY DEF AppendedTo
<1>3. \A sd1 \in Sides, p1 \in Prices : \A j \in 1 .. Len(ff[sd1][p1]) : ff[sd1][p1][j] # s
  <2> SUFFICES ASSUME NEW sd1 \in Sides, NEW p1 \in Prices, NEW j \in 1 .. Len(ff[sd1][p1])
               PROVE  ff[sd1][p1][j] # s
    OBVIOUS
  <2>1. sl[ff[sd1][p1][j]] \in Slot
    BY <1>1 DEF Linked, QueueLinked
  <2> QED BY <2>1, SlotType
<1>4. Linked(sl2, ff2) /\ Separate(ff2)
  BY <1>1, <1>3, AppendLinked
<1>5. sl2[s] \in Slot /\ id0 \in OrderIds
  BY SlotType DEF LinkedBehind
<1> DEFINE e0 == [slot |-> s, side |-> sd]
<1>6. e0 \in Entry
  BY DEF Entry
<1>7. Leads(e0, id0, sl2, ff2)
  BY <1>1, <1>5, NewLeads
<1> HIDE DEF e0
<1> DEFINE ix2 == [ix EXCEPT ![id0] = e0]
<1>8. /\ ix2 \in [OrderIds -> Entry \cup {NULL_IDX}]
      /\ ix2[id0] = e0
      /\ \A id \in OrderIds : id # id0 => ix2[id] = ix[id]
  BY <1>1, <1>5, <1>6
<1> HIDE DEF ix2
<1>9. ASSUME NEW id \in OrderIds, ix2[id] # NULL_IDX
      PROVE  Leads(ix2[id], id, sl2, ff2)
  <2>1. CASE id = id0
    BY <1>7, <1>8, <2>1
  <2>2. CASE id # id0
    <3>1. Leads(ix[id], id, sl, ff) /\ ix2[id] = ix[id]
      BY <1>1, <1>8, <1>9, <2>2
    <3> DEFINE e == ix[id]
    <3> HIDE DEF e
    <3>2. Leads(e, id, sl, ff) /\ ix2[id] = e
      BY <3>1 DEF e
    <3>3. Leads(e, id, sl2, ff2)
      BY ONLY <1>1, <1>3, <3>2, sd \in Sides, p \in Prices, s \in Slots,
              AppendedTo(ff, ff2, sd, p, s), LinkedBehind(sl, sl2, s, t0), AppendLeads
    <3> QED BY <3>2, <3>3
  <2> QED BY <2>1, <2>2
<1>10. BookOK(lv2, sl2, ix2, ff2)
  BY <1>2, <1>4, <1>8, <1>9 DEF BookOK
<1> QED BY <1>10 DEF ix2, e0

-----------------------------------------------------------------------------
(* The operations.                                                         *)

\* Levels l and l0 have the same price and the same list.
SameList(l0, l) == l \in Level /\ l.price = l0.price /\ l.count = l0.count
                   /\ l.head = l0.head /\ l.tail = l0.tail

\* The index has an entry for id: slot s, on side sd, which is priced p.
EntryAt(sl, ix, id, sd, s, p) ==
    ix[id] # NULL_IDX /\ sd = ix[id].side /\ s = ix[id].slot /\ p = sl[s].price

\* An index entry leads cancel_order and modify_order to the order's level and
\* to its place in the queue; their "level gone" branches are not taken.
LEMMA Located ==
  ASSUME NEW lv, NEW sl, NEW ix, NEW ff, BookOK(lv, sl, ix, ff),
         NEW id \in OrderIds, NEW sd, NEW s, NEW p, EntryAt(sl, ix, id, sd, s, p)
  PROVE  /\ sd \in Sides /\ s \in Slots /\ p \in Prices
         /\ sl[s] \in Slot /\ sl[s].id = id
         /\ LevelAt(lv, sd, find_level(lv[sd], p), p)
         /\ find_level(lv[sd], p) # 0
         /\ Position(ff[sd][p], s) \in 1 .. Len(ff[sd][p])
         /\ ff[sd][p][Position(ff[sd][p], s)] = s
<1> DEFINE q == ff[sd][p]
           w == lv[sd]
           i == find_level(w, p)
<1>1. Leads(ix[id], id, sl, ff)
  BY DEF BookOK, EntryAt
<1>2. sd \in Sides /\ s \in Slots /\ sl[s] \in Slot /\ sl[s].id = id /\ p = sl[s].price
  BY <1>1, EntryType DEF Leads, EntryAt
<1>3. p \in Prices
  BY <1>2, SlotType
<1>4. \E k \in 1 .. Len(q) : q[k] = s
  BY <1>1 DEF Leads, EntryAt
<1>5. Position(q, s) \in 1 .. Len(q) /\ q[Position(q, s)] = s
  BY <1>4 DEF Position
<1>6. q # <<>>
  BY <1>4, EmptySeq
<1>7. /\ w \in Seq(Level) /\ SortedSeq(sd, w)
      /\ \E j \in 1 .. Len(w) : w[j].price = p
  BY <1>2, <1>3, <1>6 DEF BookOK, LevelsOK
<1> HIDE DEF w
<1>8. PICK j \in 1 .. Len(w) : w[j].price = p
  BY <1>7
<1>9. i = j
  BY ONLY <1>2, <1>3, <1>7, <1>8, FindLevel
<1>10. Len(w) \in Nat
  BY <1>7, LenProperties
<1>11. i \in 1 .. Len(w) /\ p = w[i].price /\ i # 0
  BY ONLY <1>8, <1>9, <1>10
<1>12. LevelAt(lv, sd, i, p)
  BY <1>11 DEF LevelAt, w
<1> QED BY <1>2, <1>3, <1>5, <1>11, <1>12 DEF w

\* The queue that a level stands for.
LEMMA LevelQueue ==
  ASSUME NEW lv, NEW sl, NEW ix, NEW ff, BookOK(lv, sl, ix, ff),
         NEW sd \in Sides, NEW p \in Prices, NEW i, LevelAt(lv, sd, i, p),
         NEW l, SameList(lv[sd][i], l)
  PROVE  /\ QueuesType(ff)
         /\ ff[sd][p] \in Seq(Slots) /\ Len(ff[sd][p]) \in Nat
         /\ QueueLinked(sl, ff[sd][p], p)
         /\ l \in Level /\ l.price = p /\ Describes(l, ff[sd][p])
         /\ sl \in [Slots -> Slot \cup {NULL_IDX}]
<1>1. QueuesType(ff) /\ QueueLinked(sl, ff[sd][p], p) /\ sl \in [Slots -> Slot \cup {NULL_IDX}]
  BY DEF BookOK, Linked
<1>2. ff[sd][p] \in Seq(Slots) /\ Len(ff[sd][p]) \in Nat
  BY <1>1, QueuedSlot
<1>3. Describes(lv[sd][i], ff[sd][p])
  BY DEF BookOK, LevelsOK, LevelAt
<1>4. l \in Level /\ l.price = p /\ Describes(l, ff[sd][p])
  BY <1>3 DEF SameList, LevelAt, Describes
<1> QED BY <1>1, <1>2, <1>4

\* try_match's dequeue of a filled order.
LEMMA Dequeued ==
  ASSUME NEW lv, NEW sl, NEW ix, NEW ff, BookOK(lv, sl, ix, ff),
         NEW sd \in Sides, NEW p \in Prices, LevelAt(lv, sd, 1, p), NEW n \in Int,
         NEW l, l = lv[sd][1], NEW l1, l1 = DequeuedLevel(sl, l, n)
  PROVE  BookOK(Shrunk(lv, sd, 1, l1), DequeuedSlots(sl, l.head), Forgotten(ix, sl[l.head].id),
                [ff EXCEPT ![sd][p] = Tail(ff[sd][p])])
<1> DEFINE q == ff[sd][p]
           ff2 == [ff EXCEPT ![sd][p] = Tail(q)]
           q2 == ff2[sd][p]
<1>1. SameList(lv[sd][1], l)
  <2>1. lv[sd] \in Seq(Level) /\ 1 \in 1 .. Len(lv[sd])
    BY DEF BookOK, LevelsOK, LevelAt
  <2>2. l \in Level
    BY <2>1, LevelPrice
  <2> QED BY <2>2 DEF SameList
<1>2. /\ QueuesType(ff) /\ q \in Seq(Slots) /\ Len(q) \in Nat /\ QueueLinked(sl, q, p)
      /\ l \in Level /\ l.price = p /\ Describes(l, q)
      /\ sl \in [Slots -> Slot \cup {NULL_IDX}]
  BY SMTT(30), <1>1, LevelQueue
<1>3. q # <<>> /\ Len(q) >= 1 /\ 1 \in 1 .. Len(q) /\ l.head = q[1]
  BY <1>2, EmptySeq DEF Describes
<1>4. RemovedAt(ff, ff2, sd, p, 1)
  BY <1>2, <1>3, QueueEdits
<1> HIDE DEF ff2
<1>5. /\ q2 \in Seq(Slots) /\ Len(q2) = Len(q) - 1
      /\ \A j \in 1 .. Len(q) - 1 : q2[j] = q[j + 1]
  <2>1. q2 \in Seq(Slots)
    BY <1>4, QueuedSlot DEF RemovedAt
  <2>2. \A j \in 1 .. Len(q) - 1 : ~(j < 1)
    BY <1>2
  <2> QED BY <1>4, <2>1, <2>2 DEF RemovedAt
<1>6. /\ DequeuedSlots(sl, l.head) \in [Slots -> Slot \cup {NULL_IDX}]
      /\ UnlinkedFrom(sl, DequeuedSlots(sl, l.head), l.head)
  BY <1>2, <1>3, DequeuedSlotsRemoves
<1> HIDE DEF q, q2
<1>7. /\ l1 \in Level /\ l1.price = p /\ l1.count = Len(q2)
      /\ Len(q2) # 0 => l1.head = q2[1] /\ l1.tail = q2[Len(q2)]
  BY SMTT(30), <1>2, <1>5, DequeuedLevelDescribes
<1>8. /\ l.head = ff[sd][p][1] /\ 1 \in 1 .. Len(ff[sd][p])
      /\ Fits(l1, ff2[sd][p])
  BY <1>3, <1>7 DEF q, q2, Fits
<1>9. BookOK(Shrunk(lv, sd, 1, l1), DequeuedSlots(sl, l.head), Forgotten(ix, sl[l.head].id), ff2)
  BY ONLY <1>4, <1>6, <1>7, <1>8, BookOK(lv, sl, ix, ff), sd \in Sides, p \in Prices,
          LevelAt(lv, sd, 1, p), Leave
<1> QED BY <1>9 DEF q, ff2

\* remove_order_from_level, for cancel_order and for modify_order to zero: the
\* level l may have had its quantity changed first.
LEMMA Removed ==
  ASSUME NEW lv, NEW sl, NEW ix, NEW ff, BookOK(lv, sl, ix, ff),
         NEW sd \in Sides, NEW p \in Prices, NEW i, LevelAt(lv, sd, i, p),
         NEW k \in 1 .. Len(ff[sd][p]), NEW s \in Slots, s = ff[sd][p][k],
         NEW l, SameList(lv[sd][i], l), NEW n \in Int,
         NEW l1, l1 = RemovedLevel(sl, l, s, n)
  PROVE  BookOK(Shrunk(lv, sd, i, l1), [UnlinkSlots(sl, s) EXCEPT ![s] = NULL_IDX],
                Forgotten(ix, sl[s].id), [ff EXCEPT ![sd][p] = RemoveAt(ff[sd][p], k)])
<1> DEFINE q == ff[sd][p]
           ff2 == [ff EXCEPT ![sd][p] = RemoveAt(q, k)]
           q2 == ff2[sd][p]
           sl2 == [UnlinkSlots(sl, s) EXCEPT ![s] = NULL_IDX]
<1>1. /\ QueuesType(ff) /\ q \in Seq(Slots) /\ Len(q) \in Nat /\ QueueLinked(sl, q, p)
      /\ l \in Level /\ l.price = p /\ Describes(l, q)
      /\ sl \in [Slots -> Slot \cup {NULL_IDX}]
  BY ONLY SMTT(30), BookOK(lv, sl, ix, ff), sd \in Sides, p \in Prices, LevelAt(lv, sd, i, p),
          SameList(lv[sd][i], l), LevelQueue
<1>2. RemovedAt(ff, ff2, sd, p, k)
  BY <1>1, QueueEdits
<1> HIDE DEF ff2
<1>3. /\ q2 \in Seq(Slots) /\ Len(q2) = Len(q) - 1
      /\ \A j \in 1 .. Len(q) - 1 : q2[j] = IF j < k THEN q[j] ELSE q[j + 1]
  BY <1>2, QueuedSlot DEF RemovedAt
<1>4. /\ UnlinkSlots(sl, s) \in [Slots -> Slot \cup {NULL_IDX}]
      /\ UnlinkedFrom(sl, UnlinkSlots(sl, s), s)
  BY <1>1, UnlinkSlotsRemoves
<1>5. sl2 \in [Slots -> Slot \cup {NULL_IDX}] /\ UnlinkedFrom(sl, sl2, s)
  <2> DEFINE u == UnlinkSlots(sl, s)
  <2>1. u \in [Slots -> Slot \cup {NULL_IDX}] /\ UnlinkedFrom(sl, u, s)
    BY <1>4
  <2> HIDE DEF u
  <2>2. /\ [u EXCEPT ![s] = NULL_IDX] \in [Slots -> Slot \cup {NULL_IDX}]
        /\ \A t \in Slots \ {s} : [u EXCEPT ![s] = NULL_IDX][t] = u[t]
    BY <2>1
  <2>3. UnlinkedFrom(sl, [u EXCEPT ![s] = NULL_IDX], s)
    BY <2>1, <2>2 DEF UnlinkedFrom
  <2> QED BY <2>2, <2>3 DEF u
<1>6. k \in 1 .. Len(q) /\ s = q[k]
  OBVIOUS
<1> HIDE DEF q, q2
<1>7. /\ l1 \in Level /\ l1.price = p /\ l1.count = Len(q2)
      /\ Len(q2) # 0 => l1.head = q2[1] /\ l1.tail = q2[Len(q2)]
  <2> DEFINE u == UnlinkLevel(sl, l, s)
  <2>1. /\ u \in Level /\ u.price = p /\ u.count = l.count
        /\ Len(q2) # 0 => u.head = q2[1] /\ u.tail = q2[Len(q2)]
    <3>1. /\ UnlinkLevel(sl, l, s) \in Level
          /\ UnlinkLevel(sl, l, s).price = l.price
          /\ UnlinkLevel(sl, l, s).count = l.count
          /\ Len(q2) # 0 => /\ UnlinkLevel(sl, l, s).head = q2[1]
                            /\ UnlinkLevel(sl, l, s).tail = q2[Len(q2)]
      <4>1. Without(q, k, q2)
        BY <1>3 DEF Without
      <4> QED BY ONLY <1>1, <1>3, <1>6, <4>1, UnlinkLevelDescribes
    <3> QED BY ONLY <1>1, <3>1
  <2> HIDE DEF u
  <2> DEFINE m == (u.qty - n) % QtyMod
             c == u.count - 1
  <2>2. l1 = [u EXCEPT !.qty = m, !.count = c]
    BY DEF u, RemovedLevel
  <2>3. u.qty - n \in Int
    BY <2>1, TypesAssumption DEF Level, Qty
  <2>4. m \in Qty
    BY <2>3, ModType
  <2>5. c = Len(q2) /\ Len(q2) \in Nat
    BY <1>1, <1>3, <2>1, LenProperties DEF Describes
  <2> HIDE DEF m, c
  <2>6. /\ l1 \in Level /\ l1.price = u.price /\ l1.count = c
        /\ l1.head = u.head /\ l1.tail = u.tail
    BY ONLY <2>1, <2>2, <2>4, <2>5 DEF Level
  <2> QED BY <2>1, <2>5, <2>6
<1>8. Fits(l1, ff2[sd][p])
  BY <1>7 DEF q2, Fits
<1> HIDE DEF sl2
<1>9. BookOK(Shrunk(lv, sd, i, l1), sl2, Forgotten(ix, sl[s].id), ff2)
  BY ONLY <1>2, <1>5, <1>7, <1>8, BookOK(lv, sl, ix, ff), sd \in Sides, p \in Prices,
          LevelAt(lv, sd, i, p), k \in 1 .. Len(ff[sd][p]), s = ff[sd][p][k], Leave
<1> QED BY <1>9 DEF q, sl2, ff2

\* modify_order to more quantity: unlink, then append at the tail.
LEMMA Moved ==
  ASSUME NEW lv, NEW sl, NEW ix, NEW ff, BookOK(lv, sl, ix, ff),
         NEW sd \in Sides, NEW p \in Prices, NEW i, LevelAt(lv, sd, i, p),
         NEW k \in 1 .. Len(ff[sd][p]), NEW s \in Slots, s = ff[sd][p][k],
         SameList(lv[sd][i], lv[sd][i]), NEW m \in Qty, NEW n \in Int,
         NEW l, l = UnlinkLevel(sl, lv[sd][i], s),
         NEW l1, l1 = RequeuedLevel(l, s, n)
  PROVE  BookOK([lv EXCEPT ![sd] = [lv[sd] EXCEPT ![i] = l1]],
                AppendSlots(UnlinkSlots(sl, s), l, s, [sl[s] EXCEPT !.qty = m]), ix,
                [ff EXCEPT ![sd][p] = Append(RemoveAt(ff[sd][p], k), s)])
<1> DEFINE q == ff[sd][p]
           ff1 == [ff EXCEPT ![sd][p] = RemoveAt(q, k)]
           q1 == ff1[sd][p]
           ff2 == [ff1 EXCEPT ![sd][p] = Append(q1, s)]
           q2 == ff2[sd][p]
           sl1 == UnlinkSlots(sl, s)
           r == [sl[s] EXCEPT !.qty = m]
           sl2 == AppendSlots(sl1, l, s, r)
           l0 == lv[sd][i]
<1>0. SameList(lv[sd][i], l0)
  OBVIOUS
<1> HIDE DEF l0
<1>1. /\ QueuesType(ff) /\ q \in Seq(Slots) /\ Len(q) \in Nat /\ QueueLinked(sl, q, p)
      /\ l0 \in Level /\ l0.price = p /\ Describes(l0, q)
      /\ sl \in [Slots -> Slot \cup {NULL_IDX}]
  <2>1. /\ QueuesType(ff) /\ ff[sd][p] \in Seq(Slots) /\ Len(ff[sd][p]) \in Nat
        /\ QueueLinked(sl, ff[sd][p], p)
        /\ l0 \in Level /\ l0.price = p /\ Describes(l0, ff[sd][p])
        /\ sl \in [Slots -> Slot \cup {NULL_IDX}]
    <3> HIDE DEF q, ff1, q1, ff2, q2, sl1, r, sl2
    <3> QED BY ONLY SMTT(30), <1>0, BookOK(lv, sl, ix, ff), sd \in Sides, p \in Prices,
                    LevelAt(lv, sd, i, p), LevelQueue
  <2> QED BY ONLY <2>1
<1>2. RemovedAt(ff, ff1, sd, p, k)
  BY <1>1, QueueEdits
<1>3. ff2 = [ff EXCEPT ![sd][p] = Append(RemoveAt(q, k), s)]
  <2>1. q1 = RemoveAt(q, k)
    BY <1>1 DEF QueuesType
  <2> HIDE DEF q1, q
  <2> QED BY <1>1, <2>1 DEF QueuesType
<1> HIDE DEF ff1
<1>4. QueuesType(ff1)
  BY <1>2 DEF RemovedAt
<1>5. AppendedTo(ff1, ff2, sd, p, s)
  BY <1>4, QueueEdits
<1> HIDE DEF ff2
<1>6. /\ q1 \in Seq(Slots) /\ Len(q1) = Len(q) - 1
      /\ \A j \in 1 .. Len(q) - 1 : q1[j] = IF j < k THEN q[j] ELSE q[j + 1]
  BY <1>2, QueuedSlot DEF RemovedAt
<1>7. /\ q2 \in Seq(Slots) /\ Len(q2) = Len(q1) + 1
      /\ \A j \in 1 .. Len(q1) : q2[j] = q1[j]
      /\ q2[Len(q1) + 1] = s
  BY <1>5, QueuedSlot DEF AppendedTo
<1>8. k \in 1 .. Len(q) /\ s = q[k]
  OBVIOUS
<1>9. \A j \in 1 .. Len(q1) : q1[j] # s
  <2>1. \A j \in 1 .. Len(q1) : q1[j] # ff[sd][p][k]
    <3>1. QueuesType(ff) /\ Separate(ff)
      BY ONLY BookOK(lv, sl, ix, ff) DEF BookOK
    <3> QED BY ONLY SMTT(30), <1>2, <3>1, sd \in Sides, p \in Prices,
                    k \in 1 .. Len(ff[sd][p]), RemovedPlaces
  <2> QED BY <2>1
<1> HIDE DEF q, q1, q2
<1>10. /\ sl1 \in [Slots -> Slot \cup {NULL_IDX}]
       /\ UnlinkedFrom(sl, sl1, s)
  BY <1>1, <1>8, UnlinkSlotsRemoves
<1> HIDE DEF sl1
<1>11. /\ l \in Level /\ l.price = p /\ l.count = Len(q)
       /\ Len(q1) = 0 => l.head = NULL_IDX
       /\ Len(q1) # 0 => l.head = q1[1] /\ l.tail = q1[Len(q1)]
  <2>1. /\ UnlinkLevel(sl, l0, s) \in Level
        /\ UnlinkLevel(sl, l0, s).price = l0.price
        /\ UnlinkLevel(sl, l0, s).count = l0.count
        /\ Len(q1) = 0 => UnlinkLevel(sl, l0, s).head = NULL_IDX
        /\ Len(q1) # 0 => /\ UnlinkLevel(sl, l0, s).head = q1[1]
                          /\ UnlinkLevel(sl, l0, s).tail = q1[Len(q1)]
    <3>1. Without(q, k, q1)
      BY <1>6 DEF Without
    <3> QED BY ONLY <1>1, <1>6, <1>8, <3>1, UnlinkLevelDescribes
  <2>2. l = UnlinkLevel(sl, l0, s)
    BY DEF l0
  <2> QED BY ONLY <1>1, <2>1, <2>2 DEF Describes
<1>12. q1 = <<>> <=> Len(q1) = 0
  BY <1>6, EmptySeq
<1>13. l1 \in Level /\ l1.price = p /\ Describes(l1, q2)
  <2> DEFINE u == AppendLevel(l, s)
  <2>1. /\ u \in Level /\ u.price = l.price /\ u.count = l.count /\ q2 # <<>>
        /\ u.head = q2[1] /\ u.tail = q2[Len(q2)]
    BY ONLY <1>6, <1>7, <1>11, <1>12, s \in Slots, AppendLevelDescribes
  <2> HIDE DEF u
  <2> DEFINE y == (u.qty + n) % QtyMod
  <2>5. u.qty + n \in Int
    BY <2>1, TypesAssumption DEF Level, Qty
  <2>2. l1 = [u EXCEPT !.qty = y] /\ y \in Qty
    BY <2>5, ModType DEF u, RequeuedLevel
  <2> HIDE DEF y
  <2>3. /\ l1 \in Level /\ l1.price = u.price /\ l1.count = u.count
        /\ l1.head = u.head /\ l1.tail = u.tail
    BY ONLY <2>1, <2>2 DEF Level
  <2>4. Len(q2) = Len(q)
    BY SMTT(30), <1>1, <1>6, <1>7
  <2> QED BY ONLY <1>11, <2>1, <2>3, <2>4 DEF Describes
<1> DEFINE t0 == IF l.head = NULL_IDX THEN NULL_IDX ELSE l.tail
<1>14. sl[s] \in Slot
  BY <1>1, <1>8 DEF QueueLinked
<1>15. r \in Slot /\ SameOrder(sl[s], r)
  BY <1>14 DEF SameOrder, Slot
<1> HIDE DEF r
<1>16. Len(q1) # 0 => l.tail \in Slots /\ l.tail # s /\ l.head # NULL_IDX
                      /\ sl[l.tail] \in Slot /\ sl1[l.tail] \in Slot
  <2> HAVE Len(q1) # 0
  <2>1. Len(q1) \in Nat
    BY <1>6, LenProperties
  <2>2. 1 \in 1 .. Len(q1) /\ Len(q1) \in 1 .. Len(q1)
    BY <2>1
  <2>3. l.tail \in Slots /\ l.head \in Slots /\ l.tail # s
    BY <1>6, <1>9, <1>11, <2>2, ElementOfSeq
  <2>4. sl[l.tail] \in Slot
    <3>1. PICK j \in 1 .. Len(q) : q[j] = l.tail
      <4>1. q1[Len(q1)] = IF Len(q1) < k THEN q[Len(q1)] ELSE q[Len(q1) + 1]
        BY <1>6, <2>2
      <4>2. Len(q1) \in 1 .. Len(q) /\ Len(q1) + 1 \in 1 .. Len(q)
        <5>1. Len(q) \in Nat /\ Len(q1) = Len(q) - 1
          BY ONLY <1>1, <1>6
        <5> QED BY ONLY <2>1, <5>1, Len(q1) # 0
      <4> QED BY <1>11, <4>1, <4>2
    <3> QED BY <1>1, <3>1 DEF QueueLinked
  <2>5. sl1[l.tail] \in Slot
    BY <1>10, <2>3, <2>4 DEF UnlinkedFrom, SameOrder
  <2> QED BY <2>3, <2>4, <2>5, RecordsAssumption
<1>17. /\ sl2 \in [Slots -> Slot \cup {NULL_IDX}]
       /\ LinkedBehind(sl1, sl2, s, t0)
       /\ SameOrder(r, sl2[s])
  BY ONLY <1>10, <1>11, <1>15, <1>16, s \in Slots, AppendSlotsLinks
<1> HIDE DEF sl2
<1>18. SameOrder(sl[s], sl2[s])
  BY <1>15, <1>17 DEF SameOrder
<1>19. t0 = IF q1 = <<>> THEN NULL_IDX ELSE q1[Len(q1)]
  BY <1>11, <1>12, <1>16
<1> HIDE DEF t0
<1>20. BookOK([lv EXCEPT ![sd] = [lv[sd] EXCEPT ![i] = l1]], sl2, ix, ff2)
  BY ONLY <1>2, <1>5, <1>10, <1>13, <1>17, <1>18, <1>19, BookOK(lv, sl, ix, ff), sd \in Sides,
          p \in Prices, LevelAt(lv, sd, i, p), k \in 1 .. Len(ff[sd][p]), s = ff[sd][p][k],
          s \in Slots, Move DEF q1, q2
<1> QED BY <1>3, <1>20 DEF q, sl2, sl1, r

\* When the best opposite price does not cross, none does.
LEMMA BestDecides ==
  ASSUME NEW lv, NEW ff, LevelsOK(lv, ff), NEW sd \in Sides, NEW p \in Prices,
         NEW w, w = lv[Opposite(sd)],
         w # <<>> => IF sd = "Buy" THEN p < w[1].price ELSE w[1].price < p
  PROVE  Clear(lv, sd, p)
<1>1. Opposite(sd) \in Sides
  BY DEF Opposite, Sides
<1>2. w \in Seq(Level) /\ SortedSeq(Opposite(sd), w)
  BY <1>1 DEF LevelsOK
<1>3. Len(w) \in Nat /\ p \in Int /\ (w = <<>> <=> Len(w) = 0)
      /\ \A j \in 1 .. Len(w) : w[j].price \in Int
  BY <1>2, LenProperties, EmptySeq, LevelPrice, TypesAssumption
<1>4. ASSUME NEW j \in 1 .. Len(w)
      PROVE  IF sd = "Buy" THEN p < w[j].price ELSE w[j].price < p
  <2>1. w # <<>> /\ 1 \in 1 .. Len(w)
    BY <1>3
  <2>2. j # 1 => Better(Opposite(sd), w[1].price, w[j].price)
    BY <1>2, <1>3, <2>1 DEF SortedSeq
  <2>3. CASE j = 1
    BY <2>1, <2>3
  <2>4. CASE j # 1
    <3>1. IF sd = "Buy" THEN w[1].price < w[j].price ELSE w[1].price > w[j].price
      BY <2>2, <2>4 DEF Better, Opposite, Sides
    <3>2. IF sd = "Buy" THEN p < w[1].price ELSE w[1].price < p
      BY <2>1
    <3> QED BY ONLY <1>3, <2>1, <3>1, <3>2, j \in 1 .. Len(w)
  <2> QED BY <2>3, <2>4
<1>5. sd = "Buy" => w = lv["Sell"]
  BY DEF Opposite
<1>6. sd # "Buy" => w = lv["Buy"]
  BY DEF Opposite
<1>7. CASE sd = "Buy"
  BY <1>4, <1>5, <1>7 DEF Clear
<1>8. CASE sd # "Buy"
  BY <1>4, <1>6, <1>8 DEF Clear
<1> QED BY <1>7, <1>8

\* add_order books a remainder, at a level that is there or at a new one.
LEMMA Rested ==
  ASSUME NEW lv, NEW sl, NEW ix, NEW ff, BookOK(lv, sl, ix, ff),
         NEW sd \in Sides, NEW p \in Prices, NEW s \in Slots, sl[s] = NULL_IDX,
         Clear(lv, sd, p), NEW r \in Slot, r.price = p,
         NEW w, w = Opened(sd, lv[sd], p),
         NEW i, i = find_level(w, p), NEW l, l = w[i], NEW n \in Int,
         NEW l1, l1 = BookedLevel(l, s, n)
  PROVE  BookOK([lv EXCEPT ![sd] = [w EXCEPT ![i] = l1]], AppendSlots(sl, l, s, r),
                [ix EXCEPT ![r.id] = [slot |-> s, side |-> sd]],
                [ff EXCEPT ![sd][p] = Append(ff[sd][p], s)])
<1> DEFINE q == ff[sd][p]
           ff2 == [ff EXCEPT ![sd][p] = Append(q, s)]
           q2 == ff2[sd][p]
           sl2 == AppendSlots(sl, l, s, r)
           t0 == IF l.head = NULL_IDX THEN NULL_IDX ELSE l.tail
           lv2 == [lv EXCEPT ![sd] = [w EXCEPT ![i] = l1]]
<1>1. /\ QueuesType(ff) /\ q \in Seq(Slots) /\ Len(q) \in Nat /\ QueueLinked(sl, q, p)
      /\ sl \in [Slots -> Slot \cup {NULL_IDX}] /\ LevelsOK(lv, ff)
  BY QueuedSlot DEF BookOK, Linked
<1>2. /\ i \in 1 .. Len(w) /\ l \in Level /\ l.price = p
      /\ find_level(lv[sd], p) = 0 => q = <<>> /\ l = NewLevel(p)
      /\ find_level(lv[sd], p) # 0 => Describes(l, q)
  <2>1. LevelsOK(lv, ff)
    BY ONLY <1>1
  <2>2. /\ i \in 1 .. Len(w)
        /\ w[i] \in Level /\ w[i].price = p
        /\ find_level(lv[sd], p) = 0 => ff[sd][p] = <<>> /\ w[i] = NewLevel(p)
        /\ find_level(lv[sd], p) # 0 => Describes(w[i], ff[sd][p])
    BY ONLY <2>1, sd \in Sides, p \in Prices, w = Opened(sd, lv[sd], p),
            i = find_level(w, p), RestingLevel
  <2> QED BY ONLY <2>2, l = w[i]
<1>3. /\ l.count = Len(q)
      /\ q = <<>> => l.head = NULL_IDX
      /\ q # <<>> => l.head = q[1] /\ l.tail = q[Len(q)]
  <2>1. CASE find_level(lv[sd], p) = 0
    <3>1. q = <<>> /\ Len(q) = 0
      BY <1>2, <2>1, EmptySeq
    <3>2. l.count = 0 /\ l.head = NULL_IDX
      BY ONLY <1>2, <2>1 DEF NewLevel
    <3> QED BY ONLY <3>1, <3>2
  <2>2. CASE find_level(lv[sd], p) # 0
    BY ONLY <1>2, <2>2 DEF Describes
  <2> QED BY ONLY <2>1, <2>2
<1>4. AppendedTo(ff, ff2, sd, p, s)
  BY <1>1, QueueEdits
<1> HIDE DEF ff2
<1>5. /\ q2 \in Seq(Slots) /\ Len(q2) = Len(q) + 1
      /\ \A j \in 1 .. Len(q) : q2[j] = q[j]
      /\ q2[Len(q) + 1] = s
  BY <1>4, QueuedSlot DEF AppendedTo
<1> HIDE DEF q, q2
<1>6. l1 \in Level /\ l1.price = p /\ Describes(l1, q2)
  <2> DEFINE u == AppendLevel(l, s)
  <2>1. /\ u \in Level /\ u.price = l.price /\ u.count = l.count /\ q2 # <<>>
        /\ u.head = q2[1] /\ u.tail = q2[Len(q2)]
    <3>1. q \in Seq(Slots) /\ l \in Level
      BY ONLY <1>1, <1>2
    <3>2. /\ AppendLevel(l, s) \in Level
          /\ AppendLevel(l, s).price = l.price
          /\ AppendLevel(l, s).count = l.count
          /\ q2 # <<>>
          /\ AppendLevel(l, s).head = q2[1]
          /\ AppendLevel(l, s).tail = q2[Len(q2)]
      BY ONLY <1>3, <1>5, <3>1, s \in Slots, AppendLevelDescribes
    <3> QED BY ONLY <3>2
  <2> HIDE DEF u
  <2>2. l1 = [u EXCEPT !.qty = (u.qty + n) % QtyMod, !.count = u.count + 1]
    BY DEF u, BookedLevel
  <2>3. u.qty + n \in Int
    BY <2>1, TypesAssumption DEF Level, Qty
  <2>4. (u.qty + n) % QtyMod \in Qty
    BY <2>3, ModType
  <2>5. /\ l1 \in Level /\ l1.price = u.price /\ l1.count = u.count + 1
        /\ l1.head = u.head /\ l1.tail = u.tail
    <3> DEFINE m == (u.qty + n) % QtyMod
               c == u.count + 1
    <3>1. m \in Qty /\ c \in Nat /\ l1 = [u EXCEPT !.qty = m, !.count = c]
      BY <2>1, <2>2, <2>4 DEF Level
    <3> HIDE DEF m, c
    <3>2. l1 \in Level /\ l1.price = u.price /\ l1.count = c /\ l1.head = u.head /\ l1.tail = u.tail
      BY ONLY <2>1, <3>1 DEF Level
    <3> QED BY <3>2 DEF c
  <2> QED BY ONLY <1>2, <1>3, <1>5, <2>1, <2>5 DEF Describes
<1>7. q # <<>> => /\ l.head # NULL_IDX /\ l.tail \in Slots
                  /\ sl[l.tail] \in Slot /\ l.tail # s
  <2> HAVE q # <<>>
  <2>1. 1 \in 1 .. Len(q) /\ Len(q) \in 1 .. Len(q)
    BY <1>1, EmptySeq
  <2>2. l.head \in Slots /\ l.tail \in Slots
    <3>1. q \in Seq(Slots)
      BY ONLY <1>1
    <3>2. q[1] \in Slots /\ q[Len(q)] \in Slots
      BY ONLY <2>1, <3>1, ElementOfSeq
    <3>3. q # <<>>
      OBVIOUS
    <3> QED BY ONLY <1>3, <3>2, <3>3
  <2>3. sl[l.tail] \in Slot
    BY <1>1, <1>3, <2>1 DEF QueueLinked
  <2> QED BY <2>2, <2>3, RecordsAssumption, SlotType
<1>8. l.head # NULL_IDX => l.tail \in Slots /\ sl[l.tail] \in Slot /\ l.tail # s
  BY <1>3, <1>7
<1>9. /\ sl2 \in [Slots -> Slot \cup {NULL_IDX}]
      /\ LinkedBehind(sl, sl2, s, t0)
      /\ SameOrder(r, sl2[s])
  BY ONLY <1>1, <1>2, <1>8, r \in Slot, s \in Slots, AppendSlotsLinks
<1>10. t0 = IF q = <<>> THEN NULL_IDX ELSE q[Len(q)]
  BY <1>3, <1>7
<1> HIDE DEF sl2, t0
<1>11. sl2[s].price = p /\ sl2[s].id = r.id
  BY <1>9 DEF SameOrder
<1>12. LevelsOK(lv2, ff2)
  <2>1. OneQueue(ff, ff2, sd, p)
    BY <1>4, EditsOneQueue
  <2>3. l1 \in Level /\ l1.price = p /\ Describes(l1, ff2[sd][p])
    BY <1>6 DEF q2
  <2> QED BY ONLY <1>1, <2>1, <2>3, Clear(lv, sd, p), sd \in Sides, p \in Prices,
             w = Opened(sd, lv[sd], p), i = find_level(w, p), RestLevels
<1> HIDE DEF lv2
<1>13. BookOK(lv2, sl2, [ix EXCEPT ![r.id] = [slot |-> s, side |-> sd]], ff2)
  <2>1. t0 = IF ff[sd][p] = <<>> THEN NULL_IDX ELSE ff[sd][p][Len(ff[sd][p])]
    BY <1>10 DEF q
  <2>2. r.id = sl2[s].id
    BY <1>11
  <2> QED BY ONLY <1>4, <1>9, <1>11, <1>12, <2>1, <2>2, BookOK(lv, sl, ix, ff), sd \in Sides,
             p \in Prices, s \in Slots, sl[s] = NULL_IDX, Rest
<1> QED BY <1>13 DEF q, sl2, ff2, lv2

\* When no slot is free the level just inserted is removed again, and nothing
\* has changed.
LEMMA RolledBackSame ==
  ASSUME NEW lv, NEW ff, LevelsOK(lv, ff), NEW sd \in Sides, NEW p \in Prices,
         NEW w, w = insert_level(sd, lv[sd], p), find_level(lv[sd], p) = 0
  PROVE  [lv EXCEPT ![sd] = remove_level(w, find_level(w, p))] = lv
<1>1. lv \in [Sides -> Seq(Level)] /\ lv[sd] \in Seq(Level) /\ SortedSeq(sd, lv[sd])
  BY DEF LevelsOK
<1>2. \A j \in 1 .. Len(lv[sd]) : lv[sd][j].price # p
  BY <1>1, FindLevel
<1>3. remove_level(w, find_level(w, p)) = lv[sd]
  BY <1>1, <1>2, InsertLevel
<1> QED BY <1>1, <1>3
=============================================================================
