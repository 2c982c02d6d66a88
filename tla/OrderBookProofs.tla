--------------------------- MODULE OrderBookProofs ---------------------------
(***************************************************************************)
(* OrderBook keeps its structure, for any number of slots, levels, prices, *)
(* order ids and any quantity width: the arrays of levels stay sorted and  *)
(* uncrossed, the intrusive lists stay those of the arrival-ordered queues *)
(* and index entries always lead to live orders.                           *)
(***************************************************************************)
EXTENDS OrderBook, BookLemmas

\* The operation in progress.
OpInv ==
    /\ used \in Int
    /\ ledger \in Int
    /\ pc \in {"idle", "match", "done"}
    /\ incoming \in Order \cup {NoOrder}
    /\ pc = "match" => incoming \in Order
    /\ reports \in Seq(Report)
    /\ result \in Results \cup {NoResult}
    /\ result # "level_gone"

\* The inductive invariant.
IInv == BookOK(levels, slots, index, fifo) /\ OpInv

-----------------------------------------------------------------------------
(* Matching.                                                               *)

\* What a pass through try_match's loop finds.
LEMMA FillFacts ==
  ASSUME IInv, Matching
  PROVE  LET sd == Opposite(incoming.side)
             l == levels[sd][1]
             s == l.head
             n == FillQty(incoming)
         IN  /\ incoming \in Order /\ sd \in Sides
             /\ 1 \in 1 .. Len(levels[sd]) /\ LevelAt(levels, sd, 1, l.price)
             /\ l \in Level /\ l.price \in Prices
             /\ s \in Slots /\ slots[s] \in Slot
             /\ n \in Qty /\ n <= incoming.qty_remaining /\ n <= slots[s].qty
<1> DEFINE sd == Opposite(incoming.side)
           l == levels[sd][1]
           s == l.head
           n == FillQty(incoming)
<1>1. incoming \in Order /\ incoming.qty_remaining \in Qty /\ sd \in Sides
  BY DEF IInv, OpInv, Matching, Order, Opposite, Sides
<1>2. levels[sd] \in Seq(Level) /\ levels[sd] # <<>>
  BY <1>1 DEF IInv, BookOK, LevelsOK, Matching, Marketable, Passive
<1>3. Len(levels[sd]) \in Nat /\ 1 \in 1 .. Len(levels[sd])
  BY <1>2, EmptySeq, LenProperties
<1>4. LevelAt(levels, sd, 1, l.price)
  BY <1>3 DEF LevelAt
<1>5. l \in Level /\ l.price \in Prices /\ s \in Slots /\ slots[s] \in Slot
  BY <1>1, <1>3, LevelFacts DEF IInv
<1>6. slots[s].qty \in Qty
  BY <1>5, SlotType
<1>7. n = std_min(incoming.qty_remaining, slots[s].qty)
  BY DEF FillQty, Passive
<1> HIDE DEF sd, s, n
<1>8. n \in Qty /\ n <= incoming.qty_remaining /\ n <= slots[s].qty
  BY ONLY <1>1, <1>6, <1>7, TypesAssumption DEF std_min, Qty
<1> QED BY <1>1, <1>3, <1>4, <1>5, <1>8 DEF sd, s, n

\* A fill leaves a well-formed order and appends a well-formed report.
LEMMA TradeOK ==
  ASSUME IInv, Matching, Trade(FillQty(incoming)), used' \in Int
  PROVE  OpInv'
<1> DEFINE sd == Opposite(incoming.side)
           l == levels[sd][1]
           s == l.head
           n == FillQty(incoming)
<1>1. /\ incoming \in Order /\ l.price \in Prices /\ slots[s] \in Slot
      /\ n \in Qty /\ n <= incoming.qty_remaining
  BY FillFacts
<1>2. slots[s].id \in OrderIds
  BY <1>1, SlotType
<1>3. MakeReport(incoming, n) =
        [order_id |-> incoming.id, contra_order_id |-> slots[s].id,
         exec_price |-> l.price, exec_qty |-> n,
         leaves_qty |-> incoming.qty_remaining - n, side |-> incoming.side,
         exec_type |-> IF incoming.qty_remaining = n THEN "Fill" ELSE "PartialFill"]
  BY DEF MakeReport, Passive
<1>4. /\ incoming' = [incoming EXCEPT !.qty_remaining = incoming.qty_remaining - n]
      /\ reports' = Append(reports, MakeReport(incoming, n))
      /\ ledger' = ledger - n /\ pc' = pc /\ result' = result
  BY DEF Trade
<1> HIDE DEF sd, l, s, n
<1>5. incoming.qty_remaining - n \in Qty
  BY ONLY <1>1, TypesAssumption DEF Order, Qty
<1> DEFINE m == incoming.qty_remaining - n
           et == IF incoming.qty_remaining = n THEN "Fill" ELSE "PartialFill"
<1>6. et \in {"Fill", "PartialFill"}
  OBVIOUS
<1> HIDE DEF et
<1>7. m \in Qty
  BY <1>5
<1> HIDE DEF m
<1>8. incoming' \in Order
  BY ONLY <1>1, <1>4, <1>7 DEF Order, m
<1>9. MakeReport(incoming, n) \in Report
  BY ONLY <1>1, <1>2, <1>3, <1>6, <1>7 DEF Order, Report, m, et
<1>10. reports' \in Seq(Report)
  BY <1>4, <1>9, AppendProperties DEF IInv, OpInv
<1>11. ledger' \in Int
  BY <1>1, <1>4, TypesAssumption DEF IInv, OpInv, Qty
<1> QED BY <1>4, <1>8, <1>10, <1>11 DEF IInv, OpInv

\* A partial fill changes the quantity of the head order and of its level.
LEMMA FillPartialOK ==
  ASSUME IInv, FillPartial
  PROVE  IInv'
<1> DEFINE sd == Opposite(incoming.side)
           l == levels[sd][1]
           s == l.head
           n == FillQty(incoming)
           m == slots[s].qty - n
           x == (l.qty - n) % QtyMod
           l1 == [l EXCEPT !.qty = x]
<1>1. /\ Matching /\ Trade(n)
      /\ slots' = [slots EXCEPT ![s] = [slots[s] EXCEPT !.qty = m]]
      /\ levels' = [levels EXCEPT ![sd] = [levels[sd] EXCEPT ![1] = l1]]
      /\ used' = used /\ index' = index /\ fifo' = fifo
  BY DEF FillPartial
<1>2. /\ sd \in Sides /\ 1 \in 1 .. Len(levels[sd])
      /\ l \in Level /\ s \in Slots /\ slots[s] \in Slot /\ n \in Qty /\ n <= slots[s].qty
  BY <1>1, FillFacts
<1>3. OpInv'
  BY <1>1, TradeOK DEF IInv, OpInv
<1> HIDE DEF l, s, n
<1>4. m \in Qty
  BY ONLY <1>2, SlotType, TypesAssumption DEF Qty
<1>5. x \in Qty
  <2>1. l.qty - n \in Int
    BY ONLY <1>2, TypesAssumption DEF Level, Qty
  <2> QED BY <2>1, ModType
<1> HIDE DEF m, x
<1>6. l1 \in Level /\ l1.price = l.price /\ l1.count = l.count /\ l1.head = l.head /\ l1.tail = l.tail
  BY ONLY <1>2, <1>5 DEF Level
<1> HIDE DEF l1
<1>7. BookOK(levels, slots, index, fifo)
  BY DEF IInv
<1>8. BookOK(levels', slots', index', fifo')
  BY ONLY <1>1, <1>2, <1>4, <1>6, <1>7, ChangeQty DEF l
<1> QED BY <1>3, <1>8 DEF IInv

\* A complete fill takes the head order out.
LEMMA FillAndDequeueOK ==
  ASSUME IInv, FillAndDequeue
  PROVE  IInv'
<1> DEFINE sd == Opposite(incoming.side)
           l == levels[sd][1]
           n == FillQty(incoming)
           l1 == DequeuedLevel(slots, l, n)
<1>1. /\ Matching /\ Trade(n)
      /\ slots' = DequeuedSlots(slots, l.head)
      /\ levels' = Shrunk(levels, sd, 1, l1)
      /\ used' = used - 1
      /\ index' = Forgotten(index, slots[l.head].id)
      /\ fifo' = [fifo EXCEPT ![sd][l.price] = Tail(fifo[sd][l.price])]
  BY DEF FillAndDequeue, Shrunk, Forgotten, Unindexed
<1>2. /\ sd \in Sides /\ LevelAt(levels, sd, 1, l.price) /\ l.price \in Prices
      /\ l \in Level /\ n \in Qty
  BY <1>1, FillFacts
<1>3. used' \in Int
  BY <1>1 DEF IInv, OpInv
<1>4. OpInv'
  BY <1>1, <1>3, TradeOK
<1>5. n \in Int
  BY ONLY <1>2, TypesAssumption DEF Qty
<1> HIDE DEF n, sd
<1>6. BookOK(Shrunk(levels, sd, 1, l1), DequeuedSlots(slots, l.head), Forgotten(index, slots[l.head].id),
             [fifo EXCEPT ![sd][l.price] = Tail(fifo[sd][l.price])])
  BY <1>2, <1>5, Dequeued DEF IInv
<1> QED BY <1>1, <1>4, <1>6 DEF IInv

-----------------------------------------------------------------------------
(* add_order around the matching loop.                                     *)

\* Steps that leave the book alone and return.
LEMMA ReturnOK ==
  ASSUME IInv, NEW r \in Results, r # "level_gone", Return(r), UNCHANGED book,
         incoming' \in Order \cup {NoOrder}, reports' = reports
  PROVE  IInv'
<1>1. /\ levels' = levels /\ slots' = slots /\ used' = used /\ index' = index
      /\ fifo' = fifo /\ ledger' = ledger /\ pc' = "done" /\ result' = r
  BY DEF book, Return
<1> QED BY <1>1 DEF IInv, OpInv

\* Starting an operation leaves the book alone.
LEMMA AddOK ==
  ASSUME IInv, NEW o \in Inputs, add_order(o)
  PROVE  IInv'
<1>1. o \in Order /\ incoming' = o /\ UNCHANGED book /\ reports' = reports
  BY BookAssumption DEF add_order
<1>2. CASE Return("fok_rejected")
  BY <1>1, <1>2, ReturnOK DEF Results
<1>3. CASE pc' = "match" /\ UNCHANGED result
  <2>1. /\ levels' = levels /\ slots' = slots /\ used' = used /\ index' = index
        /\ fifo' = fifo /\ ledger' = ledger
    BY <1>1 DEF book
  <2> QED BY <1>1, <1>3, <2>1 DEF IInv, OpInv
<1> QED BY <1>2, <1>3 DEF add_order

\* So does ending one without booking anything.
LEMMA UnrestedOK ==
  ASSUME IInv, FinishUnrested \/ RejectNoLevel
  PROVE  IInv'
<1>1. /\ UNCHANGED book /\ incoming' = incoming /\ reports' = reports
      /\ \E r \in {"expired", "filled", "walled", "no_level"} : Return(r)
  BY DEF FinishUnrested, RejectNoLevel
<1>2. PICK r \in {"expired", "filled", "walled", "no_level"} : Return(r)
  BY <1>1
<1>3. r \in Results /\ r # "level_gone"
  BY <1>2 DEF Results
<1>4. incoming' \in Order \cup {NoOrder}
  BY <1>1 DEF IInv, OpInv
<1> QED BY <1>1, <1>2, <1>3, <1>4, ReturnOK

\* Rolling back a new level restores the array.
LEMMA RejectNoSlotOK ==
  ASSUME IInv, RejectNoSlot
  PROVE  IInv'
<1> DEFINE sd == incoming.side
           p == incoming.price
<1>1. incoming \in Order /\ sd \in Sides /\ p \in Prices
  BY DEF IInv, OpInv, RejectNoSlot, Resting, Matched, Order
<1>2. LevelsOK(levels, fifo) /\ levels \in [Sides -> Seq(Level)]
  BY DEF IInv, BookOK, LevelsOK
<1>3. levels' = [levels EXCEPT ![sd] = RolledBack]
  BY DEF RejectNoSlot
<1>4. levels' = levels
  <2>1. CASE CreatesLevel
    <3>1. WithLevel = insert_level(sd, levels[sd], p) /\ find_level(levels[sd], p) = 0
      BY <2>1 DEF WithLevel, CreatesLevel
    <3>2. RolledBack = remove_level(WithLevel, find_level(WithLevel, p))
      BY <2>1 DEF RolledBack
    <3> HIDE DEF sd, p
    <3> QED BY <1>1, <1>2, <1>3, <3>1, <3>2, RolledBackSame
  <2>2. CASE ~CreatesLevel
    <3>1. RolledBack = levels[sd]
      BY <2>2 DEF RolledBack, WithLevel
    <3> QED BY <1>1, <1>2, <1>3, <3>1
  <2> QED BY <2>1, <2>2
<1>5. /\ UNCHANGED book /\ Return("no_slot") /\ incoming' = incoming /\ reports' = reports
  BY <1>4 DEF RejectNoSlot, book
<1> QED BY <1>1, <1>5, ReturnOK DEF Results

\* A remainder is booked at a price that crosses nothing: try_match has ended
\* because the opposite side is empty or its best price does not cross.
LEMMA RestClear ==
  ASSUME IInv, Resting
  PROVE  Clear(levels, incoming.side, incoming.price)
<1> DEFINE sd == incoming.side
           p == incoming.price
           w == levels[Opposite(sd)]
<1>1. incoming \in Order /\ sd \in Sides /\ p \in Prices /\ p \in Int
  BY TypesAssumption DEF IInv, OpInv, Resting, Matched, Order
<1>2. LevelsOK(levels, fifo)
  BY DEF IInv, BookOK
<1>3. incoming.type = "Limit" /\ (w # <<>> => ~Crosses(incoming, w[1].price))
  BY DEF Resting, Matched, Marketable, Passive
<1>4. w # <<>> => w[1].price \in Int
  <2>1. Opposite(sd) \in Sides
    BY DEF Opposite, Sides
  <2>2. w \in Seq(Level)
    BY <1>2, <2>1 DEF LevelsOK
  <2>3. w # <<>> => 1 \in 1 .. Len(w)
    BY <2>2, EmptySeq, LenProperties
  <2> QED BY <2>2, <2>3, LevelPrice
<1>5. w # <<>> => IF sd = "Buy" THEN p < w[1].price ELSE w[1].price < p
  BY <1>1, <1>3, <1>4 DEF Crosses
<1> HIDE DEF sd, p
<1>6. Clear(levels, sd, p)
  BY ONLY <1>1, <1>2, <1>5, BestDecides
<1> QED BY <1>6 DEF sd, p

\* Booking the remainder.
LEMMA RestOK ==
  ASSUME IInv, NEW s \in Slots, RestOrder(s)
  PROVE  IInv'
<1> DEFINE sd == incoming.side
           p == incoming.price
           n == incoming.qty_remaining
           w == WithLevel
           i == find_level(w, p)
           l == w[i]
           l1 == BookedLevel(l, s, n)
           r == NewSlot(incoming)
<1>1. /\ Resting /\ slots[s] = NULL_IDX
      /\ slots' = AppendSlots(slots, l, s, r)
      /\ levels' = [levels EXCEPT ![sd] = [w EXCEPT ![i] = l1]]
      /\ used' = used + 1
      /\ index' = [index EXCEPT ![incoming.id] = [slot |-> s, side |-> sd]]
      /\ fifo' = [fifo EXCEPT ![sd][p] = Append(fifo[sd][p], s)]
      /\ ledger' = ledger + n /\ pc' = "done" /\ result' = "rested"
      /\ incoming' = incoming /\ reports' = reports
  BY DEF RestOrder, Free, Indexed, Return
<1>2. incoming \in Order
  BY <1>1 DEF IInv, OpInv, Resting, Matched
<1>3. sd \in Sides /\ p \in Prices /\ n \in Int /\ n \in Qty
  BY <1>2, TypesAssumption DEF Order, Qty
<1>4. r \in Slot /\ r.price = p /\ r.id = incoming.id
  BY <1>2 DEF NewSlot, Slot, Order
<1>5. w = Opened(sd, levels[sd], p)
  BY DEF WithLevel, CreatesLevel, Opened
<1>6. Clear(levels, sd, p)
  BY <1>1, RestClear
<1>7. BookOK(levels, slots, index, fifo)
  BY DEF IInv
<1> HIDE DEF sd, p, n, w, r
<1>8. BookOK([levels EXCEPT ![sd] = [w EXCEPT ![i] = l1]], AppendSlots(slots, l, s, r),
             [index EXCEPT ![r.id] = [slot |-> s, side |-> sd]],
             [fifo EXCEPT ![sd][p] = Append(fifo[sd][p], s)])
  <2> HIDE DEF i, l, l1
  <2>1. i = find_level(w, p) /\ l = w[i]
    BY DEF i, l
  <2>2. l1 = BookedLevel(l, s, n)
    BY DEF l1
  <2>3. slots[s] = NULL_IDX /\ s \in Slots
    BY <1>1
  <2> QED BY ONLY <1>3, <1>4, <1>5, <1>6, <1>7, <2>1, <2>2, <2>3, Rested
<1>9. BookOK(levels', slots', index', fifo')
  BY <1>1, <1>4, <1>8
<1>10. OpInv'
  BY <1>1, <1>2, <1>3 DEF IInv, OpInv, Results
<1> QED BY <1>9, <1>10 DEF IInv

-----------------------------------------------------------------------------
(* cancel_order and modify_order.                                          *)

\* An entry that is there is found, so "level_gone" is never returned.
LEMMA RefuseOK ==
  ASSUME IInv, NEW id \in OrderIds, ~Found(id), Refuse(id),
         UNCHANGED <<levels, slots, used, fifo, ledger>>, UNCHANGED <<incoming, reports>>
  PROVE  IInv'
<1>1. index[id] = NULL_IDX
  <2>1. SUFFICES ASSUME index[id] # NULL_IDX PROVE FALSE
    OBVIOUS
  <2>2. LevelOf(index[id]) # 0
    <3> DEFINE sd == index[id].side
               s == index[id].slot
               p == slots[s].price
    <3>1. EntryAt(slots, index, id, sd, s, p) /\ LevelOf(index[id]) = find_level(levels[sd], p)
      BY <2>1 DEF EntryAt, LevelOf
    <3> HIDE DEF sd, s, p
    <3>2. find_level(levels[sd], p) # 0
      BY <3>1, Located DEF IInv
    <3> QED BY <3>1, <3>2
  <2> QED BY <2>1, <2>2 DEF Found
<1>2. Return("unknown_id") /\ UNCHANGED book
  BY <1>1 DEF Refuse, book
<1>3. incoming' \in Order \cup {NoOrder} /\ reports' = reports
  BY DEF IInv, OpInv
<1> QED BY <1>2, <1>3, ReturnOK DEF Results

\* An operation on the book that returns r.
LEMMA ChangeReturns ==
  ASSUME IInv, NEW r \in Results, r # "level_gone", Return(r), UNCHANGED <<incoming, reports>>,
         used' \in Int, ledger' \in Int, BookOK(levels', slots', index', fifo')
  PROVE  IInv'
BY DEF IInv, OpInv, Return

\* remove_order_from_level with the level as it is, or with its quantity
\* already changed.
LEMMA RemoveOK ==
  ASSUME IInv, NEW id \in OrderIds, index[id] # NULL_IDX,
         NEW sd, NEW s, NEW i, sd = index[id].side, s = index[id].slot,
         i = find_level(levels[sd], slots[s].price),
         NEW l, SameList(levels[sd][i], l), NEW n \in Qty,
         remove_order_from_level(sd, i, RemovedLevel(slots, l, s, n), s),
         index' = Unindexed(id)
  PROVE  BookOK(levels', slots', index', fifo') /\ used' \in Int /\ ledger' \in Int
<1> DEFINE p == slots[s].price
           q == fifo[sd][p]
           k == Position(q, s)
           l1 == RemovedLevel(slots, l, s, n)
<1>1. /\ sd \in Sides /\ s \in Slots /\ p \in Prices
      /\ slots[s] \in Slot /\ slots[s].id = id
      /\ LevelAt(levels, sd, i, p)
      /\ k \in 1 .. Len(q) /\ q[k] = s
  <2>1. EntryAt(slots, index, id, sd, s, p) /\ i = find_level(levels[sd], p)
    BY DEF EntryAt
  <2>2. BookOK(levels, slots, index, fifo)
    BY DEF IInv
  <2> HIDE DEF p
  <2> QED BY ONLY <2>1, <2>2, id \in OrderIds, Located
<1>2. /\ levels' = Shrunk(levels, sd, i, l1)
      /\ slots' = [UnlinkSlots(slots, s) EXCEPT ![s] = NULL_IDX]
      /\ used' = used - 1
      /\ fifo' = [fifo EXCEPT ![sd][p] = RemoveAt(fifo[sd][p], k)]
      /\ ledger' = ledger - slots[s].qty
      /\ index' = Forgotten(index, slots[s].id)
  BY <1>1 DEF remove_order_from_level, Shrunk, Forgotten, Unindexed
<1>3. used' \in Int /\ ledger' \in Int
  <2>1. slots[s].qty \in Qty /\ used \in Int /\ ledger \in Int
    BY <1>1, SlotType DEF IInv, OpInv
  <2> DEFINE m == slots[s].qty
  <2>2. used' = used - 1 /\ ledger' = ledger - m
    BY <1>2
  <2> HIDE DEF m
  <2> QED BY ONLY <2>1, <2>2, TypesAssumption DEF Qty, m
<1>4. BookOK(levels, slots, index, fifo) /\ n \in Int
  <2>1. n \in Int
    BY ONLY n \in Qty, TypesAssumption DEF Qty
  <2> QED BY ONLY IInv, <2>1 DEF IInv
<1>5. k \in 1 .. Len(fifo[sd][p]) /\ s = fifo[sd][p][k] /\ l1 = RemovedLevel(slots, l, s, n)
  BY <1>1
<1> HIDE DEF p, q, k, l1
<1>6. BookOK(Shrunk(levels, sd, i, l1), [UnlinkSlots(slots, s) EXCEPT ![s] = NULL_IDX],
             Forgotten(index, slots[s].id), [fifo EXCEPT ![sd][p] = RemoveAt(fifo[sd][p], k)])
  BY ONLY <1>1, <1>4, <1>5, SameList(levels[sd][i], l), Removed
<1> QED BY <1>2, <1>3, <1>6

\* The level an entry leads to is in its array.
LEMMA FoundLevel ==
  ASSUME IInv, NEW id \in OrderIds, index[id] # NULL_IDX
  PROVE  LET e == index[id]
             i == LevelOf(e)
             l == levels[e.side][i]
         IN  /\ i \in 1 .. Len(levels[e.side]) /\ l \in Level
             /\ slots[e.slot] \in Slot /\ slots[e.slot].qty \in Qty
<1> DEFINE e == index[id]
           i == LevelOf(e)
<1>1. e.side \in Sides /\ slots[e.slot] \in Slot /\ LevelAt(levels, e.side, i, slots[e.slot].price)
  <2> DEFINE sd == e.side
             s == e.slot
             p == slots[s].price
  <2>1. EntryAt(slots, index, id, sd, s, p) /\ i = find_level(levels[sd], p)
    BY DEF EntryAt, LevelOf
  <2>2. BookOK(levels, slots, index, fifo)
    BY DEF IInv
  <2> HIDE DEF sd, s, p, i
  <2>3. sd \in Sides /\ slots[s] \in Slot /\ LevelAt(levels, sd, i, p)
    BY ONLY <2>1, <2>2, id \in OrderIds, Located
  <2> QED BY <2>3 DEF sd, s, p
<1>2. levels[e.side] \in Seq(Level) /\ i \in 1 .. Len(levels[e.side])
  BY <1>1 DEF IInv, BookOK, LevelsOK, LevelAt
<1> QED BY <1>1, <1>2, LevelPrice, SlotType

\* cancel_order.
LEMMA CancelOK ==
  ASSUME IInv, NEW id \in OrderIds, cancel_order(id)
  PROVE  IInv'
<1> DEFINE e == index[id]
           i == LevelOf(e)
           l == levels[e.side][i]
<1>1. CASE ~Found(id)
  BY <1>1, RefuseOK DEF cancel_order
<1>2. CASE Found(id)
  <2>1. /\ e # NULL_IDX /\ Return("cancelled") /\ UNCHANGED <<incoming, reports>>
        /\ index' = Unindexed(id)
        /\ remove_order_from_level(e.side, i, RemovedLevel(slots, l, e.slot, slots[e.slot].qty), e.slot)
    BY <1>2 DEF cancel_order, Found
  <2>2. l \in Level /\ slots[e.slot].qty \in Qty
    BY <2>1, FoundLevel
  <2>3. SameList(l, l) /\ i = find_level(levels[e.side], slots[e.slot].price)
    BY <2>2 DEF SameList, LevelOf
  <2>4. BookOK(levels', slots', index', fifo') /\ used' \in Int /\ ledger' \in Int
    BY <2>1, <2>2, <2>3, RemoveOK
  <2> QED BY <2>1, <2>4, ChangeReturns DEF Results
<1> QED BY <1>1, <1>2

\* modify_order to more quantity.
LEMMA IncreaseOK ==
  ASSUME IInv, NEW id \in OrderIds, index[id] # NULL_IDX, NEW m \in Qty,
         IncreaseQty(index[id], LevelOf(index[id]), m)
  PROVE  BookOK(levels', slots', index', fifo') /\ used' \in Int /\ ledger' \in Int
<1> DEFINE e == index[id]
           sd == e.side
           s == e.slot
           i == LevelOf(e)
           p == slots[s].price
           q == fifo[sd][p]
           k == Position(q, s)
           l == UnlinkLevel(slots, levels[sd][i], s)
           n == m - slots[s].qty
           l1 == RequeuedLevel(l, s, n)
<1>1. /\ sd \in Sides /\ s \in Slots /\ p \in Prices /\ slots[s] \in Slot
      /\ LevelAt(levels, sd, i, p) /\ k \in 1 .. Len(q) /\ q[k] = s
  <2>1. BookOK(levels, slots, index, fifo)
    BY DEF IInv
  <2>2. EntryAt(slots, index, id, sd, s, p) /\ i = find_level(levels[sd], p)
    BY DEF EntryAt, LevelOf
  <2> HIDE DEF sd, s, p, i
  <2> QED BY ONLY <2>1, <2>2, id \in OrderIds, Located
<1>2. /\ slots' = AppendSlots(UnlinkSlots(slots, s), l, s, [slots[s] EXCEPT !.qty = m])
      /\ levels' = [levels EXCEPT ![sd] = [levels[sd] EXCEPT ![i] = l1]]
      /\ fifo' = [fifo EXCEPT ![sd][p] = Append(RemoveAt(fifo[sd][p], k), s)]
      /\ ledger' = ledger + n /\ used' = used /\ index' = index
  BY DEF IncreaseQty
<1>3. n \in Int
  <2>1. slots[s].qty \in Qty
    BY <1>1, SlotType
  <2> QED BY ONLY <2>1, m \in Qty, TypesAssumption DEF Qty
<1>4. used' \in Int /\ ledger' \in Int
  <2>1. used \in Int /\ ledger \in Int
    BY DEF IInv, OpInv
  <2>2. ledger' = ledger + n /\ used' = used
    BY <1>2
  <2> HIDE DEF n
  <2> QED BY ONLY <1>3, <2>1, <2>2
<1>5. SameList(levels[sd][i], levels[sd][i])
  BY FoundLevel DEF SameList
<1>6. BookOK(levels, slots, index, fifo)
  BY DEF IInv
<1>7. /\ k \in 1 .. Len(fifo[sd][p]) /\ s = fifo[sd][p][k]
      /\ l = UnlinkLevel(slots, levels[sd][i], s) /\ l1 = RequeuedLevel(l, s, n)
  BY <1>1
<1> HIDE DEF sd, s, i, p, q, k, l, n, l1
<1>8. BookOK([levels EXCEPT ![sd] = [levels[sd] EXCEPT ![i] = l1]],
             AppendSlots(UnlinkSlots(slots, s), l, s, [slots[s] EXCEPT !.qty = m]), index,
             [fifo EXCEPT ![sd][p] = Append(RemoveAt(fifo[sd][p], k), s)])
  BY ONLY <1>1, <1>3, <1>5, <1>6, <1>7, m \in Qty, Moved
<1> QED BY ONLY <1>2, <1>4, <1>8

\* modify_order to less quantity.
LEMMA DecreaseOK ==
  ASSUME IInv, NEW id \in OrderIds, index[id] # NULL_IDX, NEW m \in Qty,
         DecreaseQty(id, index[id], LevelOf(index[id]), m)
  PROVE  BookOK(levels', slots', index', fifo') /\ used' \in Int /\ ledger' \in Int
<1> DEFINE e == index[id]
           sd == e.side
           s == e.slot
           i == LevelOf(e)
           l0 == levels[sd][i]
           n == slots[s].qty - m
           x == (l0.qty - n) % QtyMod
           l == [l0 EXCEPT !.qty = x]
<1>1. sd \in Sides /\ s \in Slots
  BY EntryType DEF IInv, BookOK
<1>2. i \in 1 .. Len(levels[sd]) /\ l0 \in Level /\ slots[s] \in Slot /\ slots[s].qty \in Qty
  BY FoundLevel
<1>3. n \in Int
  BY ONLY <1>2, m \in Qty, TypesAssumption DEF Qty
<1>4. x \in Qty
  <2> HIDE DEF l0, n
  <2>1. l0.qty \in Int
    BY ONLY <1>2, TypesAssumption DEF Level, Qty
  <2>2. l0.qty - n \in Int
    BY ONLY <1>3, <2>1
  <2> QED BY ONLY <2>2, ModType
<1>5. SameList(l0, l)
  <2> HIDE DEF x, l0
  <2> QED BY ONLY <1>2, <1>4 DEF SameList, Level
<1>6. CASE m = 0
  <2>1. /\ remove_order_from_level(sd, i, RemovedLevel(slots, l, s, 0), s)
        /\ index' = Unindexed(id)
    BY <1>6 DEF DecreaseQty
  <2>2. 0 \in Qty /\ i = find_level(levels[sd], slots[s].price)
    BY TypesAssumption DEF Qty, LevelOf
  <2> HIDE DEF l, i
  <2> QED BY <1>5, <2>1, <2>2, RemoveOK
<1>7. CASE m # 0
  <2>1. /\ slots' = [slots EXCEPT ![s] = [slots[s] EXCEPT !.qty = m]]
        /\ levels' = [levels EXCEPT ![sd] = [levels[sd] EXCEPT ![i] = l]]
        /\ ledger' = ledger - n /\ used' = used /\ index' = index /\ fifo' = fifo
    BY <1>7 DEF DecreaseQty
  <2>2. used' \in Int /\ ledger' \in Int
    <3>1. used \in Int /\ ledger \in Int
      BY DEF IInv, OpInv
    <3> HIDE DEF n
    <3> QED BY ONLY <1>3, <2>1, <3>1
  <2>3. BookOK(levels, slots, index, fifo)
    BY DEF IInv
  <2>4. /\ l \in Level /\ l.price = levels[sd][i].price /\ l.count = levels[sd][i].count
        /\ l.head = levels[sd][i].head /\ l.tail = levels[sd][i].tail
    BY <1>5 DEF SameList
  <2> HIDE DEF l, l0, i, n, sd, s
  <2>5. BookOK(levels', slots', index', fifo')
    BY ONLY <1>1, <1>2, <2>1, <2>3, <2>4, m \in Qty, ChangeQty
  <2> QED BY <2>2, <2>5
<1> QED BY <1>6, <1>7

\* modify_order.
LEMMA ModifyOK ==
  ASSUME IInv, NEW id \in OrderIds, NEW m \in Qty, modify_order(id, m)
  PROVE  IInv'
<1>1. CASE ~Found(id)
  BY <1>1, RefuseOK DEF modify_order
<1>2. CASE Found(id)
  <2>1. /\ index[id] # NULL_IDX /\ Return("modified") /\ UNCHANGED <<incoming, reports>>
        /\ \/ IncreaseQty(index[id], LevelOf(index[id]), m)
           \/ DecreaseQty(id, index[id], LevelOf(index[id]), m)
           \/ UNCHANGED book
    BY <1>2 DEF modify_order, Found
  <2>2. CASE UNCHANGED book
    <3>1. incoming' \in Order \cup {NoOrder} /\ reports' = reports
      BY <2>1 DEF IInv, OpInv
    <3> QED BY <2>1, <2>2, <3>1, ReturnOK DEF Results
  <2>3. CASE \/ IncreaseQty(index[id], LevelOf(index[id]), m)
             \/ DecreaseQty(id, index[id], LevelOf(index[id]), m)
    <3>1. BookOK(levels', slots', index', fifo') /\ used' \in Int /\ ledger' \in Int
      BY <2>1, <2>3, IncreaseOK, DecreaseOK
    <3> QED BY <2>1, <3>1, ChangeReturns DEF Results
  <2> QED BY <2>1, <2>2, <2>3
<1> QED BY <1>1, <1>2

-----------------------------------------------------------------------------
(* The invariant.                                                          *)

\* The empty book is well formed.
LEMMA InitOK == Init => IInv
<1> SUFFICES ASSUME Init PROVE IInv
  OBVIOUS
<1>1. OpInv
  BY EmptySeq DEF Init, OpInv, Results, NoResult
<1>2. /\ slots \in [Slots -> Slot \cup {NULL_IDX}]
      /\ index \in [OrderIds -> Entry \cup {NULL_IDX}]
      /\ \A id \in OrderIds : index[id] = NULL_IDX
  BY DEF Init
<1>3. \A sd \in Sides, p \in Prices : fifo[sd][p] = <<>> /\ Len(fifo[sd][p]) = 0
  BY EmptySeq DEF Init
<1>4. QueuesType(fifo)
  BY EmptySeq DEF Init, QueuesType
<1>5. Separate(fifo) /\ Linked(slots, fifo)
  BY <1>3 DEF Separate, Linked, QueueLinked
<1>6. \A sd \in Sides : levels[sd] = <<>> /\ Len(levels[sd]) = 0
  BY EmptySeq DEF Init
<1>7. levels \in [Sides -> Seq(Level)]
  BY EmptySeq DEF Init
<1>8. LevelsOK(levels, fifo)
  <2>1. Len(levels["Buy"]) = 0
    BY <1>6 DEF Sides
  <2>2. Uncrossed(levels)
    BY <2>1 DEF Uncrossed
  <2> QED BY <1>3, <1>6, <1>7, <2>2 DEF LevelsOK, SortedSeq
<1> QED BY <1>1, <1>2, <1>4, <1>5, <1>8 DEF IInv, BookOK

\* Returning to the caller leaves the book alone.
LEMMA ReturnedOK ==
  ASSUME IInv, Returned
  PROVE  IInv'
<1>1. /\ levels' = levels /\ slots' = slots /\ used' = used /\ index' = index
      /\ fifo' = fifo /\ ledger' = ledger /\ pc' = "idle" /\ incoming' = NoOrder
      /\ reports' = <<>> /\ result' = NoResult
  BY DEF Returned, book
<1>2. NoResult # "level_gone" /\ <<>> \in Seq(Report)
  BY EmptySeq DEF NoResult
<1> QED BY <1>1, <1>2 DEF IInv, OpInv

\* Every step keeps the invariant.
LEMMA NextOK == IInv /\ [Next]_vars => IInv'
<1> SUFFICES ASSUME IInv, [Next]_vars PROVE IInv'
  OBVIOUS
<1>1. CASE \E o \in Inputs : add_order(o)
  BY <1>1, AddOK
<1>2. CASE \E id \in OrderIds : cancel_order(id)
  BY <1>2, CancelOK
<1>3. CASE \E id \in OrderIds, q \in Qty : modify_order(id, q)
  BY <1>3, ModifyOK
<1>4. CASE FillPartial
  BY <1>4, FillPartialOK
<1>5. CASE FillAndDequeue
  BY <1>5, FillAndDequeueOK
<1>6. CASE FinishUnrested \/ RejectNoLevel
  BY <1>6, UnrestedOK
<1>7. CASE RejectNoSlot
  BY <1>7, RejectNoSlotOK
<1>8. CASE \E s \in Slots : RestOrder(s)
  BY <1>8, RestOK
<1>9. CASE Returned
  BY <1>9, ReturnedOK
<1>10. CASE UNCHANGED vars
  BY <1>10 DEF vars, IInv, OpInv
<1> QED BY <1>1, <1>2, <1>3, <1>4, <1>5, <1>6, <1>7, <1>8, <1>9, <1>10 DEF Next, Proceed

\* The invariant implies the properties.
LEMMA Consequences ==
  IInv => TypeOK /\ ListsMatchQueues /\ LevelsSorted /\ NotCrossed /\ IndexSound
<1> SUFFICES ASSUME IInv
             PROVE  TypeOK /\ ListsMatchQueues /\ LevelsSorted /\ NotCrossed /\ IndexSound
  OBVIOUS
<1>1. /\ slots \in [Slots -> Slot \cup {NULL_IDX}]
      /\ index \in [OrderIds -> Entry \cup {NULL_IDX}]
      /\ QueuesType(fifo) /\ Linked(slots, fifo) /\ LevelsOK(levels, fifo)
      /\ \A id \in OrderIds : index[id] # NULL_IDX => Leads(index[id], id, slots, fifo)
  BY DEF IInv, BookOK
<1>2. /\ levels \in [Sides -> Seq(Level)]
      /\ \A sd \in Sides : SortedSeq(sd, levels[sd])
      /\ Uncrossed(levels)
      /\ \A sd \in Sides : \A i \in 1 .. Len(levels[sd]) :
            Describes(levels[sd][i], fifo[sd][levels[sd][i].price])
      /\ \A sd \in Sides : \A p \in Prices : fifo[sd][p] # <<>> =>
            \E i \in 1 .. Len(levels[sd]) : levels[sd][i].price = p
  BY <1>1 DEF LevelsOK
<1>3. TypeOK
  BY <1>1, <1>2 DEF TypeOK, QueuesType, IInv, OpInv
<1>4. ListsMatchQueues
  <2>1. ASSUME NEW sd \in Sides, NEW p \in Prices
        PROVE  p \in LevelPrices(sd) <=> fifo[sd][p] # <<>>
    <3>1. fifo[sd][p] # <<>> => p \in LevelPrices(sd)
      BY <1>2 DEF LevelPrices
    <3>2. ASSUME p \in LevelPrices(sd) PROVE fifo[sd][p] # <<>>
      <4>1. PICK i \in 1 .. Len(levels[sd]) : p = levels[sd][i].price
        BY <3>2 DEF LevelPrices
      <4> QED BY <1>2, <4>1 DEF Describes
    <3> QED BY <3>1, <3>2
  <2>2. ASSUME NEW sd \in Sides, NEW i \in 1 .. Len(levels[sd])
        PROVE  LET l == levels[sd][i]
                   q == fifo[sd][l.price]
               IN  l.head = q[1] /\ l.tail = q[Len(q)] /\ l.count = Len(q)
    BY <1>2 DEF Describes
  <2>3. ASSUME NEW sd \in Sides, NEW p \in Prices, NEW k \in 1 .. Len(fifo[sd][p])
        PROVE  LET q == fifo[sd][p]
                   r == slots[q[k]]
               IN  /\ r # NULL_IDX
                   /\ r.price = p
                   /\ r.prev = IF k = 1 THEN NULL_IDX ELSE q[k - 1]
                   /\ r.next = IF k = Len(q) THEN NULL_IDX ELSE q[k + 1]
    <3> DEFINE q == fifo[sd][p]
    <3>1. QueueLinked(slots, q, p)
      BY ONLY <1>1, sd \in Sides, p \in Prices DEF Linked
    <3> HIDE DEF q
    <3>2. k \in 1 .. Len(q)
      BY <2>3 DEF q
    <3>3. /\ slots[q[k]] \in Slot
          /\ slots[q[k]].price = p
          /\ slots[q[k]].prev = IF k = 1 THEN NULL_IDX ELSE q[k - 1]
          /\ slots[q[k]].next = IF k = Len(q) THEN NULL_IDX ELSE q[k + 1]
      BY ONLY <3>1, <3>2 DEF QueueLinked
    <3>4. slots[q[k]] # NULL_IDX
      BY ONLY <3>3, SlotType
    <3> QED BY ONLY <3>3, <3>4 DEF q
  <2> QED BY <2>1, <2>2, <2>3 DEF ListsMatchQueues
<1>5. LevelsSorted
  BY <1>2 DEF LevelsSorted, SortedSeq
<1>6. NotCrossed
  <2> DEFINE b == levels["Buy"]
             a == levels["Sell"]
  <2>1. b \in Seq(Level) /\ a \in Seq(Level)
    BY <1>2 DEF Sides
  <2>2. /\ b # <<>> => 1 \in 1 .. Len(b)
        /\ a # <<>> => 1 \in 1 .. Len(a)
    BY ONLY <2>1, EmptySeq, LenProperties
  <2>3. b # <<>> /\ a # <<>> => b[1].price < a[1].price
    BY <1>2, <2>2 DEF Uncrossed
  <2> QED BY <2>3 DEF NotCrossed, best_quote
<1>7. IndexSound
  <2>1. ASSUME NEW id \in OrderIds, index[id] # NULL_IDX
        PROVE  LET s == index[id].slot
               IN  /\ s \in Live
                   /\ slots[s].id = id
                   /\ Contains(fifo[index[id].side][slots[s].price], s)
    <3>1. Leads(index[id], id, slots, fifo) /\ index[id].slot \in Slots
      BY <1>1, <2>1, EntryType DEF Leads
    <3>2. slots[index[id].slot] \in Slot
      BY <3>1 DEF Leads
    <3> QED BY <3>1, <3>2, SlotType DEF Leads, Live, Contains
  <2>2. result # "level_gone"
    BY DEF IInv, OpInv
  <2> QED BY <2>1, <2>2 DEF IndexSound
<1> QED BY <1>3, <1>4, <1>5, <1>6, <1>7

\* The book stays well formed through every interleaving of fills, bookings,
\* cancels, modifications and rejections, also when callers reuse ids of
\* resting orders.
THEOREM BookWellFormed ==
  Spec => [](TypeOK /\ ListsMatchQueues /\ LevelsSorted /\ NotCrossed /\ IndexSound)
<1>1. Spec => []IInv
  BY InitOK, NextOK, PTL DEF Spec
<1> QED BY <1>1, Consequences, PTL

-----------------------------------------------------------------------------
(* Price-time priority.                                                    *)

\* In a sorted array with a level for every queue no queue is better priced
\* than the first level.
LEMMA FirstIsBest ==
  ASSUME NEW lv, NEW ff, LevelsOK(lv, ff), NEW sd \in Sides, 1 \in 1 .. Len(lv[sd]),
         NEW p \in Prices, Better(sd, p, lv[sd][1].price)
  PROVE  ff[sd][p] = <<>>
<1> DEFINE w == lv[sd]
<1>1. w \in Seq(Level) /\ SortedSeq(sd, w) /\ 1 \in 1 .. Len(w) /\ Better(sd, p, w[1].price)
      /\ (ff[sd][p] # <<>> => \E i \in 1 .. Len(w) : w[i].price = p)
  BY DEF LevelsOK
<1> HIDE DEF w
<1>2. ASSUME NEW i \in 1 .. Len(w), w[i].price = p PROVE FALSE
  <2>1. w[1].price \in Int /\ w[i].price \in Int /\ i \in Int
    BY <1>1, LevelPrice
  <2>2. i # 1 => Better(sd, w[1].price, w[i].price)
    BY ONLY <1>1, <2>1, i \in 1 .. Len(w) DEF SortedSeq
  <2>3. CASE i = 1
    BY ONLY <1>1, <1>2, <2>1, <2>3 DEF Better
  <2>4. CASE i # 1
    BY ONLY <1>1, <1>2, <2>1, <2>2, <2>4 DEF Better
  <2> QED BY <2>3, <2>4
<1> QED BY <1>1, <1>2

\* A fill takes the head of the first level.
LEMMA FillStep ==
  ASSUME IInv, FillPartial \/ FillAndDequeue
  PROVE  FillsBest
<1> DEFINE sd == Opposite(incoming.side)
           l == levels[sd][1]
           s == l.head
           n == FillQty(incoming)
           r == MakeReport(incoming, n)
           q == fifo[sd][l.price]
<1>1. Matching /\ Trade(n)
  BY DEF FillPartial, FillAndDequeue
<1>2. /\ sd \in Sides /\ 1 \in 1 .. Len(levels[sd]) /\ s \in Slots /\ slots[s] \in Slot
      /\ l.price \in Prices
  BY <1>1, FillFacts
<1>3. r.exec_price = l.price /\ r.contra_order_id = slots[s].id /\ r.exec_qty = n
  BY DEF MakeReport, Passive
<1>4. LevelsOK(levels, fifo)
  BY DEF IInv, BookOK
<1>5. q # <<>> /\ s = q[1]
  BY <1>2, <1>4 DEF LevelsOK, Describes
<1>6. \A p \in Prices : Better(sd, p, l.price) => fifo[sd][p] = <<>>
  BY <1>2, <1>4, FirstIsBest
<1>7. incoming.account_id # 0 => incoming.account_id # slots[s].account
  BY <1>1 DEF Matching, Walled, SameAccount, Passive
<1>8. slots'[s] = NULL_IDX \/ slots'[s].qty = slots[s].qty - n
  <2>1. CASE FillPartial
    <3>1. slots' = [slots EXCEPT ![s] = [slots[s] EXCEPT !.qty = slots[s].qty - n]]
      BY <2>1 DEF FillPartial
    <3>2. slots \in [Slots -> Slot \cup {NULL_IDX}]
      BY DEF IInv, BookOK
    <3> HIDE DEF s, n
    <3> QED BY ONLY <1>2, <3>1, <3>2 DEF Slot
  <2>2. CASE FillAndDequeue
    <3>1. slots' = DequeuedSlots(slots, s)
      BY <2>2 DEF FillAndDequeue
    <3> HIDE DEF s
    <3> QED BY ONLY <1>2, <3>1 DEF DequeuedSlots
  <2> QED BY <2>1, <2>2
<1>9. reports'[Len(reports')] = r
  <2>1. reports \in Seq(Report) /\ reports' = Append(reports, r)
    BY <1>1 DEF IInv, OpInv, Trade
  <2> HIDE DEF r
  <2> QED BY ONLY <2>1
<1> HIDE DEF sd, l, s, n, r
<1>10. r.exec_price = l.price /\ reports'[Len(reports')] = r /\ sd = Opposite(incoming.side)
  BY <1>3, <1>9 DEF sd
<1> QED BY ONLY <1>3, <1>5, <1>6, <1>7, <1>8, <1>10 DEF FillsBest

\* No other step reports a fill.
LEMMA QuietStep ==
  ASSUME IInv, reports' \in {reports, <<>>}
  PROVE  FillsBest
<1>1. Len(reports) \in Nat /\ Len(reports') <= Len(reports)
  BY EmptySeq, LenProperties DEF IInv, OpInv
<1>2. ~(Len(reports') > Len(reports))
  <2> DEFINE a == Len(reports')
             b == Len(reports)
  <2>1. a <= b /\ b \in Nat /\ a \in Nat
    BY <1>1, EmptySeq
  <2> HIDE DEF a, b
  <2>2. ~(a > b)
    BY ONLY <2>1
  <2> QED BY <2>2 DEF a, b
<1> QED BY <1>2 DEF FillsBest

\* Matching honours price-time priority and never trades an account with
\* itself, on every fill of every history.
THEOREM FillsHonourPriority == Spec => PriceTimePriority
<1>1. Spec => []IInv
  BY InitOK, NextOK, PTL DEF Spec
<1>2. IInv /\ [Next]_vars => [FillsBest]_vars
  <2> SUFFICES ASSUME IInv, Next PROVE FillsBest
    OBVIOUS
  <2>1. CASE FillPartial \/ FillAndDequeue
    BY <2>1, FillStep
  <2>2. CASE ~(FillPartial \/ FillAndDequeue)
    <3>1. reports' \in {reports, <<>>}
      BY <2>2 DEF Next, Proceed, add_order, cancel_order, modify_order, FinishUnrested,
         RejectNoLevel, RejectNoSlot, RestOrder, Returned
    <3> QED BY <3>1, QuietStep
  <2> QED BY <2>1, <2>2
<1> QED BY <1>1, <1>2, PTL DEF Spec, PriceTimePriority
=============================================================================
