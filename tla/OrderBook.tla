------------------------------ MODULE OrderBook ------------------------------
(***************************************************************************)
(* engine::OrderBook (src/core/order_book.cpp, include/core/order_book.hpp):*)
(* a limit order book for one instrument.  Each side is an array of price  *)
(* levels, best price first; each level is the head and tail of a doubly   *)
(* linked list threaded through a fixed pool of order slots; an index maps *)
(* order ids to slots.                                                     *)
(*                                                                         *)
(* add_order, cancel_order and modify_order are the operations.  The       *)
(* matching loop of add_order takes one step per fill, because the match   *)
(* callback shows every fill to the outside before the next one happens;   *)
(* nothing else of the book runs meanwhile (one thread owns one book).     *)
(*                                                                         *)
(* Two parts are used here by what they promise and modelled in detail by  *)
(* modules of their own: the slot pool hands out some free slot (SlotPool  *)
(* refines that), the order index is a map from ids to entries (OrderIndex *)
(* refines that).  The fields of a free slot are indeterminate: the slot   *)
(* holds NULL_IDX, so that any use of it is an error.  The statistics      *)
(* counters are write-only; "result" names the return statement reached,   *)
(* which determines the counter it increments.                             *)
(***************************************************************************)
EXTENDS Levels, Lists, FiniteSets

CONSTANTS
    kMaxLevels,  \* levels per side
    Inputs,      \* the orders the caller may submit
    UniqueIds    \* TRUE: callers never submit the id of a resting order

ASSUME BookAssumption ==
    /\ IsFiniteSet(Slots)
    /\ kMaxLevels \in Nat \ {0}
    /\ Inputs \subseteq {o \in Order : o.qty_remaining = o.qty}
    /\ UniqueIds \in BOOLEAN

VARIABLES
    levels,     \* bids_ ("Buy") and asks_ ("Sell")
    slots,      \* slots_: the order in each slot, NULL_IDX when it is free
    used,       \* slots_.used
    index,      \* index_: the entry of each order id, NULL_IDX when absent
    pc,         \* "idle" between operations, "match" inside try_match
    incoming,   \* o, the order being added
    reports,    \* the calls of match_cb_ made by the current operation
    result,     \* the return statement the operation reached
    fifo,       \* history: the slots resting at each price, oldest first
    ledger      \* history: quantity that should rest, from reports and results

book == <<levels, slots, used, index, fifo, ledger>>
op == <<pc, incoming, reports, result>>
vars == <<levels, slots, used, index, pc, incoming, reports, result, fifo, ledger>>

-----------------------------------------------------------------------------
(* Slots, lists and index.                                                 *)

Free == {s \in Slots : slots[s] = NULL_IDX}
Live == {s \in Slots : slots[s] # NULL_IDX}

\* The slots met by following next from the head of a level.
Chain(l) ==
    LET n == Cardinality(Slots)
        node[k \in 1 .. n] ==
            IF k = 1 THEN l.head
            ELSE IF node[k - 1] = NULL_IDX THEN NULL_IDX ELSE slots[node[k - 1]].next
    IN  SelectSeq([k \in 1 .. n |-> node[k]], LAMBDA s : s # NULL_IDX)

\* Mutants: the entry is not written; the entry is not removed.
IndexedNot(id, s, sd) == index

\* index_.insert and index_.remove.
Indexed(id, s, sd) == [index EXCEPT ![id] = [slot |-> s, side |-> sd]]

UnindexedNot(id) == index

Unindexed(id) == [index EXCEPT ![id] = NULL_IDX]

-----------------------------------------------------------------------------
(* Matching: available_liquidity and try_match.                            *)

\* Mutants: no self-trade check; account 0 treated as an account.
SameAccountNever(o, s) == FALSE
SameAccountZero(o, s) == o.account_id = slots[s].account

SameAccount(o, s) == o.account_id # 0 /\ o.account_id = slots[s].account

Passive(o) == levels[Opposite(o.side)]

\* The levels available_liquidity walks before it breaks.
CrossedLevels(o) ==
    LET lv == Passive(o)
        stop == {i \in 1 .. Len(lv) : ~Crosses(o, lv[i].price)}
    IN  IF stop = {} THEN lv ELSE SubSeq(lv, 1, Min(stop) - 1)

\* Mutant: the walk does not stop at an order of the same account.
VisitThroughWall(o, w, s) ==
    IF w.stop THEN w
    ELSE LET t == w.total + slots[s].qty
         IN  [total |-> t, stop |-> t >= o.qty_remaining]

\* The walk returns early at an order of the same account, or once the total
\* covers the order.
Visit(o, w, s) ==
    IF w.stop THEN w
    ELSE IF SameAccount(o, s) THEN [w EXCEPT !.stop = TRUE]
    ELSE LET t == w.total + slots[s].qty
         IN  [total |-> t, stop |-> t >= o.qty_remaining]

\* The total is uint64_t and is clamped to Qty.
available_liquidity(o) ==
    LET lv == CrossedLevels(o)
        queue == FlattenSeq([i \in 1 .. Len(lv) |-> Chain(lv[i])])
        walk == FoldLeft(LAMBDA w, s : Visit(o, w, s), [total |-> 0, stop |-> FALSE], queue)
    IN  std_min(walk.total, QtyMod - 1)

\* The conditions of try_match's outer loop, and its self-trade check.
Marketable(o) ==
    /\ o.qty_remaining > 0
    /\ Passive(o) # <<>>
    /\ Crosses(o, Passive(o)[1].price)

Walled(o) == Marketable(o) /\ SameAccount(o, Passive(o)[1].head)

Matching == pc = "match" /\ Marketable(incoming) /\ ~Walled(incoming)

\* What one pass through the inner loop trades.
FillQty(o) == std_min(o.qty_remaining, slots[Passive(o)[1].head].qty)

MakeReport(o, n) ==
    [order_id |-> o.id, contra_order_id |-> slots[Passive(o)[1].head].id,
     exec_price |-> Passive(o)[1].price, exec_qty |-> n,
     leaves_qty |-> o.qty_remaining - n, side |-> o.side,
     exec_type |-> IF o.qty_remaining = n THEN "Fill" ELSE "PartialFill"]

Trade(n) ==
    /\ incoming' = [incoming EXCEPT !.qty_remaining = @ - n]
    /\ reports' = Append(reports, MakeReport(incoming, n))
    /\ ledger' = ledger - n
    /\ UNCHANGED <<pc, result>>

\* A fill that leaves the passive order with some quantity.
FillPartial ==
    LET sd == Opposite(incoming.side)
        n == FillQty(incoming)
        s == levels[sd][1].head
    IN  /\ Matching
        /\ n < slots[s].qty
        /\ Trade(n)
        /\ slots' = [slots EXCEPT ![s].qty = @ - n]
        /\ levels' = [levels EXCEPT ![sd][1].qty = (@ - n) % QtyMod]
        /\ UNCHANGED <<used, index, fifo>>

\* A fill that exhausts the passive order: it leaves its list, the index and
\* its slot, and the level is removed when it was the last one.
FillAndDequeue ==
    LET sd == Opposite(incoming.side)
        n == FillQty(incoming)
        l == levels[sd][1]
        l1 == DequeuedLevel(slots, l, n)
    IN  /\ Matching
        /\ n = slots[l.head].qty
        /\ Trade(n)
        /\ slots' = DequeuedSlots(slots, l.head)
        /\ levels' = [levels EXCEPT ![sd] = IF l1.count = 0 THEN remove_level(@, 1)
                                            ELSE [@ EXCEPT ![1] = l1]]
        /\ used' = used - 1
        /\ index' = Unindexed(slots[l.head].id)
        /\ fifo' = [fifo EXCEPT ![sd][l.price] = Tail(@)]

-----------------------------------------------------------------------------
(* add_order.                                                              *)

LiveIds == {slots[s].id : s \in Live}

Return(r) == pc' = "done" /\ result' = r

\* FOK is checked against the liquidity before anything executes.
add_order(o) ==
    /\ pc = "idle"
    /\ UniqueIds => o.id \notin LiveIds
    /\ incoming' = o
    /\ IF o.type = "FOK" /\ available_liquidity(o) < o.qty_remaining
       THEN Return("fok_rejected")
       ELSE pc' = "match" /\ UNCHANGED result
    /\ UNCHANGED <<book, reports>>

\* try_match has returned.
Matched == pc = "match" /\ (~Marketable(incoming) \/ Walled(incoming))

\* Mutant: an order that does not rest is matched again and again.
FinishUnrestedRetries ==
    /\ Matched
    /\ \/ incoming.type # "Limit" /\ UNCHANGED vars
       \/ /\ incoming.type = "Limit" /\ (incoming.qty_remaining = 0 \/ Walled(incoming))
          /\ Return("filled")
          /\ UNCHANGED <<book, incoming, reports>>

\* Market, IOC and FOK never rest; neither does a filled or a walled order.
FinishUnrested ==
    /\ Matched
    /\ \/ incoming.type # "Limit" /\ Return("expired")
       \/ incoming.type = "Limit" /\ incoming.qty_remaining = 0 /\ Return("filled")
       \/ incoming.type = "Limit" /\ Walled(incoming) /\ Return("walled")
    /\ UNCHANGED <<book, incoming, reports>>

\* A Limit order's remainder is to be booked.
Resting ==
    /\ Matched
    /\ incoming.type = "Limit"
    /\ incoming.qty_remaining > 0
    /\ ~Walled(incoming)

CreatesLevel == find_level(levels[incoming.side], incoming.price) = 0
NoRoom == CreatesLevel /\ Len(levels[incoming.side]) >= kMaxLevels

RejectNoLevel ==
    /\ Resting
    /\ NoRoom
    /\ Return("no_level")
    /\ UNCHANGED <<book, incoming, reports>>

\* The levels of the order's side once its level is there.
WithLevel ==
    LET lv == levels[incoming.side]
    IN  IF CreatesLevel THEN insert_level(incoming.side, lv, incoming.price) ELSE lv

\* The pool is exhausted: a level created a moment ago is removed again.
RolledBack ==
    IF CreatesLevel THEN remove_level(WithLevel, find_level(WithLevel, incoming.price))
    ELSE WithLevel

RejectNoSlot ==
    /\ Resting
    /\ ~NoRoom
    /\ Free = {}
    /\ levels' = [levels EXCEPT ![incoming.side] = RolledBack]
    /\ Return("no_slot")
    /\ UNCHANGED <<slots, used, index, fifo, ledger, incoming, reports>>

\* Mutant: the original quantity is booked, not the remainder.
NewSlotFullQty(o) == [id |-> o.id, account |-> o.account_id, qty |-> o.qty,
                      price |-> o.price, next |-> NULL_IDX, prev |-> NULL_IDX]

\* The slot of a booked order, not linked yet.
NewSlot(o) == [id |-> o.id, account |-> o.account_id, qty |-> o.qty_remaining,
               price |-> o.price, next |-> NULL_IDX, prev |-> NULL_IDX]

RestOrder(s) ==
    LET o == incoming
        i == find_level(WithLevel, o.price)
        l == WithLevel[i]
        l1 == BookedLevel(l, s, o.qty_remaining)
    IN  /\ Resting
        /\ ~NoRoom
        /\ s \in Free
        /\ slots' = AppendSlots(slots, l, s, NewSlot(o))
        /\ levels' = [levels EXCEPT ![o.side] = [WithLevel EXCEPT ![i] = l1]]
        /\ used' = used + 1
        /\ index' = Indexed(o.id, s, o.side)
        /\ fifo' = [fifo EXCEPT ![o.side][o.price] = Append(@, s)]
        /\ ledger' = ledger + o.qty_remaining
        /\ Return("rested")
        /\ UNCHANGED <<incoming, reports>>

-----------------------------------------------------------------------------
(* cancel_order and modify_order.                                          *)

\* Level i, which becomes l1, loses slot s.
remove_order_from_level(sd, i, l1, s) ==
    /\ levels' = [levels EXCEPT ![sd] = IF l1.count = 0 THEN remove_level(@, i)
                                        ELSE [@ EXCEPT ![i] = l1]]
    /\ slots' = [UnlinkSlots(slots, s) EXCEPT ![s] = NULL_IDX]
    /\ used' = used - 1
    /\ fifo' = [fifo EXCEPT ![sd][slots[s].price] = RemoveAt(@, Position(@, s))]
    /\ ledger' = ledger - slots[s].qty

\* Both operations start alike: an unknown id, or an entry whose level is gone.
LevelOf(e) == find_level(levels[e.side], slots[e.slot].price)

Refuse(id) ==
    LET e == index[id]
    IN  IF e = NULL_IDX THEN Return("unknown_id") /\ UNCHANGED index
        ELSE Return("level_gone") /\ index' = Unindexed(id)

Found(id) == index[id] # NULL_IDX /\ LevelOf(index[id]) # 0

cancel_order(id) ==
    LET e == index[id]
        i == LevelOf(e)
    IN  /\ pc = "idle"
        /\ IF Found(id)
           THEN /\ remove_order_from_level(e.side, i,
                       RemovedLevel(slots, levels[e.side][i], e.slot, slots[e.slot].qty), e.slot)
                /\ index' = Unindexed(id)
                /\ Return("cancelled")
           ELSE Refuse(id) /\ UNCHANGED <<levels, slots, used, fifo, ledger>>
        /\ UNCHANGED <<incoming, reports>>

\* More quantity: the order moves to the tail of its level.
IncreaseQty(e, i, q) ==
    LET s == e.slot
        l == UnlinkLevel(slots, levels[e.side][i], s)
        l1 == RequeuedLevel(l, s, q - slots[s].qty)
    IN  /\ slots' = AppendSlots(UnlinkSlots(slots, s), l, s, [slots[s] EXCEPT !.qty = q])
        /\ levels' = [levels EXCEPT ![e.side][i] = l1]
        /\ fifo' = [fifo EXCEPT ![e.side][slots[s].price] =
                        Append(RemoveAt(@, Position(@, s)), s)]
        /\ ledger' = ledger + (q - slots[s].qty)
        /\ UNCHANGED <<used, index>>

\* Less quantity: the order keeps its place, or leaves when nothing is left.
DecreaseQty(id, e, i, q) ==
    LET s == e.slot
        l == [levels[e.side][i] EXCEPT !.qty = (@ - (slots[s].qty - q)) % QtyMod]
    IN  IF q = 0
        THEN /\ remove_order_from_level(e.side, i, RemovedLevel(slots, l, s, 0), s)
             /\ index' = Unindexed(id)
        ELSE /\ slots' = [slots EXCEPT ![s].qty = q]
             /\ levels' = [levels EXCEPT ![e.side][i] = l]
             /\ ledger' = ledger - (slots[s].qty - q)
             /\ UNCHANGED <<used, index, fifo>>

modify_order(id, q) ==
    LET e == index[id]
        i == LevelOf(e)
    IN  /\ pc = "idle"
        /\ \/ /\ ~Found(id)
              /\ Refuse(id)
              /\ UNCHANGED <<levels, slots, used, fifo, ledger>>
           \/ /\ Found(id)
              /\ \/ q > slots[e.slot].qty /\ IncreaseQty(e, i, q)
                 \/ q < slots[e.slot].qty /\ DecreaseQty(id, e, i, q)
                 \/ q = slots[e.slot].qty /\ UNCHANGED book
              /\ Return("modified")
        /\ UNCHANGED <<incoming, reports>>

\* The operation returns to its caller.
Returned ==
    /\ pc = "done"
    /\ pc' = "idle"
    /\ incoming' = NoOrder
    /\ reports' = <<>>
    /\ result' = NoResult
    /\ UNCHANGED book

\* best_quote: <<price, quantity>> of one side's best level.
best_quote(sd) ==
    IF levels[sd] = <<>> THEN <<>> ELSE <<levels[sd][1].price, levels[sd][1].qty>>

-----------------------------------------------------------------------------
Init ==
    /\ levels = [sd \in Sides |-> <<>>]
    /\ slots = [s \in Slots |-> NULL_IDX]
    /\ used = 0
    /\ index = [id \in OrderIds |-> NULL_IDX]
    /\ pc = "idle"
    /\ incoming = NoOrder
    /\ reports = <<>>
    /\ result = NoResult
    /\ fifo = [sd \in Sides |-> [p \in Prices |-> <<>>]]
    /\ ledger = 0

\* The steps that carry a started operation on.
Proceed ==
    \/ FillPartial
    \/ FillAndDequeue
    \/ FinishUnrested
    \/ RejectNoLevel
    \/ RejectNoSlot
    \/ \E s \in Slots : RestOrder(s)
    \/ Returned

Next ==
    \/ \E o \in Inputs : add_order(o)
    \/ \E id \in OrderIds : cancel_order(id)
    \/ \E id \in OrderIds, q \in Qty : modify_order(id, q)
    \/ Proceed

Spec == Init /\ [][Next]_vars

\* An operation that has started is carried to its end by its own thread.
FairSpec == Spec /\ WF_vars(Proceed)

-----------------------------------------------------------------------------
(* Properties.                                                             *)

TypeOK ==
    /\ levels \in [Sides -> Seq(Level)]
    /\ slots \in [Slots -> Slot \cup {NULL_IDX}]
    /\ used \in Int
    /\ index \in [OrderIds -> Entry \cup {NULL_IDX}]
    /\ pc \in {"idle", "match", "done"}
    /\ incoming \in Order \cup {NoOrder}
    /\ reports \in Seq(Report)
    /\ result \in Results \cup {NoResult}
    /\ fifo \in [Sides -> [Prices -> Seq(Slots)]]
    /\ ledger \in Int

LevelPrices(sd) == {levels[sd][i].price : i \in 1 .. Len(levels[sd])}

\* The lists are what they stand for: following next from a level's head gives
\* exactly the orders resting at its price in arrival order, prev is its
\* reverse, the tail is the last one, a price has a level exactly when orders
\* rest there (no empty level survives an operation or a rollback), and the
\* cached count is theirs.
ListsMatchQueues ==
    \A sd \in Sides :
        /\ \A p \in Prices : p \in LevelPrices(sd) <=> fifo[sd][p] # <<>>
        /\ \A i \in 1 .. Len(levels[sd]) :
              LET l == levels[sd][i]
                  q == fifo[sd][l.price]
              IN  l.head = q[1] /\ l.tail = q[Len(q)] /\ l.count = Len(q)
        /\ \A p \in Prices : \A k \in 1 .. Len(fifo[sd][p]) :
              LET q == fifo[sd][p]
                  r == slots[q[k]]
              IN  /\ r # NULL_IDX
                  /\ r.price = p
                  /\ r.prev = IF k = 1 THEN NULL_IDX ELSE q[k - 1]
                  /\ r.next = IF k = Len(q) THEN NULL_IDX ELSE q[k + 1]

\* Level quantities, which best_quote and the depth queries publish, are the
\* sum of the resting quantities in uint32_t arithmetic.
LevelQuantities ==
    \A sd \in Sides : \A i \in 1 .. Len(levels[sd]) :
        LET l == levels[sd][i]
        IN  l.qty = MapThenSumSet(LAMBDA s : slots[s].qty, Range(fifo[sd][l.price])) % QtyMod

\* Each side's array is strictly sorted, best price first, so that level 1 is
\* the best price and no price has two levels.
LevelsSorted ==
    \A sd \in Sides : \A i, j \in 1 .. Len(levels[sd]) :
        i < j => Better(sd, levels[sd][i].price, levels[sd][j].price)

\* Between operations the best bid is below the best ask, whatever mixture of
\* fills, walls, expiries and rejections came before.
NotCrossed ==
    pc # "match" /\ best_quote("Buy") # <<>> /\ best_quote("Sell") # <<>>
        => best_quote("Buy")[1] < best_quote("Sell")[1]

\* No slot leaks or is shared: the allocated slots are those in the queues,
\* each in one place, each with quantity left, and used counts them.
SlotsPartitioned ==
    LET places == UNION {{<<sd, p, k>> : k \in 1 .. Len(fifo[sd][p])} : sd \in Sides, p \in Prices}
        At(w) == fifo[w[1]][w[2]][w[3]]
    IN  /\ Live = {At(w) : w \in places}
        /\ Cardinality(Live) = Cardinality(places)
        /\ used = Cardinality(Live)
        /\ \A s \in Live : slots[s].qty > 0

\* An index entry always leads to a live order with that id on that side, also
\* when callers reuse the id of a resting order; so the "level gone" branches
\* of cancel_order and modify_order are never taken.
IndexSound ==
    /\ \A id \in OrderIds : index[id] # NULL_IDX =>
          LET s == index[id].slot
          IN  /\ s \in Live
              /\ slots[s].id = id
              /\ Contains(fifo[index[id].side][slots[s].price], s)
    /\ result # "level_gone"

\* When callers keep ids unique every resting order can be found by its id.
IndexComplete ==
    UniqueIds => \A s \in Live : /\ index[slots[s].id] # NULL_IDX
                                 /\ index[slots[s].id].slot = s

Traded == FoldSeq(LAMBDA r, t : r.exec_qty + t, 0, reports)

\* A fill-or-kill order trades all of its quantity or nothing, and what it
\* returns says which; it passes the liquidity check exactly when try_match,
\* self-trade walls included, can fill it.
FillOrKill ==
    pc = "done" /\ incoming # NoOrder /\ incoming.type = "FOK"
        => IF result = "fok_rejected" THEN reports = <<>> ELSE Traded = incoming.qty

\* The ledger of reports and return values balances with the book: what can
\* be reached from the levels is what was booked minus what was reported
\* traded, cancelled or modified away; and for the order being added
\* filled + remaining = original.
Conservation ==
    /\ ledger = MapThenSumSet(LAMBDA sd :
                    FoldSeq(LAMBDA l, t : t + FoldSeq(LAMBDA s, u : slots[s].qty + u, 0, Chain(l)),
                            0, levels[sd]), Sides)
    /\ incoming # NoOrder => Traded + incoming.qty_remaining = incoming.qty

\* What a step that reports a fill has done.
FillsBest ==
    Len(reports') > Len(reports) =>
        LET r == reports'[Len(reports')]
            sd == Opposite(incoming.side)
            q == fifo[sd][r.exec_price]
        IN  /\ q # <<>>
            /\ r.contra_order_id = slots[q[1]].id
            /\ slots'[q[1]] = NULL_IDX \/ slots'[q[1]].qty = slots[q[1]].qty - r.exec_qty
            /\ \A p \in Prices : Better(sd, p, r.exec_price) => fifo[sd][p] = <<>>
            /\ incoming.account_id # 0 => incoming.account_id # slots[q[1]].account

\* Every fill takes the oldest order at the best price of the whole side, at
\* that order's own price, and never one of the aggressor's own account.
PriceTimePriority == [][FillsBest]_vars

\* Every operation returns.
OperationsReturn == (pc # "idle") ~> (pc = "idle")

=============================================================================
