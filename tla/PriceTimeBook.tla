---------------------------- MODULE PriceTimeBook ----------------------------
(***************************************************************************)
(* What an order book with price-time priority promises, without arrays of *)
(* levels, links, slots or an index: each side holds one queue of orders   *)
(* per price.  The reference book of tests/test_conservation.cpp (a map of *)
(* deques) is this specification; OrderBook implements it when callers     *)
(* keep the ids of resting orders unique.                                  *)
(***************************************************************************)
EXTENDS Types, Sequences, FiniteSets, SequencesExt

CONSTANTS
    MaxOrders,   \* how many orders may rest
    MaxLevels,   \* how many prices of one side may have orders
    Inputs       \* the orders the caller may submit

VARIABLES
    queue,      \* queue[side][price]: the resting orders, oldest first
    pc, incoming, reports, result

vars == <<queue, pc, incoming, reports, result>>

Resting == [id : OrderIds, account : Nat, qty : Qty]

-----------------------------------------------------------------------------
PricesOf(sd) == {p \in Prices : queue[sd][p] # <<>>}

Best(sd) == CHOOSE p \in PricesOf(sd) : \A q \in PricesOf(sd) : ~Better(sd, q, p)

RestingIds ==
    UNION {{queue[sd][p][k].id : k \in 1 .. Len(queue[sd][p])} : sd \in Sides, p \in Prices}

NumResting == MapThenSumSet(LAMBDA sd : MapThenSumSet(LAMBDA p : Len(queue[sd][p]), Prices), Sides)

Own(o, r) == o.account_id # 0 /\ o.account_id = r.account

\* The orders o may trade with, in priority order, up to the first of its own.
Reach(o) ==
    LET sd == Opposite(o.side)
        ps == SetToSortSeq({p \in PricesOf(sd) : Crosses(o, p)}, LAMBDA p, q : Better(sd, p, q))
        all == FlattenSeq([i \in 1 .. Len(ps) |-> queue[sd][ps[i]]])
        own == {k \in 1 .. Len(all) : Own(o, all[k])}
    IN  IF own = {} THEN all ELSE SubSeq(all, 1, Min(own) - 1)

Fillable(o) == FoldSeq(LAMBDA r, t : r.qty + t, 0, Reach(o))

Return(r) == pc' = "done" /\ result' = r

\* A fill-or-kill order is refused at once unless it can be filled completely.
Submit(o) ==
    /\ pc = "idle"
    /\ incoming' = o
    /\ o.id \notin RestingIds
    /\ IF o.type = "FOK" /\ Fillable(o) < o.qty THEN Return("fok_rejected")
       ELSE pc' = "match" /\ UNCHANGED result
    /\ UNCHANGED <<queue, reports>>

CanTrade(o) == o.qty_remaining > 0 /\ Reach(o) # <<>>

\* Trade with the oldest order at the best price.
Trade ==
    LET o == incoming
        sd == Opposite(o.side)
        p == Best(sd)
        r == queue[sd][p][1]
        n == std_min(o.qty_remaining, r.qty)
    IN  /\ pc = "match"
        /\ CanTrade(o)
        /\ incoming' = [o EXCEPT !.qty_remaining = @ - n]
        /\ reports' = Append(reports,
             [order_id |-> o.id, contra_order_id |-> r.id, exec_price |-> p, exec_qty |-> n,
              leaves_qty |-> o.qty_remaining - n, side |-> o.side,
              exec_type |-> IF o.qty_remaining = n THEN "Fill" ELSE "PartialFill"])
        /\ queue' = [queue EXCEPT ![sd][p] = IF n = r.qty THEN Tail(@) ELSE [@ EXCEPT ![1].qty = r.qty - n]]
        /\ UNCHANGED <<pc, result>>

\* A remainder that could still trade, but only with an order of its account.
Blocked(o) ==
    /\ o.qty_remaining > 0
    /\ \E p \in PricesOf(Opposite(o.side)) : Crosses(o, p)

\* What happens to the remainder of an order that can trade no further.
Conclude ==
    LET o == incoming
        full == NumResting = MaxOrders
        newPrice == queue[o.side][o.price] = <<>>
    IN  /\ pc = "match"
        /\ ~CanTrade(o)
        /\ CASE o.type # "Limit" -> Return("expired") /\ UNCHANGED queue
             [] o.type = "Limit" /\ o.qty_remaining = 0 -> Return("filled") /\ UNCHANGED queue
             [] o.type = "Limit" /\ Blocked(o) -> Return("walled") /\ UNCHANGED queue
             [] OTHER ->
                  IF newPrice /\ Cardinality(PricesOf(o.side)) = MaxLevels
                  THEN Return("no_level") /\ UNCHANGED queue
                  ELSE IF full THEN Return("no_slot") /\ UNCHANGED queue
                  ELSE /\ Return("rested")
                       /\ queue' = [queue EXCEPT ![o.side][o.price] = Append(@,
                              [id |-> o.id, account |-> o.account_id, qty |-> o.qty_remaining])]
        /\ UNCHANGED <<incoming, reports>>

\* id rests as the k-th order at price p of side sd.
At(id, sd, p, k) == k \in 1 .. Len(queue[sd][p]) /\ queue[sd][p][k].id = id

Cancel(id) ==
    /\ pc = "idle"
    /\ \/ /\ Return("cancelled")
          /\ \E sd \in Sides, p \in Prices, k \in 1 .. MaxOrders :
                /\ At(id, sd, p, k)
                /\ queue' = [queue EXCEPT ![sd][p] = RemoveAt(@, k)]
       \/ Return("unknown_id") /\ id \notin RestingIds /\ UNCHANGED queue
    /\ UNCHANGED <<incoming, reports>>

\* More quantity loses priority, less keeps it, none removes the order.
Modified(s, k, q) ==
    LET r == [s[k] EXCEPT !.qty = q]
    IN  IF q > s[k].qty THEN Append(RemoveAt(s, k), r)
        ELSE IF q = 0 THEN RemoveAt(s, k)
        ELSE [s EXCEPT ![k] = r]

Modify(id, q) ==
    /\ pc = "idle"
    /\ \/ /\ Return("modified")
          /\ \E sd \in Sides, p \in Prices, k \in 1 .. MaxOrders :
                /\ At(id, sd, p, k)
                /\ queue' = [queue EXCEPT ![sd][p] = Modified(@, k, q)]
       \/ Return("unknown_id") /\ id \notin RestingIds /\ UNCHANGED queue
    /\ UNCHANGED <<incoming, reports>>

Returned ==
    /\ pc = "done"
    /\ pc' = "idle"
    /\ incoming' = NoOrder
    /\ reports' = <<>>
    /\ result' = NoResult
    /\ UNCHANGED queue

Init ==
    /\ queue = [sd \in Sides |-> [p \in Prices |-> <<>>]]
    /\ pc = "idle"
    /\ incoming = NoOrder
    /\ reports = <<>>
    /\ result = NoResult

Next ==
    \/ \E o \in Inputs : Submit(o)
    \/ Trade
    \/ Conclude
    \/ \E id \in OrderIds : Cancel(id)
    \/ \E id \in OrderIds, q \in Qty : Modify(id, q)
    \/ Returned

Spec == Init /\ [][Next]_vars
=============================================================================
