----------------------------- MODULE MCOrderBook -----------------------------
(* Instances of OrderBook for TLC.                                         *)
EXTENDS OrderBookRefinement, TLC

\* Orders of the given types; the price of a Market order is never read.
OrdersOf(ids, prices, qtys, types, accounts) ==
    {[id |-> id, price |-> p, qty |-> q, qty_remaining |-> q, side |-> sd,
      type |-> ty, account_id |-> a] :
        id \in ids, p \in prices, q \in qtys, sd \in Sides, ty \in types, a \in accounts}

AllInputs(accounts) ==
    OrdersOf(OrderIds, Prices, Qty, {"Limit", "IOC", "FOK"}, accounts)
    \cup OrdersOf(OrderIds, {CHOOSE p \in Prices : TRUE}, Qty, {"Market"}, accounts)

UntrackedInputs == AllInputs({0})
TwoAccountInputs == AllInputs({0, 1})

Symmetry == Permutations(Slots) \cup Permutations(OrderIds)
=============================================================================
