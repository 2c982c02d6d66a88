------------------------- MODULE OrderBookRefinement -------------------------
(* OrderBook as an implementation of PriceTimeBook.                        *)
EXTENDS OrderBook

\* The book without its representation: the orders in each queue.
AbstractQueue ==
    [sd \in Sides |-> [p \in Prices |->
        [k \in 1 .. Len(fifo[sd][p]) |->
            LET r == slots[fifo[sd][p][k]]
            IN  [id |-> r.id, account |-> r.account, qty |-> r.qty]]]]

PriceTime == INSTANCE PriceTimeBook
    WITH queue <- AbstractQueue, MaxOrders <- Cardinality(Slots), MaxLevels <- kMaxLevels

\* With unique ids the book implements price-time priority queues: the same
\* reports in the same order, the same results, the same orders left.
ImplementsPriceTime == PriceTime!Spec
=============================================================================
