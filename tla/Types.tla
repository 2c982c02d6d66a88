-------------------------------- MODULE Types --------------------------------
(***************************************************************************)
(* The value types of include/core/types.hpp that the order book and its   *)
(* specification share, and the comparisons of prices they agree on.       *)
(***************************************************************************)
EXTENDS Integers

CONSTANTS
    Prices,      \* the prices in use (fixed-point int64_t)
    OrderIds,    \* the order ids in use
    QtyMod,      \* 2^32: Qty is uint32_t
    NoOrder      \* no order is being added

Sides == {"Buy", "Sell"}
OrderTypes == {"Limit", "Market", "IOC", "FOK"}
Qty == 0 .. QtyMod - 1

\* struct Order; the book never reads symbol and status.
Order == [id : OrderIds, price : Prices, qty : Qty, qty_remaining : Qty,
          side : Sides, type : OrderTypes, account_id : Nat]

\* struct ExecutionReport; symbol is constant in one book.
Report == [order_id : OrderIds, contra_order_id : OrderIds,
           exec_price : Prices, exec_qty : Qty, leaves_qty : Qty,
           side : Sides, exec_type : {"Fill", "PartialFill"}]

\* The return statements of add_order, cancel_order and modify_order.
Results == {"fok_rejected", "no_level", "no_slot", "expired", "filled", "walled", "rested",
            "unknown_id", "level_gone", "cancelled", "modified"}
NoResult == "none"

ASSUME TypesAssumption ==
    /\ Prices \subseteq Int
    /\ QtyMod \in Nat \ {0}
    /\ NoOrder \notin Order

std_min(a, b) == IF a < b THEN a ELSE b

Opposite(sd) == IF sd = "Buy" THEN "Sell" ELSE "Buy"

\* The order of the price array: bids descending, asks ascending.
Better(sd, p, q) == IF sd = "Buy" THEN p > q ELSE p < q

\* Mutant: an equal price does not cross.
CrossesStrictly(o, p) ==
    \/ o.type = "Market"
    \/ IF o.side = "Buy" THEN o.price > p ELSE o.price < p

\* Only a Market order ignores its price.
Crosses(o, p) ==
    \/ o.type = "Market"
    \/ IF o.side = "Buy" THEN o.price >= p ELSE o.price <= p
=============================================================================
