------------------------------ MODULE BookTypes ------------------------------
(***************************************************************************)
(* The records an order book is stored in (include/core/order_book.hpp).   *)
(***************************************************************************)
EXTENDS Types

CONSTANTS
    Slots,       \* 0 .. kMaxOrders-1, the slots of the pool
    NULL_IDX     \* no slot

\* One allocated slot: the parallel arrays of SlotPool at one index.
Slot == [id : OrderIds, account : Nat, qty : Qty, price : Prices,
         next : Slots \cup {NULL_IDX}, prev : Slots \cup {NULL_IDX}]

\* One level: the parallel arrays of Side at one index.
Level == [price : Prices, qty : Qty, count : Nat,
          head : Slots \cup {NULL_IDX}, tail : Slots \cup {NULL_IDX}]

Entry == [slot : Slots, side : Sides]

ASSUME RecordsAssumption == NULL_IDX \notin Slots \cup Slot \cup Entry
=============================================================================
