--------------------------- MODULE MCMatchingEngine ---------------------------
EXTENDS MatchingEngine
\* An order with and one without an id, a heartbeat, and a cancel for a symbol
\* beyond the table.
SomeMessages ==
    {[msg_type |-> "NewOrder", symbol |-> 0, order_id |-> 0],
     [msg_type |-> "NewOrder", symbol |-> 1, order_id |-> 1],
     [msg_type |-> "Heartbeat", symbol |-> 0, order_id |-> 0],
     [msg_type |-> "CancelOrder", symbol |-> 2, order_id |-> 1]}
=============================================================================
