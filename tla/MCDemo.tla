-------------------------------- MODULE MCDemo --------------------------------
EXTENDS Demo
SimMessages ==
    {[msg_type |-> "NewOrder", symbol |-> 0, order_id |-> 1],
     [msg_type |-> "CancelOrder", symbol |-> 0, order_id |-> 1]}
=============================================================================
