------------------------------ MODULE MCPipeline ------------------------------
EXTENDS Pipeline, Functions

Fill(s, side, price, qty) ==
    [symbol |-> s, side |-> side, exec_price |-> price, exec_qty |-> qty]

\* Fills that open, add to, reduce and turn round a position, of two symbols.
MCReports == {Fill("A", "Buy", 1, 2), Fill("A", "Sell", 3, 1), Fill("A", "Sell", 2, 3),
              Fill("B", "Sell", 2, 1)}

MCMessages == {[msg_type |-> kMsgNewOrder, fill |-> r] : r \in MCReports}
              \cup {[msg_type |-> kMsgHeartbeat, fill |-> NoFill]}

\* Three different messages, at least two of them fills of one symbol.
MCFeeds == {f \in [1 .. 3 -> MCMessages] :
               /\ IsInjective(f)
               /\ Cardinality({k \in 1 .. 3 : f[k].fill # NoFill /\ f[k].fill.symbol = "A"}) > 1}
=============================================================================
