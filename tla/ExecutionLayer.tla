---------------------------- MODULE ExecutionLayer ----------------------------
(***************************************************************************)
(* engine::ExecutionLayer (core/execution_layer.hpp, execution_layer.cpp): *)
(* takes execution reports from its inbound queue, on its own thread or    *)
(* from a caller's polling loop, and keeps a position per symbol.          *)
(***************************************************************************)
EXTENDS Integers, Sequences

CONSTANTS
    Symbols,
    Reports,      \* the reports that may come, [symbol, side, exec_price, exec_qty]
    ReportDepth,  \* places in inbound_
    kBatch        \* reports of one poll, 512 in run_loop and 256 by default

ASSUME ExecAssumption ==
    /\ \A r \in Reports : /\ r.symbol \in Symbols /\ r.side \in {"Buy", "Sell"}
                          /\ r.exec_price \in Int /\ r.exec_qty \in Nat \ {0}
    /\ ReportDepth \in Nat \ {0} /\ kBatch \in Nat \ {0}

VARIABLES
    inbound_, positions_, running_,
    xpc, count,    \* the thread or the caller: none, loop (at the while of
                   \* run_loop), poll, drain, exited, call; count of poll
    stopping,      \* a thread is inside stop(), in join()
    owed,          \* history: reports in inbound_ when stop() began and still there
    cash,          \* history: what the fills of a symbol paid
    exact          \* history: no fill added to or turned round the position at
                   \* a price other than avg_cost

book == <<positions_, cash, exact>>
execVars == <<inbound_, positions_, running_, xpc, count, stopping, owed, cash, exact>>

-----------------------------------------------------------------------------
(* process_report *)

Abs(n) == IF n < 0 THEN -n ELSE n
Less(a, b) == IF a < b THEN a ELSE b
signed_qty(r) == IF r.side = "Buy" THEN r.exec_qty ELSE -r.exec_qty

\* The fill is against the position.
Closes(pos, q) == (pos.net_qty > 0 /\ q < 0) \/ (pos.net_qty < 0 /\ q > 0)

close_qty(pos, q) == Less(Abs(pos.net_qty), Abs(q))

\* Mutant: a short position gains like a long one.
pnlUnsigned(pos, r, q) == (r.exec_price - pos.avg_cost) * close_qty(pos, q)

pnl(pos, r, q) ==
    IF pos.net_qty > 0
    THEN (r.exec_price - pos.avg_cost) * close_qty(pos, q)
    ELSE -((r.exec_price - pos.avg_cost) * close_qty(pos, q))

avg_cost(pos, r, q) ==
    IF pos.net_qty + q = 0 THEN 0
    ELSE IF pos.net_qty = 0 THEN r.exec_price ELSE pos.avg_cost

Filled(pos, r) ==
    LET q == signed_qty(r)
    IN  [net_qty      |-> pos.net_qty + q,
         realized_pnl |-> pos.realized_pnl + IF Closes(pos, q) THEN pnl(pos, r, q) ELSE 0,
         avg_cost     |-> avg_cost(pos, r, q),
         total_fills  |-> pos.total_fills + 1]

\* A fill for which "last exec price as avg cost for new positions" is right.
Simple(pos, r) ==
    LET q == signed_qty(r)
    IN  \/ pos.net_qty = 0 \/ r.exec_price = pos.avg_cost
        \/ Closes(pos, q) /\ Abs(q) <= Abs(pos.net_qty)

process_report(r) ==
    LET pos == positions_[r.symbol]
    IN  /\ positions_' = [positions_ EXCEPT ![r.symbol] = Filled(pos, r)]
        /\ cash' = [cash EXCEPT ![r.symbol] = @ - signed_qty(r) * r.exec_price]
        /\ exact' = [exact EXCEPT ![r.symbol] = @ /\ Simple(pos, r)]

-----------------------------------------------------------------------------
\* The producer of the queue.
Deliver(r) ==
    /\ Len(inbound_) < ReportDepth
    /\ inbound_' = Append(inbound_, r)
    /\ UNCHANGED <<book, running_, xpc, count, stopping, owed>>

start ==
    /\ xpc = "none"
    /\ running_' = TRUE
    /\ xpc' = "loop"
    /\ UNCHANGED <<inbound_, book, count, stopping, owed>>

stop ==
    /\ xpc \notin {"none", "call"} /\ ~stopping
    /\ running_' = FALSE
    /\ stopping' = TRUE
    /\ owed' = Len(inbound_)
    /\ UNCHANGED <<inbound_, book, xpc, count>>

StopReturns ==
    /\ stopping /\ xpc = "exited"
    /\ stopping' = FALSE
    /\ xpc' = "none"
    /\ UNCHANGED <<inbound_, book, running_, count, owed>>

\* poll called directly, without a thread.
PollCall ==
    /\ xpc = "none"
    /\ xpc' = "call"
    /\ count' = 0
    /\ UNCHANGED <<inbound_, book, running_, stopping, owed>>

\* Mutant: no drain on shutdown.
CheckRunningExits ==
    /\ xpc = "loop"
    /\ xpc' = IF running_ THEN "poll" ELSE "exited"
    /\ count' = 0
    /\ UNCHANGED <<inbound_, book, running_, stopping, owed>>

\* The while of run_loop: poll(512), or poll(INT32_MAX) once it is left.
CheckRunning ==
    /\ xpc = "loop"
    /\ xpc' = IF running_ THEN "poll" ELSE "drain"
    /\ count' = 0
    /\ UNCHANGED <<inbound_, book, running_, stopping, owed>>

PollStep ==
    /\ xpc \in {"poll", "call", "drain"}
    /\ xpc = "drain" \/ count < kBatch
    /\ inbound_ # <<>>
    /\ process_report(Head(inbound_))
    /\ inbound_' = Tail(inbound_)
    /\ count' = IF xpc = "drain" THEN 0 ELSE count + 1
    /\ owed' = IF owed > 0 THEN owed - 1 ELSE 0
    /\ UNCHANGED <<running_, xpc, stopping>>

PollReturns ==
    /\ xpc \in {"poll", "call", "drain"}
    /\ inbound_ = <<>> \/ (xpc # "drain" /\ count = kBatch)
    /\ xpc' = IF xpc = "poll" THEN "loop" ELSE IF xpc = "call" THEN "none" ELSE "exited"
    /\ count' = 0
    /\ UNCHANGED <<inbound_, book, running_, stopping, owed>>

Consume == CheckRunning \/ PollStep \/ PollReturns

-----------------------------------------------------------------------------
Flat == [net_qty |-> 0, realized_pnl |-> 0, avg_cost |-> 0, total_fills |-> 0]

ExecInit ==
    /\ inbound_ = <<>>
    /\ positions_ = [s \in Symbols |-> Flat]
    /\ running_ = FALSE /\ xpc = "none" /\ count = 0 /\ stopping = FALSE /\ owed = 0
    /\ cash = [s \in Symbols |-> 0]
    /\ exact = [s \in Symbols |-> TRUE]

ExecNext ==
    \/ \E r \in Reports : Deliver(r)
    \/ start \/ stop \/ StopReturns \/ PollCall \/ Consume

ExecSpec == ExecInit /\ [][ExecNext]_execVars

-----------------------------------------------------------------------------
(* Properties *)

\* The books balance: what a symbol has realized is what its fills paid plus
\* the open position at cost, for longs and shorts, through any partial
\* closes.  It takes exact: process_report keeps the first price when a fill
\* adds to a position or turns it round.
BooksBalance ==
    \A s \in Symbols : exact[s] =>
        positions_[s].realized_pnl = cash[s] + positions_[s].net_qty * positions_[s].avg_cost

\* When stop() returns, every report that was in the queue when it was called
\* has been booked, also those beyond a batch of poll.
StopBooksAll == xpc = "none" => owed = 0
=============================================================================
