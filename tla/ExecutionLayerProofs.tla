------------------------- MODULE ExecutionLayerProofs -------------------------
(***************************************************************************)
(* The books of ExecutionLayer balance for every sequence of reports, with *)
(* any prices and quantities.                                              *)
(***************************************************************************)
EXTENDS ExecutionLayer, TLAPS

Position == [net_qty : Int, realized_pnl : Int, avg_cost : Int, total_fills : Nat]

\* Realized P&L against cash and the position at cost.
Balanced(pos, c) == pos.realized_pnl = c + pos.net_qty * pos.avg_cost

-----------------------------------------------------------------------------
\* The signed quantity of a report is an integer other than 0, its price one.
LEMMA ReportType ==
    ASSUME NEW r \in Reports
    PROVE  signed_qty(r) \in Int /\ signed_qty(r) # 0 /\ r.exec_price \in Int /\ r.symbol \in Symbols
BY ExecAssumption DEF signed_qty

\* What Filled returns is a position.
LEMMA FilledType ==
    ASSUME NEW pos \in Position, NEW r \in Reports
    PROVE  Filled(pos, r) \in Position
<1> DEFINE q == signed_qty(r)
<1>1. q \in Int /\ r.exec_price \in Int BY ReportType
<1>2. pos.net_qty \in Int /\ pos.realized_pnl \in Int /\ pos.avg_cost \in Int /\ pos.total_fills \in Nat
  BY DEF Position
<1>3. close_qty(pos, q) \in Int BY <1>1, <1>2 DEF close_qty, Less, Abs
<1>4. pnl(pos, r, q) \in Int BY <1>1, <1>2, <1>3 DEF pnl
<1>5. avg_cost(pos, r, q) \in Int BY <1>1, <1>2 DEF avg_cost
<1> QED BY <1>1, <1>2, <1>4, <1>5 DEF Filled, Position

\* Moving q at price p into a position at cost a.
LEMMA Distribute ==
    ASSUME NEW n \in Int, NEW q \in Int, NEW a \in Int, NEW p \in Int
    PROVE  /\ (n + q) * a = n * a + q * a
           /\ (p - a) * (-q) = q * a - q * p
           /\ -((p - a) * q) = q * a - q * p
           /\ n * a \in Int /\ q * a \in Int /\ q * p \in Int
BY SMT

\* A simple fill keeps a position balanced.
LEMMA FillBalances ==
    ASSUME NEW pos \in Position, NEW r \in Reports, NEW c \in Int,
           Balanced(pos, c), Simple(pos, r)
    PROVE  Balanced(Filled(pos, r), c - signed_qty(r) * r.exec_price)
<1> DEFINE q == signed_qty(r)
           p == r.exec_price
           n == pos.net_qty
           a == pos.avg_cost
           b == avg_cost(pos, r, q)
           g == IF Closes(pos, q) THEN pnl(pos, r, q) ELSE 0
<1>1. q \in Int /\ q # 0 /\ p \in Int /\ n \in Int /\ a \in Int /\ pos.realized_pnl \in Int
  BY ReportType DEF Position
<1>2. pos.realized_pnl = c + n * a
  BY DEF Balanced
<1>3. /\ (n + q) * a = n * a + q * a /\ (p - a) * (-q) = q * a - q * p
      /\ -((p - a) * q) = q * a - q * p
      /\ n * a \in Int /\ q * a \in Int /\ q * p \in Int
  <2> HIDE DEF q, p, n, a
  <2> QED BY <1>1, Distribute
<1>4. SUFFICES pos.realized_pnl + g = (c - q * p) + (n + q) * b
  BY DEF Balanced, Filled
<1>5. CASE n = 0
  <2>1. g = 0 /\ b = p BY <1>5, <1>1 DEF Closes, avg_cost
  <2>2. n * a = 0 /\ (n + q) * b = q * p BY <1>5, <2>1, <1>1
  <2> HIDE DEF q, p, n, a, b, g
  <2> QED BY <2>1, <2>2, <1>1, <1>2, <1>3
<1>6. CASE n # 0 /\ p = a
  <2>1. close_qty(pos, q) \in Int BY <1>1 DEF close_qty, Less, Abs
  <2>2. g = 0 BY <1>6, <2>1, <1>1 DEF pnl
  <2>3. b = a \/ (n + q = 0 /\ b = 0) BY <1>6, <1>1 DEF avg_cost
  <2>4. (n + q) * b = (n + q) * a BY <2>3, <1>1
  <2>5. q * p = q * a BY <1>6
  <2> HIDE DEF q, p, n, a, b, g
  <2> QED BY <2>2, <2>4, <2>5, <1>1, <1>2, <1>3
<1>7. CASE n # 0 /\ Closes(pos, q) /\ Abs(q) <= Abs(n)
  <2>1. g = q * a - q * p
    <3>1. CASE n > 0
      <4>1. close_qty(pos, q) = -q BY <1>7, <3>1, <1>1 DEF Closes, close_qty, Less, Abs
      <4>2. g = (p - a) * (-q) BY <1>7, <3>1, <4>1 DEF pnl
      <4> QED BY <4>2, <1>3
    <3>2. CASE n < 0
      <4>1. close_qty(pos, q) = q BY <1>7, <3>2, <1>1 DEF Closes, close_qty, Less, Abs
      <4>2. g = -((p - a) * q) BY <1>7, <3>2, <4>1, <1>1 DEF pnl
      <4> QED BY <4>2, <1>3
    <3> QED BY <1>7, <1>1, <3>1, <3>2
  <2>2. b = a \/ (n + q = 0 /\ b = 0) BY <1>7, <1>1 DEF avg_cost
  <2>3. (n + q) * b = (n + q) * a BY <2>2, <1>1
  <2> HIDE DEF q, p, n, a, b, g
  <2> QED BY <2>1, <2>3, <1>1, <1>2, <1>3
<1> QED BY <1>5, <1>6, <1>7 DEF Simple

-----------------------------------------------------------------------------
\* The inductive invariant.
BookInv ==
    /\ inbound_ \in Seq(Reports)
    /\ positions_ \in [Symbols -> Position]
    /\ cash \in [Symbols -> Int] /\ exact \in [Symbols -> BOOLEAN]
    /\ \A s \in Symbols : exact[s] => Balanced(positions_[s], cash[s])

\* One report booked.
LEMMA ProcessKeeps ==
    ASSUME BookInv, NEW r \in Reports, process_report(r), inbound_' \in Seq(Reports)
    PROVE  BookInv'
<1> DEFINE y == r.symbol
<1>1. y \in Symbols /\ positions_[y] \in Position /\ cash[y] \in Int
  BY ReportType DEF BookInv
<1>2. /\ positions_' = [positions_ EXCEPT ![y] = Filled(positions_[y], r)]
      /\ cash' = [cash EXCEPT ![y] = cash[y] - signed_qty(r) * r.exec_price]
      /\ exact' = [exact EXCEPT ![y] = exact[y] /\ Simple(positions_[y], r)]
  BY DEF process_report
<1>3. Filled(positions_[y], r) \in Position BY <1>1, FilledType
<1>4. cash[y] - signed_qty(r) * r.exec_price \in Int
  BY <1>1, ReportType
<1>5. positions_' \in [Symbols -> Position] /\ cash' \in [Symbols -> Int]
  BY <1>1, <1>2, <1>3, <1>4 DEF BookInv
<1>6. exact' \in [Symbols -> BOOLEAN]
  BY <1>1, <1>2, Zenon DEF BookInv, Simple
<1>7. ASSUME NEW s \in Symbols, exact'[s] PROVE Balanced(positions_'[s], cash'[s])
  <2>1. CASE s # y
    BY <2>1, <1>2, <1>7, <1>1 DEF BookInv
  <2>2. CASE s = y
    <3>1. exact[y] /\ Simple(positions_[y], r)
      BY <2>2, <1>2, <1>7, <1>1, Zenon DEF BookInv
    <3>2. Balanced(positions_[y], cash[y]) BY <3>1, <1>1 DEF BookInv
    <3>3. Balanced(Filled(positions_[y], r), cash[y] - signed_qty(r) * r.exec_price)
      BY <3>1, <3>2, <1>1, FillBalances
    <3>4. /\ positions_'[s] = Filled(positions_[y], r)
          /\ cash'[s] = cash[y] - signed_qty(r) * r.exec_price
      BY <2>2, <1>2, <1>1 DEF BookInv
    <3> QED BY <3>3, <3>4
  <2> QED BY <2>1, <2>2
<1> QED BY <1>5, <1>6, <1>7 DEF BookInv

\* The realized P&L of every symbol agrees with its cash and its open position,
\* as long as no fill adds to a position or turns it round at a new price.
THEOREM Balance == ExecSpec => []BooksBalance
<1>1. ExecInit => BookInv
  BY DEF ExecInit, BookInv, Balanced, Flat, Position
<1>2. ASSUME BookInv, [ExecNext]_execVars PROVE BookInv'
  <2>1. ASSUME NEW r \in Reports, Deliver(r) PROVE BookInv'
    <3>1. inbound_' \in Seq(Reports) /\ UNCHANGED <<positions_, cash, exact>>
      BY <2>1, <1>2 DEF Deliver, BookInv, book
    <3> QED BY <3>1, <1>2 DEF BookInv
  <2>2. CASE PollStep
    <3>1. inbound_ # <<>> /\ process_report(Head(inbound_)) /\ inbound_' = Tail(inbound_)
      BY <2>2 DEF PollStep
    <3>2. Head(inbound_) \in Reports /\ Tail(inbound_) \in Seq(Reports)
      BY <3>1, <1>2 DEF BookInv
    <3> QED BY <3>1, <3>2, <1>2, ProcessKeeps
  <2>3. CASE \/ start \/ stop \/ StopReturns \/ PollCall \/ CheckRunning \/ PollReturns
             \/ UNCHANGED execVars
    <3>1. UNCHANGED <<inbound_, positions_, cash, exact>>
      BY <2>3 DEF start, stop, StopReturns, PollCall, CheckRunning, PollReturns, execVars, book
    <3> QED BY <3>1, <1>2 DEF BookInv
  <2> QED BY <1>2, <2>1, <2>2, <2>3 DEF ExecNext, Consume
<1>3. BookInv => BooksBalance
  BY DEF BookInv, BooksBalance, Balanced
<1> QED BY <1>1, <1>2, <1>3, PTL DEF ExecSpec

-----------------------------------------------------------------------------
\* What stop() owes is at the front of the queue, and the thread leaves its
\* drain only when the queue is empty.
StopInv ==
    /\ inbound_ \in Seq(Reports) /\ owed \in Nat /\ owed <= Len(inbound_)
    /\ xpc \in {"none", "call", "loop", "poll", "drain", "exited"}
    /\ xpc \in {"drain", "exited"} => stopping
    /\ running_ = FALSE /\ xpc \in {"loop", "poll"} => stopping
    /\ xpc \in {"none", "call", "exited"} => owed = 0

\* When stop() has returned, every report queued before it was called has been
\* booked by poll, for any batch and any length of the queue.
THEOREM StopBooks == ExecSpec => []StopBooksAll
<1>1. ExecInit => StopInv
  BY DEF ExecInit, StopInv
<1>2. ASSUME StopInv, [ExecNext]_execVars PROVE StopInv'
  <2> USE <1>2 DEF StopInv
  <2>1. ASSUME NEW r \in Reports, Deliver(r) PROVE StopInv'
    BY <2>1 DEF Deliver
  <2>2. CASE start
    BY <2>2 DEF start
  <2>3. CASE stop
    BY <2>3 DEF stop
  <2>4. CASE StopReturns
    BY <2>4 DEF StopReturns
  <2>5. CASE PollCall
    BY <2>5 DEF PollCall
  <2>6. CASE CheckRunning
    BY <2>6 DEF CheckRunning
  <2>7. CASE PollStep
    <3>1. inbound_ # <<>> /\ inbound_' = Tail(inbound_) /\ UNCHANGED <<running_, xpc, stopping>>
      BY <2>7 DEF PollStep
    <3>2. owed' = IF owed > 0 THEN owed - 1 ELSE 0
      BY <2>7 DEF PollStep
    <3>3. Tail(inbound_) \in Seq(Reports) /\ Len(Tail(inbound_)) = Len(inbound_) - 1 /\ Len(inbound_) > 0
      BY <3>1
    <3> QED BY <3>1, <3>2, <3>3
  <2>8. CASE PollReturns
    <3>1. xpc = "drain" => owed = 0
      BY <2>8 DEF PollReturns
    <3> QED BY <2>8, <3>1 DEF PollReturns
  <2>9. CASE UNCHANGED execVars
    BY <2>9 DEF execVars
  <2> QED BY <1>2, <2>1, <2>2, <2>3, <2>4, <2>5, <2>6, <2>7, <2>8, <2>9 DEF ExecNext, Consume
<1>3. StopInv => StopBooksAll
  BY DEF StopInv, StopBooksAll
<1> QED BY <1>1, <1>2, <1>3, PTL DEF ExecSpec
=============================================================================
