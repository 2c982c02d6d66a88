------------------------------- MODULE Pipeline -------------------------------
(***************************************************************************)
(* MarketDataIngestion -> matching engine -> ExecutionLayer, the pipeline  *)
(* main.cpp names: a program that uses the library carries messages from   *)
(* the first queue to an engine and its reports to the second.  What a     *)
(* message trades is fixed with the feed; MatchingEngine and OrderBook     *)
(* model the stage itself.                                                 *)
(***************************************************************************)
EXTENDS MarketData, ExecutionLayer, FiniteSets, FiniteSetsExt

CONSTANT NoFill    \* a message that trades nothing

VARIABLE dropped    \* a report found its queue full (on_execution ignores it)

allVars == <<feedVars, execVars, dropped>>

-----------------------------------------------------------------------------
FeedStep ==
    /\ \/ \E k \in DOMAIN feed, flaw \in Flaws : ingest(Datagram(k, flaw))
       \/ inject([seq |-> 0, msg_type |-> "Heartbeat", fill |-> NoFill])
       \/ reset_sequence
    /\ UNCHANGED <<execVars, dropped>>

\* The program around the library takes a message to the engine, and the
\* report of its fill to the execution layer.
Forward ==
    LET r == Head(outbound_).fill
    IN  /\ outbound_ # <<>>
        /\ outbound_' = Tail(outbound_)
        /\ IF r # NoFill /\ Len(inbound_) < ReportDepth
           THEN Deliver(r) /\ UNCHANGED dropped
           ELSE dropped' = (dropped \/ r # NoFill) /\ UNCHANGED execVars
        /\ UNCHANGED <<feed, expected_seq_, counts, calls, taken, plain, refused>>

ExecStep == (start \/ stop \/ StopReturns \/ PollCall \/ Consume) /\ UNCHANGED <<feedVars, dropped>>

PipelineInit == FeedInit /\ ExecInit /\ dropped = FALSE

PipelineNext == FeedStep \/ Forward \/ ExecStep

PipelineSpec == PipelineInit /\ [][PipelineNext]_allVars

-----------------------------------------------------------------------------
(* Properties *)

FillsOf(s, places) == {k \in places : feed[k].fill # NoFill /\ feed[k].fill.symbol = s}

\* If no statistic and no full queue shows trouble, nothing was lost, repeated
\* or reordered on the way: what was taken from the feed is an unbroken part
\* of it, and once the queues are empty the positions are those of every fill
\* of that part, once.
UntroubledIsRight ==
    Untroubled =>
        /\ \A n \in 1 .. Len(taken) - 1 : taken[n + 1] = taken[n] + 1
        /\ ~dropped /\ outbound_ = <<>> /\ inbound_ = <<>> =>
              \A s \in Symbols :
                  LET fills == FillsOf(s, {taken[n] : n \in DOMAIN taken})
                  IN  /\ positions_[s].total_fills = Cardinality(fills)
                      /\ positions_[s].net_qty =
                            MapThenSumSet(LAMBDA k : signed_qty(feed[k].fill), fills)
=============================================================================
