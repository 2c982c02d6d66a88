------------------------------ MODULE MarketData ------------------------------
(***************************************************************************)
(* engine::MarketDataIngestion (core/market_data.hpp, market_data.cpp):    *)
(* decodes the datagrams of a feed into its outbound queue and watches     *)
(* their sequence numbers.                                                 *)
(*                                                                         *)
(* The publisher numbers its messages consecutively.  The network loses,   *)
(* repeats, reorders and damages them: any message of the feed may arrive  *)
(* any time, whole or with one flaw.  A datagram holds at least the bytes  *)
(* its payload_len announces.                                              *)
(***************************************************************************)
EXTENDS Integers, Sequences

CONSTANTS
    Feeds,          \* the sequences of messages that may be published
    FirstSeq,       \* number of the first one
    FeedDepth,      \* places in outbound_
    MaxDatagrams    \* bound: calls of ingest, inject and reset_sequence

ASSUME FeedAssumption == FirstSeq \in Nat \ {0} /\ FeedDepth \in Nat \ {0}

VARIABLES
    feed,           \* what is published
    outbound_, expected_seq_, stat_ingested_, stat_gaps_, stat_errors_,
    calls,          \* calls so far
    taken,          \* history: messages accepted by outbound_, their places in feed
    plain,          \* history: inject and reset_sequence were never called
    refused         \* history: outbound_ was full

counts == <<stat_ingested_, stat_gaps_, stat_errors_>>
feedVars == <<feed, outbound_, expected_seq_, counts, calls, taken, plain, refused>>

\* A header cut short, a wrong magic, an unknown type, a payload too short for
\* its type.
Flaws == {"none", "runt", "magic", "type", "payload"}

Datagram(k, flaw) == [seq |-> FirstSeq + k - 1, flaw |-> flaw, place |-> k,
                      msg_type |-> IF flaw = "type" THEN 0 ELSE feed[k].msg_type]

kMsgNewOrder == 1
kMsgCancelOrder == 2
kMsgModify == 3
kMsgHeartbeat == 99

\* decode_new_order, decode_cancel and decode_modify check the length of the
\* payload, a heartbeat has none.
Decodes(d) ==
    \/ d.msg_type \in {kMsgNewOrder, kMsgCancelOrder, kMsgModify} /\ d.flaw # "payload"
    \/ d.msg_type = kMsgHeartbeat

Type(wire) == CASE wire = kMsgNewOrder -> "NewOrder"
                [] wire = kMsgCancelOrder -> "CancelOrder"
                [] wire = kMsgModify -> "ModifyOrder"
                [] wire = kMsgHeartbeat -> "Heartbeat"

Decoded(d) == [seq |-> d.seq, msg_type |-> Type(d.msg_type), fill |-> feed[d.place].fill]

-----------------------------------------------------------------------------
Called == calls < MaxDatagrams /\ calls' = calls + 1

Error == stat_errors_' = stat_errors_ + 1 /\ UNCHANGED <<outbound_, stat_ingested_, taken, refused>>

\* Mutant: only jumps forward count.
SeqCheckForward(d) ==
    /\ stat_gaps_' = IF expected_seq_ # 0 /\ d.seq > expected_seq_ THEN stat_gaps_ + 1
                     ELSE stat_gaps_
    /\ expected_seq_' = d.seq + 1

\* A gap is counted and reported (gap_cb_), and the message is taken all the
\* same: a late one moves the expectation back.
SeqCheck(d) ==
    /\ stat_gaps_' = IF expected_seq_ # 0 /\ d.seq # expected_seq_ THEN stat_gaps_ + 1
                     ELSE stat_gaps_
    /\ expected_seq_' = d.seq + 1

\* Nothing counts a message that finds the queue full.
Push(d) ==
    IF Len(outbound_) < FeedDepth
    THEN /\ outbound_' = Append(outbound_, Decoded(d))
         /\ stat_ingested_' = stat_ingested_ + 1
         /\ taken' = Append(taken, d.place)
         /\ UNCHANGED <<stat_errors_, refused>>
    ELSE /\ refused' = TRUE
         /\ UNCHANGED <<outbound_, stat_ingested_, stat_errors_, taken>>

ingest(d) ==
    /\ Called
    /\ IF d.flaw \in {"runt", "magic"}
       THEN Error /\ UNCHANGED <<expected_seq_, stat_gaps_>>
       ELSE /\ SeqCheck(d)
            /\ IF Decodes(d) THEN Push(d) ELSE Error
    /\ UNCHANGED <<feed, plain>>

\* A synthetic message, numbered by its caller.
inject(msg) ==
    /\ Called
    /\ outbound_' = IF Len(outbound_) < FeedDepth THEN Append(outbound_, msg) ELSE outbound_
    /\ plain' = FALSE
    /\ UNCHANGED <<feed, expected_seq_, counts, taken, refused>>

reset_sequence ==
    /\ Called
    /\ expected_seq_' = 0
    /\ plain' = FALSE
    /\ UNCHANGED <<feed, outbound_, counts, taken, refused>>

-----------------------------------------------------------------------------
FeedInit ==
    /\ feed \in Feeds
    /\ outbound_ = <<>> /\ expected_seq_ = 0
    /\ stat_ingested_ = 0 /\ stat_gaps_ = 0 /\ stat_errors_ = 0
    /\ calls = 0 /\ taken = <<>> /\ plain = TRUE /\ refused = FALSE

\* The statistics show no trouble.
Untroubled == plain /\ stat_gaps_ = 0 /\ stat_errors_ = 0 /\ ~refused
=============================================================================
