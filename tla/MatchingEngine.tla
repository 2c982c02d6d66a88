---------------------------- MODULE MatchingEngine ----------------------------
(***************************************************************************)
(* engine::MatchingEngine (src/core/matching_engine.cpp): one thread takes *)
(* messages from the inbound queue, applies them to the book of their      *)
(* symbol, and puts the execution reports of the book's match callback on  *)
(* the outbound queue.  Other threads submit messages, poll reports, and   *)
(* start and stop the engine.                                              *)
(*                                                                         *)
(* The queues are BoundedQueues, which SPSCQueue implements.  A book is    *)
(* the sequence of operations applied to it; a new order executes up to    *)
(* MaxFills times, each execution being a step because the reports can be  *)
(* polled meanwhile.  (OrderBook says which executions.)                   *)
(***************************************************************************)
EXTENDS Integers, Sequences, SequencesExt

CONSTANTS
    Symbols,       \* symbols a message may carry
    kMaxSymbols,   \* size of books_
    Messages,      \* messages a producer may submit
    QueueLimit,    \* kQueueDepth - 1, the places of each queue
    MaxMessages,   \* bound: messages accepted in all
    MaxFills,      \* bound: executions of one order
    MaxStarts      \* bound: calls of start

MsgTypes == {"NewOrder", "CancelOrder", "ModifyOrder", "Heartbeat"}
Message == [msg_type : MsgTypes, symbol : Symbols, order_id : Nat]

\* A submitted message; n tells submissions of equal messages apart.
Submission == [msg : Message, n : Nat \ {0}]
Operation == [msg_type : MsgTypes, id : Nat, n : Nat \ {0}]
Idle == [n |-> 0]

ASSUME EngineAssumption ==
    /\ Symbols \subseteq Nat
    /\ Messages \subseteq Message
    /\ {kMaxSymbols, QueueLimit, MaxMessages, MaxFills, MaxStarts} \subseteq Nat

VARIABLES
    inbound_, outbound_,
    registered,       \* the symbols whose books_ entry is set
    books_,           \* the operations applied to each book
    running_,
    thread,           \* engine_thread_: "none", at the main loop's condition ("loop"),
                      \* in its body ("poll"), in the second loop ("drain"), "exited"
    msg, fills,       \* the message in process_message, its executions so far
    stat_messages_, stat_matches_, next_order_id_,
    stopping,         \* stop() is waiting in join()
    accepted,         \* history: messages submit() accepted
    due,              \* history: how many were accepted before the last stop() began
    delivered,        \* history: reports poll_report() returned
    dropped,          \* history: reports lost to a full outbound queue
    starts            \* calls of start()

input == <<inbound_, accepted>>
processing == <<registered, books_, msg, fills, stat_messages_, next_order_id_>>
output == <<outbound_, stat_matches_, delivered, dropped>>
control == <<running_, thread, stopping, due, starts>>
vars == <<input, processing, output, control>>

-----------------------------------------------------------------------------
(* The calls of other threads.                                             *)

register_symbol(id) ==
    /\ thread = "none" /\ starts = 0    \* "Register a symbol before starting."
    /\ id < kMaxSymbols
    /\ id \notin registered
    /\ registered' = registered \cup {id}
    /\ UNCHANGED <<input, books_, msg, fills, stat_messages_, next_order_id_, output, control>>

submit(m) ==
    /\ Len(accepted) < MaxMessages
    /\ Len(inbound_) < QueueLimit
    /\ LET sub == [msg |-> m, n |-> Len(accepted) + 1]
       IN  inbound_' = Append(inbound_, sub) /\ accepted' = Append(accepted, sub)
    /\ UNCHANGED <<processing, output, control>>


poll_report ==
    /\ outbound_ # <<>>
    /\ outbound_' = Tail(outbound_)
    /\ delivered' = Append(delivered, Head(outbound_))
    /\ UNCHANGED <<input, processing, stat_matches_, dropped, control>>

\* Assigning to engine_thread_ while it is joinable would terminate the
\* program: callers start a stopped engine only.
start ==
    /\ starts < MaxStarts
    /\ thread = "none"
    /\ running_' = TRUE
    /\ thread' = "loop"
    /\ starts' = starts + 1
    /\ UNCHANGED <<input, processing, output, stopping, due>>

\* Mutant: running_ is not cleared.
stopForgets ==
    /\ thread # "none" /\ ~stopping
    /\ stopping' = TRUE
    /\ due' = Len(accepted)
    /\ UNCHANGED <<input, processing, output, running_, thread, starts>>

stop ==
    /\ thread # "none"
    /\ ~stopping
    /\ running_' = FALSE
    /\ stopping' = TRUE
    /\ due' = Len(accepted)
    /\ UNCHANGED <<input, processing, output, thread, starts>>

\* join() returns.
StopReturns ==
    /\ stopping
    /\ thread = "exited"
    /\ thread' = "none"
    /\ stopping' = FALSE
    /\ UNCHANGED <<input, processing, output, running_, due, starts>>

-----------------------------------------------------------------------------
(* The engine thread: run_loop, process_message, on_execution.             *)

Busy == msg # Idle

\* Mutant: off by one at the end of the table.
HasBookOffByOne(m) == m.symbol + 1 < kMaxSymbols /\ m.symbol \in registered

HasBook(m) == m.symbol < kMaxSymbols /\ m.symbol \in registered


\* How many synthetic ids the message takes, and the id it is processed with.
SyntheticId(m) == IF m.msg_type = "NewOrder" /\ m.order_id = 0 THEN 1 ELSE 0

IdOf(m) == IF SyntheticId(m) = 1 THEN next_order_id_ ELSE m.order_id

At(from, to) ==
    /\ ~Busy
    /\ thread = from
    /\ thread' = to
    /\ UNCHANGED <<input, processing, output, running_, stopping, due, starts>>

\* The main loop looks at running_ before it looks at the queue: stop() may
\* come between the two.
CheckRunning == running_ /\ At("loop", "poll")

PollsNothing == inbound_ = <<>> /\ At("poll", "loop")

\* Both loops pop a message and process it.
TakeMessage ==
    LET m == Head(inbound_).msg
        n == Head(inbound_).n
    IN  /\ ~Busy
        /\ thread \in {"poll", "drain"}
        /\ inbound_ # <<>>
        /\ inbound_' = Tail(inbound_)
        /\ msg' = Head(inbound_)
        /\ fills' = 0
        /\ IF HasBook(m) /\ m.msg_type # "Heartbeat"
           THEN /\ books_' = [books_ EXCEPT ![m.symbol] =
                        Append(@, [msg_type |-> m.msg_type, id |-> IdOf(m), n |-> n])]
                /\ next_order_id_' = next_order_id_ + SyntheticId(m)
           ELSE UNCHANGED <<books_, next_order_id_>>
        /\ UNCHANGED <<accepted, registered, stat_messages_, output, control>>

\* The book calls back; a report that finds the queue full is dropped.
on_execution ==
    /\ Busy /\ HasBook(msg.msg) /\ msg.msg.msg_type = "NewOrder"
    /\ fills < MaxFills
    /\ fills' = fills + 1
    /\ stat_matches_' = stat_matches_ + 1
    /\ IF Len(outbound_) < QueueLimit
       THEN outbound_' = Append(outbound_, stat_matches_') /\ UNCHANGED dropped
       ELSE dropped' = dropped + 1 /\ UNCHANGED outbound_
    /\ UNCHANGED <<input, registered, books_, msg, stat_messages_, next_order_id_, delivered, control>>

\* Only the main loop counts the message.
MessageDone ==
    /\ Busy
    /\ msg' = Idle
    /\ fills' = 0
    /\ IF thread = "poll"
       THEN stat_messages_' = stat_messages_ + 1 /\ thread' = "loop"
       ELSE UNCHANGED <<stat_messages_, thread>>
    /\ UNCHANGED <<input, registered, books_, next_order_id_, output, running_, stopping, due, starts>>

\* Mutant: no drain after the loop.
LeaveLoopExits == ~running_ /\ At("loop", "exited")

LeaveLoop == ~running_ /\ At("loop", "drain")

ThreadExits == inbound_ = <<>> /\ At("drain", "exited")

-----------------------------------------------------------------------------
Init ==
    /\ inbound_ = <<>> /\ outbound_ = <<>>
    /\ registered = {}
    /\ books_ = [s \in Symbols |-> <<>>]
    /\ running_ = FALSE
    /\ thread = "none"
    /\ msg = Idle /\ fills = 0
    /\ stat_messages_ = 0 /\ stat_matches_ = 0 /\ next_order_id_ = 1
    /\ stopping = FALSE
    /\ accepted = <<>> /\ due = 0 /\ delivered = <<>> /\ dropped = 0
    /\ starts = 0

run_loop ==
    \/ CheckRunning \/ PollsNothing
    \/ TakeMessage \/ on_execution \/ MessageDone
    \/ LeaveLoop \/ ThreadExits

Next ==
    \/ \E id \in Symbols : register_symbol(id)
    \/ \E m \in Messages : submit(m)
    \/ poll_report
    \/ start
    \/ stop
    \/ StopReturns
    \/ run_loop

Spec == Init /\ [][Next]_vars

\* The engine thread is scheduled, and so is the caller of stop() once the
\* thread it joins has exited.
FairSpec == Spec /\ WF_vars(run_loop) /\ WF_vars(StopReturns)

-----------------------------------------------------------------------------
(* Properties *)

TypeOK ==
    /\ inbound_ \in Seq(Submission) /\ outbound_ \in Seq(Nat)
    /\ registered \subseteq Symbols
    /\ books_ \in [Symbols -> Seq(Operation)]
    /\ running_ \in BOOLEAN
    /\ thread \in {"none", "loop", "poll", "drain", "exited"}
    /\ msg \in Submission \cup {Idle} /\ fills \in Nat
    /\ stat_messages_ \in Nat /\ stat_matches_ \in Nat /\ next_order_id_ \in Nat
    /\ stopping \in BOOLEAN
    /\ accepted \in Seq(Submission) /\ due \in Nat
    /\ delivered \in Seq(Nat) /\ dropped \in Nat
    /\ starts \in Nat

\* What the book of symbol s still has to see, and what it has seen.
For(s, subs) ==
    LET wanted == SelectSeq(subs, LAMBDA u : u.msg.symbol = s /\ u.msg.msg_type # "Heartbeat")
    IN  [k \in 1 .. Len(wanted) |-> wanted[k].n]
Seen(s) == [k \in 1 .. Len(books_[s]) |-> books_[s][k].n]

\* Every accepted message is applied once, to the book of its symbol, in the
\* order of submission, across stops and restarts: what a book has seen and
\* what waits for it in the inbound queue is what was accepted for it.
AppliedInOrder ==
    /\ TypeOK
    /\ \A s \in registered : Seen(s) \o For(s, inbound_) = For(s, accepted)

\* "Drain remaining messages on shutdown": when stop() has returned, every
\* message accepted before it was called has been processed.
StopDrains ==
    (thread = "none" /\ starts > 0) => /\ ~Busy
                                       /\ Len(accepted) - Len(inbound_) >= due



\* Messages do not wait for ever in a running engine, and stop() returns, once
\* producers have gone quiet (MaxMessages bounds them; the drain loop has no
\* other end).
EngineProgresses ==
    /\ (thread \in {"loop", "poll"} /\ inbound_ # <<>>) ~> (inbound_ = <<>>)
    /\ stopping ~> (thread = "none")
=============================================================================
