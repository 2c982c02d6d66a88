-------------------------------- MODULE Replay --------------------------------
(***************************************************************************)
(* TraceWriter and OrderFlowReplay (core/replay.hpp) around one            *)
(* MatchingEngine: a program records messages into a trace file, and       *)
(* replays the file into an engine, which is running or not.               *)
(*                                                                         *)
(* stdio buffers what is written: some of it is on disk before fclose, the *)
(* recording program may crash, and the disk may be full, which nothing    *)
(* checks.  Of the modes only MaxSpeed is modelled: the others sleep       *)
(* before they submit.  The counters of ReplayResult count from 0 here;    *)
(* replay adds to whatever its caller left in them.                        *)
(***************************************************************************)
EXTENDS MatchingEngine, FiniteSets

CONSTANTS
    MaxEvents,       \* bound: events in a trace
    MaxReplays,      \* bound: calls of replay
    kSpins,          \* tries of submit, 1000
    warmup_events    \* Config::warmup_events

VARIABLES
    writer,      \* the TraceWriter: recording, nofile (fopen failed), closed, crashed
    written,     \* the messages passed to write()
    buffer,      \* the events it gave to fwrite
    space,       \* events the disk has room for
    disk,        \* the file: is its header there, event_count in it, its whole events
    rpc,         \* replay: idle, read, submit, poll, drain, done
    i, n, spin,  \* its locals
    events_replayed, events_skipped, matches_generated,
    skips,       \* history: the events this replay skipped
    base,        \* history: messages accepted and reports delivered before it
    replays      \* calls of replay

trace == <<writer, written, buffer, space, disk>>
result == <<events_replayed, events_skipped, matches_generated>>
replaying == <<rpc, i, n, spin, result, skips, base, replays>>
engine == <<input, processing, output, control>>
replayVars == <<trace, replaying, engine>>

\* The message type in a trace is a number.
TypeCode == [NewOrder |-> 0, CancelOrder |-> 1, ModifyOrder |-> 2, Heartbeat |-> 3]

msg_to_trace_event(m) == [m EXCEPT !.msg_type = TypeCode[m.msg_type]]

trace_event_to_msg(e) ==
    [e EXCEPT !.msg_type = CHOOSE type \in MsgTypes : TypeCode[type] = e.msg_type]

\* What a full disk takes of them.
Fits(events) == SubSeq(events, 1, IF Len(events) < space THEN Len(events) ELSE space)

-----------------------------------------------------------------------------
(* TraceWriter *)

\* The event goes to stdio and is counted.
write(m) ==
    /\ writer = "recording" /\ Len(written) < MaxEvents
    /\ written' = Append(written, m)
    /\ buffer' = Append(buffer, msg_to_trace_event(m))
    /\ UNCHANGED <<writer, space, disk, replaying, engine>>

\* stdio writes out its buffer; the header still says 0 events.
BufferFlushed ==
    /\ writer = "recording"
    /\ disk' = [header |-> TRUE, event_count |-> 0, events |-> Fits(buffer)]
    /\ UNCHANGED <<writer, written, buffer, space, replaying, engine>>


\* ~TraceWriter
Close ==
    /\ writer = "recording"
    /\ disk' = [header |-> TRUE, event_count |-> Len(written), events |-> Fits(buffer)]
    /\ writer' = "closed"
    /\ UNCHANGED <<written, buffer, space, replaying, engine>>

Crash ==
    /\ writer = "recording"
    /\ writer' = "crashed"
    /\ UNCHANGED <<written, buffer, space, disk, replaying, engine>>

-----------------------------------------------------------------------------
(* OrderFlowReplay::replay *)

\* A file without a header is refused.
Open ==
    /\ writer # "recording"
    /\ rpc \in {"idle", "done"} /\ replays < MaxReplays
    /\ replays' = replays + 1
    /\ rpc' = IF disk.header THEN "read" ELSE "done"
    /\ n' = disk.event_count
    /\ i' = 0
    /\ events_replayed' = 0 /\ events_skipped' = 0 /\ matches_generated' = 0
    /\ skips' = {}
    /\ base' = [accepted |-> Len(accepted), delivered |-> Len(delivered)]
    /\ UNCHANGED <<trace, spin, engine>>

ReadEvent ==
    /\ rpc = "read"
    /\ rpc' = IF i < n /\ i < Len(disk.events) THEN "submit" ELSE "drain"
    /\ spin' = 0
    /\ UNCHANGED <<trace, i, n, result, skips, base, replays, engine>>

Submitted ==
    /\ rpc = "submit"
    /\ submit(trace_event_to_msg(disk.events[i + 1]))
    /\ rpc' = "poll"
    /\ UNCHANGED <<trace, i, n, spin, result, skips, base, replays>>

\* Mutant: submit is tried for ever.
RefusedForEver ==
    /\ rpc = "submit" /\ Len(inbound_) = QueueLimit
    /\ UNCHANGED <<trace, replaying, engine>>

Refused ==
    /\ rpc = "submit" /\ Len(inbound_) = QueueLimit
    /\ IF spin + 1 < kSpins
       THEN spin' = spin + 1 /\ UNCHANGED <<rpc, i, events_skipped, skips>>
       ELSE /\ events_skipped' = events_skipped + 1
            /\ skips' = skips \cup {i + 1}
            /\ i' = i + 1
            /\ rpc' = "read"
            /\ UNCHANGED spin
    /\ UNCHANGED <<trace, n, events_replayed, matches_generated, base, replays, engine>>

\* One report at most, whichever event it is of.
PollOne ==
    /\ rpc = "poll"
    /\ IF i >= warmup_events /\ outbound_ # <<>>
       THEN poll_report /\ matches_generated' = matches_generated + 1
       ELSE UNCHANGED <<engine, matches_generated>>
    /\ events_replayed' = events_replayed + 1
    /\ i' = i + 1
    /\ rpc' = "read"
    /\ UNCHANGED <<trace, n, spin, events_skipped, skips, base, replays>>

DrainOne ==
    /\ rpc = "drain"
    /\ poll_report
    /\ matches_generated' = matches_generated + 1
    /\ UNCHANGED <<trace, rpc, i, n, spin, events_replayed, events_skipped, skips, base, replays>>

Return ==
    /\ rpc = "drain" /\ outbound_ = <<>>
    /\ rpc' = "done"
    /\ UNCHANGED <<trace, i, n, spin, result, skips, base, replays, engine>>

replay == ReadEvent \/ Submitted \/ Refused \/ PollOne \/ DrainOne \/ Return

-----------------------------------------------------------------------------
\* The owner of the engine starts it, or has not.
StartEngine == start /\ UNCHANGED <<trace, replaying>>

EngineRuns == run_loop /\ UNCHANGED <<trace, replaying>>

ReplayInit ==
    /\ Init
    /\ writer \in {"recording", "nofile"} /\ written = <<>> /\ buffer = <<>>
    /\ space \in 0 .. MaxEvents
    /\ disk = [header |-> FALSE, event_count |-> 0, events |-> <<>>]
    /\ rpc = "idle" /\ i = 0 /\ n = 0 /\ spin = 0
    /\ events_replayed = 0 /\ events_skipped = 0 /\ matches_generated = 0
    /\ skips = {} /\ base = [accepted |-> 0, delivered |-> 0] /\ replays = 0

ReplayNext ==
    \/ \E m \in Messages : write(m)
    \/ BufferFlushed \/ Close \/ Crash
    \/ \E id \in Symbols : register_symbol(id) /\ UNCHANGED <<trace, replaying>>
    \/ StartEngine \/ EngineRuns
    \/ Open \/ replay

\* The replaying thread and the engine's are scheduled.
ReplaySpec ==
    /\ ReplayInit /\ [][ReplayNext]_replayVars
    /\ WF_replayVars(replay) /\ WF_replayVars(EngineRuns)

-----------------------------------------------------------------------------
(* Properties *)


\* A replay ends, with the engine running or stopped.
ReplayEnds == (rpc = "read") ~> (rpc = "done")
=============================================================================
