-------------------------------- MODULE Logger --------------------------------
(***************************************************************************)
(* engine::Logger (util/logger.hpp, logger.cpp): one thread logs into an   *)
(* SPSC ring, an I/O thread writes what it takes out, and a third starts   *)
(* and stops it, while logging goes on or not.                             *)
(*                                                                         *)
(* log is the ring's try_push, its result ignored: the caller never waits  *)
(* and a record that finds the ring full is dropped.  running_ is loaded   *)
(* relaxed, but the code is built for x86, where loads stay in order: a    *)
(* thread that has seen stop's store sees every position published before. *)
(***************************************************************************)
EXTENDS SPSCQueue

VARIABLES
    running_, out_,
    io,        \* the I/O thread: none, loop (at the outer while), pop, drain, exited
    stopping,  \* a thread is inside stop(), in join()
    owed       \* history: records published when stop() began and still inside

control == <<running_, out_, io, stopping, owed>>
logVars == <<vars, control>>

\* x86: after a load that returned false the next load of write_pos_ is at
\* least as new as the store of false.
SeenInOrder == IF Ahead(read_pos_, wseen) >= owed
               THEN wseen
               ELSE (read_pos_ + owed) % Capacity

-----------------------------------------------------------------------------
log == ((\E v \in Values : PushCall(v)) \/ PushStep) /\ UNCHANGED control

\* out_ is null as well when fopen fails.
start ==
    /\ io = "none"
    /\ out_' \in {"open", "failed"}
    /\ running_' = TRUE
    /\ io' = "loop"
    /\ UNCHANGED <<vars, stopping, owed>>

\* Mutant: the flag is not cleared.
stopForgets ==
    /\ io # "none" /\ ~stopping
    /\ stopping' = TRUE
    /\ owed' = Ahead(read_pos_, write_pos_)
    /\ UNCHANGED <<vars, running_, out_, io>>

\* stop() of a logger without a thread changes nothing.
stop ==
    /\ io # "none" /\ ~stopping
    /\ running_' = FALSE
    /\ stopping' = TRUE
    /\ owed' = Ahead(read_pos_, write_pos_)
    /\ UNCHANGED <<vars, out_, io>>

\* join() returned: the file is closed.
StopReturns ==
    /\ stopping /\ io = "exited"
    /\ stopping' = FALSE
    /\ io' = "none"
    /\ out_' = "null"
    /\ UNCHANGED <<vars, running_, owed>>

-----------------------------------------------------------------------------
(* drain_loop *)

EnterLoop ==
    /\ io = "loop" /\ running_
    /\ io' = "pop"
    /\ UNCHANGED <<vars, running_, out_, stopping, owed>>

\* Mutant: the loop is left without draining.
LeaveLoopExits ==
    /\ io = "loop" /\ ~running_
    /\ io' = "exited"
    /\ UNCHANGED <<vars, running_, out_, stopping, owed>>

LeaveLoop ==
    /\ io = "loop" /\ ~running_
    /\ io' = "drain"
    /\ wseen' = SeenInOrder
    /\ UNCHANGED <<buffer_, write_pos_, read_pos_, producer, cpc, out, popped>>
    /\ UNCHANGED <<running_, out_, stopping, owed>>

\* An empty ring ends either loop; the last one flushes.
CheckQueue(w) ==
    /\ io \in {"pop", "drain"}
    /\ PopCheck(w)
    /\ io' = CASE read_pos_ # w -> io
               [] io = "pop" -> "loop"
               [] OTHER -> "exited"
    /\ UNCHANGED <<running_, out_, stopping, owed>>

TakeRecord ==
    /\ PopRead
    /\ UNCHANGED control

\* The end of try_pop, and the fprintf of the record.
WriteRecord ==
    /\ PopPublish
    /\ owed' = IF owed > 0 THEN owed - 1 ELSE 0
    /\ UNCHANGED <<running_, out_, io, stopping>>

drain_loop ==
    \/ EnterLoop \/ LeaveLoop
    \/ \E w \in Cells : CheckQueue(w)
    \/ TakeRecord \/ WriteRecord

-----------------------------------------------------------------------------
LogInit ==
    /\ Init
    /\ running_ = FALSE /\ out_ = "null" /\ io = "none"
    /\ stopping = FALSE /\ owed = 0

LogNext == log \/ start \/ stop \/ StopReturns \/ drain_loop

\* The threads are scheduled, join() returns, and a store becomes visible to
\* loads that are repeated for ever.  Nobody has to log, start or stop.
LogSpec ==
    /\ LogInit /\ [][LogNext]_logVars
    /\ WF_logVars(PushStep /\ UNCHANGED control)
    /\ WF_logVars(drain_loop) /\ WF_logVars(StopReturns)
    /\ SF_logVars(CheckQueue(write_pos_))

-----------------------------------------------------------------------------
(* Properties *)


\* A record logged while the logger runs is written: the I/O thread is not
\* stuck on an old write position, nor stopped with the record inside.
RecordsComeOut == (read_pos_ # write_pos_ /\ running_) ~> (cpc = "publish")

\* stop() returns once logging has ceased; nothing bounds its last loop
\* before that.
StopEnds == <>[](ppc = "idle") => (stopping ~> ~stopping)
=============================================================================
