--------------------------------- MODULE Demo ---------------------------------
(***************************************************************************)
(* The program of src/main.cpp around one MatchingEngine: the main thread  *)
(* starts the engine and a simulation thread, polls reports until it       *)
(* leaves its loop, joins the simulation, drains the reports and stops the *)
(* engine.  A signal may ask for shutdown at any time.                     *)
(***************************************************************************)
EXTENDS MatchingEngine

VARIABLES
    g_shutdown,
    sim,          \* run_simulation: "none", at its loop "check", about to "submit", "finished"
    expired,      \* the simulation's deadline has passed
    joinable,     \* sim_thread.joinable()
    main,         \* where main() is
    fill_count

demo == <<g_shutdown, sim, expired, joinable, main, fill_count>>
engine == <<input, processing, output, control>>

Main(from, to) == main = from /\ main' = to

-----------------------------------------------------------------------------
MainRegister ==
    /\ Main("register", "start")
    /\ register_symbol(0)
    /\ UNCHANGED <<g_shutdown, sim, expired, joinable, fill_count>>

MainStart ==
    /\ Main("start", "poll")
    /\ start
    /\ sim' = "check"
    /\ joinable' = TRUE
    /\ UNCHANGED <<g_shutdown, expired, fill_count>>

\* One report, counted.
Receive(at) ==
    /\ main = at
    /\ poll_report
    /\ fill_count' = fill_count + 1
    /\ UNCHANGED <<g_shutdown, sim, expired, joinable, main>>

MainPolls == ~g_shutdown /\ Receive("poll")

\* Mutant: the loop does not look at the shutdown flag.
MainLeavesLoopOnJoin ==
    /\ Main("poll", "join")
    /\ ~joinable
    /\ UNCHANGED <<g_shutdown, sim, expired, joinable, fill_count, engine>>

\* The loop condition, and the break of the check made every 100 ms.
MainLeavesLoop ==
    /\ Main("poll", "join")
    /\ g_shutdown \/ ~joinable
    /\ UNCHANGED <<g_shutdown, sim, expired, joinable, fill_count, engine>>

\* Mutant: the simulation is detached, not joined.
MainDetaches ==
    /\ Main("join", "drain")
    /\ joinable' = FALSE
    /\ UNCHANGED <<g_shutdown, sim, expired, fill_count, engine>>

MainJoins ==
    /\ Main("join", "drain")
    /\ sim = "finished"
    /\ joinable' = FALSE
    /\ UNCHANGED <<g_shutdown, sim, expired, fill_count, engine>>

MainDrains == Receive("drain")

MainStops ==
    /\ Main("drain", "stop")
    /\ outbound_ = <<>>
    /\ stop
    /\ UNCHANGED <<g_shutdown, sim, expired, joinable, fill_count>>

MainFinishes ==
    /\ Main("stop", "done")
    /\ StopReturns
    /\ UNCHANGED <<g_shutdown, sim, expired, joinable, fill_count>>

-----------------------------------------------------------------------------
(* run_simulation *)

SimContinues ==
    /\ sim = "check"
    /\ ~g_shutdown /\ ~expired
    /\ sim' = "submit"
    /\ UNCHANGED <<g_shutdown, expired, joinable, main, fill_count, engine>>

SimSubmits ==
    /\ sim = "submit"
    /\ sim' = "check"
    /\ \E m \in Messages : submit(m)
    /\ UNCHANGED <<g_shutdown, expired, joinable, main, fill_count>>

\* submit() returns false (or the bound on messages is reached).
SimRefused ==
    /\ sim = "submit"
    /\ sim' = "check"
    /\ Len(inbound_) = QueueLimit \/ Len(accepted) = MaxMessages
    /\ UNCHANGED <<g_shutdown, expired, joinable, main, fill_count, engine>>

SimEnds ==
    /\ sim = "check"
    /\ g_shutdown \/ expired
    /\ sim' = "finished"
    /\ UNCHANGED <<g_shutdown, expired, joinable, main, fill_count, engine>>

SimStep == SimContinues \/ SimSubmits \/ SimRefused \/ SimEnds

DeadlinePasses ==
    /\ sim # "none" /\ ~expired
    /\ expired' = TRUE
    /\ UNCHANGED <<g_shutdown, sim, joinable, main, fill_count, engine>>

handle_signal ==
    /\ ~g_shutdown
    /\ g_shutdown' = TRUE
    /\ UNCHANGED <<sim, expired, joinable, main, fill_count, engine>>

EngineRuns == run_loop /\ UNCHANGED demo

-----------------------------------------------------------------------------
MainStep ==
    \/ MainRegister \/ MainStart \/ MainPolls \/ MainLeavesLoop
    \/ MainJoins \/ MainDrains \/ MainStops \/ MainFinishes

DemoInit ==
    /\ Init
    /\ g_shutdown = FALSE
    /\ sim = "none"
    /\ expired = FALSE
    /\ joinable = FALSE
    /\ main = "register"
    /\ fill_count = 0

DemoNext == MainStep \/ SimStep \/ DeadlinePasses \/ handle_signal \/ EngineRuns

demoVars == <<demo, engine>>

\* The three threads are scheduled, and the simulation's deadline passes.  No
\* signal need come.
DemoSpec ==
    /\ DemoInit
    /\ [][DemoNext]_demoVars
    /\ WF_demoVars(MainStep)
    /\ WF_demoVars(EngineRuns)
    /\ WF_demoVars(SimStep)
    /\ WF_demoVars(DeadlinePasses)

-----------------------------------------------------------------------------
(* Properties *)

\* When main() ends every message the simulation submitted has been
\* processed: the producer has been joined before the engine drains.
NothingLeftBehind == main = "done" => inbound_ = <<>> /\ ~Busy

\* A signal ends the program, whatever the threads are doing.
ShutdownCompletes == g_shutdown ~> (main = "done")

\* "Drain remaining reports.": at the end every report that was not dropped
\* has been received.
EveryReportReceived == main = "done" => fill_count + dropped = stat_matches_

\* "Check if sim thread is done.": the polling loop ends after the simulation.
LoopEndsWithSim == (sim = "finished") ~> (main # "poll")
=============================================================================
