------------------------------- MODULE Smartmetd -------------------------------
(***************************************************************************)
(* The daemon's process: main/smartmetd.cpp.                               *)
(*                                                                         *)
(* The main thread builds the Reactor and the server and adds two tasks:   *)
(* ini-reactor loads the plugins and srv-run serves.  Each installs the    *)
(* signal handlers before its work.  The main thread then wakes once a     *)
(* second, collects tasks that have ended, reads last_signal, which the    *)
(* handler has stored, and acts on it.  After a SIGINT a watchdog task     *)
(* polls the same variable.                                                *)
(*                                                                         *)
(* The watchdog's decaying count is kept in twentieths: a signal adds 20,  *)
(* a quiet poll takes 1 off, and more than 100 is too many.                *)
(***************************************************************************)
EXTENDS Integers

CONSTANTS
    Signals,      \* the signals that may be sent
    MaxSignals,   \* bound: how many of them are
    WatchdogPolls,\* polls the watchdog makes before it aborts (1200)
    MayHang       \* sets of parts that may never finish: "pools", "reactor", "init"

Ignored     == {"SIGBUS", "SIGWINCH"}
Interrupt   == {"SIGINT", "SIGTERM"}
Terminating == {"SIGTERM", "SIGHUP", "SIGINT"}

ASSUME SmartmetdAssumption ==
    /\ Signals \subseteq Ignored \cup Terminating
    /\ MaxSignals \in Nat /\ WatchdogPolls \in Nat
    /\ MayHang \subseteq SUBSET {"pools", "reactor", "init"}

VARIABLES
    last_signal,    \* "0" = none
    sig,            \* what the main loop has read
    main,           \* where the main thread is
    caller,         \* who has called shutdownServer: "collect", or "exit" (stop_server)
    handled,        \* init_signals has run
    task,           \* where each task is
    serverDown,     \* AsyncServer::shutdown has stopped the io threads and the pools
    watchdog,       \* "off", or polling
    polls, sigint_cnt,
    shutdownFinished, \* Reactor::isShutdownFinished
    hangs,          \* what never finishes in this behaviour
    sent,           \* signals delivered so far
    termSent        \* a terminating one was among them

Tasks == {"ini-reactor", "srv-run"}

vars == <<last_signal, sig, main, caller, handled, task, serverDown, watchdog, polls,
          sigint_cnt, shutdownFinished, hangs, sent, termSent>>
signalVars   == <<last_signal, sent, termSent>>
watchdogVars == <<watchdog, polls, sigint_cnt>>

None == "0"
Starting == {"options", "setup"}
Stopping == {"stop", "reactor", "wait", "stopped"}
Ends     == {"exited", "aborted", "killed"}

TypeOK ==
    /\ last_signal \in Signals \cup {None} /\ sig \in Signals \cup {None}
    /\ main \in Starting \cup {"sleep", "collect", "read", "test", "ignore", "interrupt"}
                \cup Stopping \cup Ends
    /\ caller \in {"collect", "exit"}
    /\ task \in [Tasks -> {"none", "added", "work", "failed", "done"}]
    /\ watchdog \in {"off", "on"}
    /\ polls \in 0 .. WatchdogPolls
    /\ sigint_cnt \in 0 .. 120
    /\ {handled, serverDown, shutdownFinished, termSent} \subseteq BOOLEAN
    /\ hangs \in MayHang
    /\ sent \in 0 .. MaxSignals

Init ==
    /\ last_signal = None /\ sig = None
    /\ main = "options" /\ caller = "exit" /\ handled = FALSE
    /\ task = [t \in Tasks |-> "none"] /\ serverDown = FALSE
    /\ watchdog = "off" /\ polls = 0 /\ sigint_cnt = 0
    /\ shutdownFinished = FALSE /\ sent = 0 /\ termSent = FALSE
    /\ hangs \in MayHang

Ended == main \in Ends
Hangs(part) == part \in hangs

-----------------------------------------------------------------------------
(* Starting.                                                               *)

\* Options that do not parse, an unknown new_handler, a Reactor or a server that cannot
\* be built: main returns before there are tasks.
startFails ==
    /\ main \in Starting /\ main' = "exited"
    /\ UNCHANGED <<signalVars, sig, caller, handled, task, serverDown, watchdogVars,
                   shutdownFinished, hangs>>

parseOptions ==
    /\ main = "options" /\ main' = "setup"
    /\ UNCHANGED <<signalVars, sig, caller, handled, task, serverDown, watchdogVars,
                   shutdownFinished, hangs>>

addTasks ==
    /\ main = "setup" /\ main' = "sleep"
    /\ task' = [t \in Tasks |-> "added"]
    /\ UNCHANGED <<signalVars, sig, caller, handled, serverDown, watchdogVars,
                   shutdownFinished, hangs>>

init_signals(t) ==
    /\ ~Ended /\ task[t] = "added"
    /\ task' = [task EXCEPT ![t] = "work"] /\ handled' = TRUE
    /\ UNCHANGED <<signalVars, sig, main, caller, serverDown, watchdogVars,
                   shutdownFinished, hangs>>

\* Reactor::init ends, well or with an exception.
initReactor ==
    /\ ~Ended /\ task["ini-reactor"] = "work" /\ ~Hangs("init")
    /\ \E result \in {"done", "failed"} : task' = [task EXCEPT !["ini-reactor"] = result]
    /\ UNCHANGED <<signalVars, sig, main, caller, handled, serverDown, watchdogVars,
                   shutdownFinished, hangs>>

\* AsyncServer::run returns once the io threads have been stopped.
runServer ==
    /\ ~Ended /\ task["srv-run"] = "work" /\ serverDown
    /\ task' = [task EXCEPT !["srv-run"] = "done"]
    /\ UNCHANGED <<signalVars, sig, main, caller, handled, serverDown, watchdogVars,
                   shutdownFinished, hangs>>
runServerFails ==
    /\ ~Ended /\ task["srv-run"] = "work" /\ ~serverDown
    /\ task' = [task EXCEPT !["srv-run"] = "failed"]
    /\ UNCHANGED <<signalVars, sig, main, caller, handled, serverDown, watchdogVars,
                   shutdownFinished, hangs>>

-----------------------------------------------------------------------------
(* Signals and other events.                                               *)

\* Before init_signals the default actions apply: a terminating signal ends the process.
signal_handler ==
    /\ ~Ended
    /\ sent < MaxSignals /\ sent' = sent + 1
    /\ \E s \in Signals :
        /\ termSent' = (termSent \/ s \in Terminating)
        /\ IF handled
           THEN last_signal' = s /\ UNCHANGED main
           ELSE /\ main' = IF s = "SIGWINCH" THEN main ELSE "killed"
                /\ UNCHANGED last_signal
    /\ UNCHANGED <<sig, caller, handled, task, serverDown, watchdogVars, shutdownFinished,
                   hangs>>

\* The Reactor ends by itself, after a fatal initialisation error for example.
reactorFinishes ==
    /\ task["ini-reactor"] # "none" /\ ~shutdownFinished /\ ~Ended
    /\ shutdownFinished' = TRUE
    /\ UNCHANGED <<signalVars, sig, main, caller, handled, task, serverDown, watchdogVars,
                   hangs>>

\* The requests in progress are listed and the signal is raised again, with its default
\* action.
crash_signal_handler ==
    /\ handled /\ ~Ended
    /\ main' = "killed"
    /\ UNCHANGED <<signalVars, sig, caller, handled, task, serverDown, watchdogVars,
                   shutdownFinished, hangs>>

-----------------------------------------------------------------------------
(* The main loop.                                                          *)

wake ==
    /\ main = "sleep" /\ main' = "collect"
    /\ UNCHANGED <<signalVars, sig, caller, handled, task, serverDown, watchdogVars,
                   shutdownFinished, hangs>>

handle_finished_Quiet ==
    /\ main = "collect"
    /\ main' = "read"
    /\ task' = [t \in Tasks |-> IF task[t] = "failed" THEN "done" ELSE task[t]]
    /\ UNCHANGED <<signalVars, sig, caller, handled, serverDown, watchdogVars,
                   shutdownFinished, hangs>>
\* A failed task is handed to on_task_error, which shuts the server down, on this thread.
handle_finished ==
    /\ main = "collect"
    /\ \/ /\ \A t \in Tasks : task[t] # "failed"
          /\ main' = "read" /\ UNCHANGED <<caller, task>>
       \/ /\ \E t \in Tasks : task[t] = "failed" /\ task' = [task EXCEPT ![t] = "done"]
          /\ main' = "stop" /\ caller' = "collect"
    /\ UNCHANGED <<signalVars, sig, handled, serverDown, watchdogVars, shutdownFinished,
                   hangs>>

\* int sig = last_signal.
readSignal ==
    /\ main = "read" /\ main' = "test"
    /\ sig' = last_signal
    /\ UNCHANGED <<signalVars, caller, handled, task, serverDown, watchdogVars,
                   shutdownFinished, hangs>>

handle_signal_StopOnAny ==
    /\ main = "test"
    /\ main' = CASE shutdownFinished          -> "stop"
                 [] ~shutdownFinished /\ sig = None     -> "sleep"
                 [] ~shutdownFinished /\ sig = "SIGINT" -> "interrupt"
                 [] OTHER                               -> "stop"
    /\ caller' = "exit" /\ sig' = None
    /\ UNCHANGED <<signalVars, handled, task, serverDown, watchdogVars,
                   shutdownFinished, hangs>>
handle_signal_SignalsOnly ==
    /\ main = "test"
    /\ main' = CASE sig = None      -> "sleep"
                 [] sig \in Ignored -> "ignore"
                 [] sig = "SIGINT"  -> "interrupt"
                 [] OTHER           -> "stop"
    /\ caller' = "exit" /\ sig' = None
    /\ UNCHANGED <<signalVars, handled, task, serverDown, watchdogVars,
                   shutdownFinished, hangs>>
\* The Reactor's end comes before any signal.
handle_signal ==
    /\ main = "test"
    /\ main' = CASE shutdownFinished                    -> "stop"
                 [] ~shutdownFinished /\ sig = None     -> "sleep"
                 [] ~shutdownFinished /\ sig \in Ignored -> "ignore"
                 [] ~shutdownFinished /\ sig = "SIGINT" -> "interrupt"
                 [] OTHER                               -> "stop"
    /\ caller' = "exit" /\ sig' = None
    /\ UNCHANGED <<signalVars, handled, task, serverDown, watchdogVars,
                   shutdownFinished, hangs>>

\* Resets last_signal, whatever it holds by now.
ignoreSignal ==
    /\ main = "ignore" /\ main' = "sleep"
    /\ last_signal' = None
    /\ UNCHANGED <<sent, termSent, sig, caller, handled, task, serverDown, watchdogVars,
                   shutdownFinished, hangs>>

startWatchdog_Missing ==
    /\ main = "interrupt" /\ main' = "stop"
    /\ last_signal' = None
    /\ UNCHANGED <<sent, termSent, sig, caller, handled, task, serverDown, watchdogVars,
                   shutdownFinished, hangs>>
startWatchdog ==
    /\ main = "interrupt" /\ main' = "stop"
    /\ last_signal' = None
    /\ watchdog' = "on" /\ polls' = 0
    /\ UNCHANGED <<sent, termSent, sig, caller, handled, task, serverDown, sigint_cnt,
                   shutdownFinished, hangs>>

-----------------------------------------------------------------------------
(* Stopping.                                                               *)

\* AsyncServer::shutdown up to the Reactor; the pools finish what they are doing.
stopPools ==
    /\ main = "stop" /\ main' = "reactor"
    /\ serverDown \/ ~Hangs("pools")
    /\ serverDown' = TRUE
    /\ UNCHANGED <<signalVars, sig, caller, handled, task, watchdogVars, shutdownFinished,
                   hangs>>

\* Reactor::shutdown; the second call finds nothing to do.
shutdownReactor ==
    /\ main = "reactor"
    /\ shutdownFinished \/ ~Hangs("reactor")
    /\ shutdownFinished' = TRUE
    /\ main' = IF caller = "collect" THEN "collect" ELSE "wait"
    /\ UNCHANGED <<signalVars, sig, caller, handled, task, serverDown, watchdogVars, hangs>>

\* An exception of shutdownServer, thrown while it closes the acceptor or ends the pools or
\* by Reactor::shutdown, reaches main's catch, by way of stop_server or of handle_finished:
\* main returns -1 without having waited for the tasks.  The watchdog's task is cancelled as
\* the stack is unwound.
shutdownFails ==
    /\ main \in {"stop", "reactor"} /\ main' = "exited"
    /\ watchdog' = "off"
    /\ UNCHANGED <<signalVars, sig, caller, handled, task, serverDown, polls, sigint_cnt,
                   shutdownFinished, hangs>>

\* It took too long: SIGKILL.
onShutdownTimedOut ==
    /\ main = "reactor" /\ ~shutdownFinished /\ main' = "killed"
    /\ UNCHANGED <<signalVars, sig, caller, handled, task, serverDown, watchdogVars,
                   shutdownFinished, hangs>>

\* tasks->wait(), the last step of stop_server.
stop_server ==
    /\ main = "wait" /\ main' = "stopped"
    /\ \A t \in Tasks : task[t] \in {"failed", "done"}
    /\ UNCHANGED <<signalVars, sig, caller, handled, task, serverDown, watchdogVars,
                   shutdownFinished, hangs>>

\* The watchdog, if there is one, is cancelled, and main returns.
exit ==
    /\ main = "stopped" /\ main' = "exited"
    /\ watchdog' = "off"
    /\ UNCHANGED <<signalVars, sig, caller, handled, task, serverDown, polls, sigint_cnt,
                   shutdownFinished, hangs>>

Decay(count) == IF count > 0 THEN count - 1 ELSE 0

sigint_watchdog_NotCleared ==
    /\ watchdog = "on" /\ ~Ended
    /\ IF polls = WatchdogPolls
       THEN main' = "aborted" /\ UNCHANGED <<last_signal, polls, sigint_cnt>>
       ELSE /\ polls' = polls + 1
            /\ IF last_signal \in Interrupt
               THEN sigint_cnt' = sigint_cnt + 20 /\ UNCHANGED last_signal
               ELSE sigint_cnt' = Decay(sigint_cnt) /\ UNCHANGED last_signal
            /\ main' = IF sigint_cnt' > 100 THEN "aborted" ELSE main
    /\ UNCHANGED <<sent, termSent, sig, caller, handled, task, serverDown, watchdog,
                   shutdownFinished, hangs>>
\* One poll: a signal found is counted and cleared.
sigint_watchdog ==
    /\ watchdog = "on" /\ ~Ended
    /\ IF polls = WatchdogPolls
       THEN main' = "aborted" /\ UNCHANGED <<last_signal, polls, sigint_cnt>>
       ELSE /\ polls' = polls + 1
            /\ IF last_signal \in Interrupt
               THEN sigint_cnt' = sigint_cnt + 20 /\ last_signal' = None
               ELSE sigint_cnt' = Decay(sigint_cnt) /\ UNCHANGED last_signal
            /\ main' = IF sigint_cnt' > 100 THEN "aborted" ELSE main
    /\ UNCHANGED <<sent, termSent, sig, caller, handled, task, serverDown, watchdog,
                   shutdownFinished, hangs>>

Finished == Ended /\ UNCHANGED vars

Loop ==
    \/ parseOptions \/ addTasks
    \/ wake \/ handle_finished \/ readSignal \/ handle_signal \/ ignoreSignal \/ startWatchdog
    \/ stop_server \/ exit

Work == runServer \/ initReactor \/ \E t \in Tasks : init_signals(t)

\* What a hang leaves waiting for ever is a state in which nothing may happen.
Stuck ==
    /\ \/ main = "stop" /\ Hangs("pools")
       \/ main = "wait" /\ Hangs("init")
    /\ UNCHANGED vars

Next ==
    \/ startFails \/ Loop \/ Work \/ runServerFails
    \/ signal_handler \/ reactorFinishes \/ crash_signal_handler
    \/ stopPools \/ shutdownReactor \/ shutdownFails \/ onShutdownTimedOut
    \/ sigint_watchdog \/ Finished \/ Stuck

Spec == Init /\ [][Next]_vars

\* The main thread, the tasks and the watchdog run, and what does not hang ends.  The
\* Reactor times its own shutdown.
FairSpec ==
    /\ Spec
    /\ WF_vars(Loop) /\ WF_vars(sigint_watchdog)
    /\ WF_vars(\E t \in Tasks : init_signals(t)) /\ WF_vars(initReactor) /\ WF_vars(runServer)
    /\ WF_vars(stopPools) /\ WF_vars(shutdownReactor) /\ WF_vars(onShutdownTimedOut)

-----------------------------------------------------------------------------
(* Properties.                                                             *)

Failed == \E t \in Tasks : task[t] = "failed"

\* The daemon goes down only when told to: SIGBUS and SIGWINCH, in any order with other
\* signals, never stop it once it serves.
OnlyToldToStop ==
    main \in Stopping => termSent \/ shutdownFinished \/ caller = "collect"

\* It takes a hang or signals after the first to make the watchdog abort: six more at
\* least, unless its polls run out.
AbortNeedsSignals == (main = "aborted" /\ polls < WatchdogPolls) => sent > 6

\* After a SIGINT has been read the process ends, even if the server does not stop.
InterruptEnds == main = "interrupt" ~> Ended

\* When the Reactor has ended, by itself or in a shutdown, so does the process, whatever
\* signals arrive meanwhile.
ReactorEndStops == shutdownFinished /\ hangs = {} ~> Ended

\* A task that fails, the loading of the plugins or the server itself, takes the process
\* down, even if the Reactor does not finish its shutdown.
FailedStartEnds == Failed /\ hangs \subseteq {"reactor"} ~> Ended

\* The process does not live on without one of its parts: the Reactor, the loading of the
\* plugins, the server.
EndOfAPartEndsAll == ReactorEndStops /\ FailedStartEnds

-----------------------------------------------------------------------------
(* What the documentation says of signals and the code does not keep.      *)

\* "SIGTERM, SIGHUP: orderly shutdown" (developer guide): also when another signal
\* arrives in the same second.
TerminationIsHeard == termSent /\ hangs = {} ~> Ended

=============================================================================
