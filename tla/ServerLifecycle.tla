---------------------------- MODULE ServerLifecycle ----------------------------
(***************************************************************************)
(* Starting and stopping the server: run, shutdown and                     *)
(* serverThreadFunction of source/AsyncServer.cpp, shutdownServer of       *)
(* source/Server.cpp.                                                      *)
(*                                                                         *)
(* The task "srv-run" starts the io threads and the pools; the main thread *)
(* shuts them down, possibly more than once and possibly before srv-run    *)
(* has got anywhere.  One streamed response stands for all work: a handler *)
(* on an io thread schedules it on a pool, a pool thread pulls content     *)
(* from the plugin's streamer and starts a write, whose completion is a    *)
(* handler again.  Whoever has it next pins the plugin's streamer.         *)
(***************************************************************************)
EXTENDS Naturals, FiniteSets, ShutdownRequest

CONSTANTS
    Workers,   \* the io threads
    MaxPolls,  \* times shutdown polls for the workers before it goes on anyway
    MaxCalls   \* bound: times the main thread calls shutdownServer

ASSUME LifecycleAssumption ==
    /\ IsFiniteSet(Workers)
    /\ MaxPolls \in Nat
    /\ MaxCalls \in Nat

VARIABLES
    run,                  \* where srv-run is
    worker,               \* where each io thread is
    itsRunningWorkers,
    ioStopped,            \* itsIoService.stop() was called
    mutex,                \* who holds itsExecutorMutex
    pools,                \* the three executors
    main,                 \* where the main thread is in shutdownServer
    waited, calls,
    gaveUp,               \* the poll loop ended with workers running
    reactorDown,          \* itsReactor.shutdown() was called: plugins are unloaded
    stream                \* who has the streamed response next

runVars  == <<run, worker, itsRunningWorkers>>
mainVars == <<main, waited, calls, gaveUp, itsShutdownRequested, ioStopped, reactorDown>>
vars == <<runVars, mainVars, mutex, pools, stream>>

TypeOK ==
    /\ run \in {"asleep", "spawn", "lock", "check", "startPools", "join", "returned"}
    /\ worker \in [Workers -> {"none", "spawned", "polling", "handler", "left", "exited"}]
    /\ itsRunningWorkers \in 0 .. Cardinality(Workers)
    /\ ioStopped \in BOOLEAN /\ itsShutdownRequested \in BOOLEAN
    /\ mutex \in {"free", "run", "main"}
    /\ pools \in {"built", "started", "joined", "gone"}
    /\ main \in {"serving", "stop", "poll", "lock", "joinPools", "reset", "reactor"}
    /\ waited \in 0 .. MaxPolls /\ calls \in 0 .. MaxCalls
    /\ gaveUp \in BOOLEAN /\ reactorDown \in BOOLEAN
    /\ stream \in {"none", "queued", "pulled", "written", "released"}

\* AsyncServer is built, with its pools; srv-run sleeps before it calls run().
Init ==
    /\ run = "asleep" /\ worker = [w \in Workers |-> "none"] /\ itsRunningWorkers = 0
    /\ ioStopped = FALSE /\ itsShutdownRequested = FALSE
    /\ mutex = "free" /\ pools = "built"
    /\ main = "serving" /\ waited = 0 /\ calls = 0 /\ gaveUp = FALSE
    /\ reactorDown = FALSE /\ stream = "none"

-----------------------------------------------------------------------------
(* srv-run: AsyncServer::run.                                              *)

publishWorkers_Missing ==
    /\ run = "asleep" /\ run' = "spawn"
    /\ UNCHANGED <<worker, itsRunningWorkers, mainVars, mutex, pools, stream>>
\* The count is published before the first thread exists.
publishWorkers ==
    /\ run = "asleep" /\ run' = "spawn"
    /\ itsRunningWorkers' = Cardinality(Workers)
    /\ UNCHANGED <<worker, mainVars, mutex, pools, stream>>

spawnWorker ==
    /\ run = "spawn"
    /\ \E w \in Workers : worker[w] = "none" /\ worker' = [worker EXCEPT ![w] = "spawned"]
    /\ UNCHANGED <<run, itsRunningWorkers, mainVars, mutex, pools, stream>>

allSpawned ==
    /\ run = "spawn" /\ \A w \in Workers : worker[w] # "none"
    /\ run' = "lock"
    /\ UNCHANGED <<worker, itsRunningWorkers, mainVars, mutex, pools, stream>>

lockForStart_NoLock ==
    /\ run = "lock" /\ run' = "check"
    /\ UNCHANGED <<worker, itsRunningWorkers, mainVars, mutex, pools, stream>>
lockForStart ==
    /\ run = "lock" /\ run' = "check"
    /\ mutex = "free" /\ mutex' = "run"
    /\ UNCHANGED <<worker, itsRunningWorkers, mainVars, pools, stream>>

checkBeforeStart ==
    /\ run = "check"
    /\ IF ~itsShutdownRequested /\ pools # "gone"
       THEN run' = "startPools" /\ UNCHANGED mutex
       ELSE run' = "join" /\ mutex' = "free"
    /\ UNCHANGED <<worker, itsRunningWorkers, mainVars, pools, stream>>

startPools ==
    /\ run = "startPools" /\ run' = "join"
    /\ pools' = "started" /\ mutex' = "free"
    /\ UNCHANGED <<worker, itsRunningWorkers, mainVars, stream>>

joinWorkers ==
    /\ run = "join" /\ \A w \in Workers : worker[w] = "exited"
    /\ run' = "returned"
    /\ UNCHANGED <<worker, itsRunningWorkers, mainVars, mutex, pools, stream>>

-----------------------------------------------------------------------------
(* The io threads: serverThreadFunction.                                   *)

\* io_context::run; after stop() it returns without running a handler.
enterIo(w) ==
    /\ worker[w] = "spawned"
    /\ worker' = [worker EXCEPT ![w] = IF ioStopped THEN "left" ELSE "polling"]
    /\ UNCHANGED <<run, itsRunningWorkers, mainVars, mutex, pools, stream>>

\* A request has been read, or a write has completed.
beginHandler(w) ==
    /\ worker[w] = "polling" /\ ~ioStopped
    /\ stream \in {"none", "written"}
    /\ worker' = [worker EXCEPT ![w] = "handler"]
    /\ UNCHANGED <<run, itsRunningWorkers, mainVars, mutex, pools, stream>>

\* The handler schedules the response on a pool, if the queue takes it; or it ends the
\* response, or something else altogether was handled.  It holds a reference to the pool
\* until it returns.
endHandler(w) ==
    /\ worker[w] = "handler"
    /\ worker' = [worker EXCEPT ![w] = "polling"]
    /\ \/ stream \in {"none", "written"} /\ pools # "gone" /\ stream' = "queued"
       \/ stream = "written" /\ stream' = "released"
       \/ UNCHANGED stream
    /\ UNCHANGED <<run, itsRunningWorkers, mainVars, mutex, pools>>

leaveIo(w) ==
    /\ worker[w] = "polling" /\ ioStopped
    /\ worker' = [worker EXCEPT ![w] = "left"]
    /\ UNCHANGED <<run, itsRunningWorkers, mainVars, mutex, pools, stream>>

\* ~WorkerExitGuard
exitWorker(w) ==
    /\ worker[w] = "left"
    /\ worker' = [worker EXCEPT ![w] = "exited"]
    /\ itsRunningWorkers' = itsRunningWorkers - 1
    /\ UNCHANGED <<run, mainVars, mutex, pools, stream>>

-----------------------------------------------------------------------------
(* The pool threads.                                                       *)

getNextChunk ==
    /\ pools = "started"
    /\ stream = "queued" /\ stream' = "pulled"
    /\ UNCHANGED <<runVars, mainVars, mutex, pools>>

\* A write is started, or the response is over.
endTask ==
    /\ stream = "pulled" /\ stream' \in {"written", "released"}
    /\ UNCHANGED <<runVars, mainVars, mutex, pools>>

-----------------------------------------------------------------------------
(* The main thread: shutdownServer.                                        *)

shutdownServer ==
    /\ main = "serving" /\ main' = "stop"
    /\ calls < MaxCalls /\ calls' = calls + 1
    /\ itsShutdownRequested' = TRUE
    /\ waited' = 0
    /\ UNCHANGED <<runVars, gaveUp, ioStopped, reactorDown, mutex, pools, stream>>

stopIo ==
    /\ main = "stop" /\ main' = "poll"
    /\ ioStopped' = TRUE
    /\ UNCHANGED <<runVars, waited, calls, gaveUp, itsShutdownRequested, reactorDown, mutex,
                   pools, stream>>

pollWorkers_Forever ==
    /\ main = "poll"
    /\ itsRunningWorkers = 0
    /\ main' = "lock"
    /\ UNCHANGED <<runVars, waited, gaveUp, calls, itsShutdownRequested, ioStopped,
                   reactorDown, mutex, pools, stream>>
\* Sleeps while workers run, but only so long.
pollWorkers ==
    /\ main = "poll"
    /\ IF itsRunningWorkers > 0 /\ waited < MaxPolls
       THEN waited' = waited + 1 /\ UNCHANGED <<main, gaveUp>>
       ELSE main' = "lock" /\ gaveUp' = (gaveUp \/ itsRunningWorkers > 0) /\ UNCHANGED waited
    /\ UNCHANGED <<runVars, calls, itsShutdownRequested, ioStopped, reactorDown, mutex,
                   pools, stream>>

lockForTeardown ==
    /\ main = "lock" /\ mutex = "free"
    /\ IF pools = "gone"
       THEN main' = "reactor" /\ UNCHANGED mutex
       ELSE main' = "joinPools" /\ mutex' = "main"
    /\ UNCHANGED <<runVars, waited, calls, gaveUp, itsShutdownRequested, ioStopped,
                   reactorDown, pools, stream>>

\* The graceful shutdown of the pools waits for the tasks being run.
joinPools ==
    /\ main = "joinPools" /\ main' = "reset"
    /\ stream # "pulled"
    /\ pools' = "joined"
    /\ UNCHANGED <<runVars, waited, calls, gaveUp, itsShutdownRequested, ioStopped,
                   reactorDown, mutex, stream>>

resetPools_Kept ==
    /\ main = "reset" /\ main' = "reactor"
    /\ mutex' = "free"
    /\ UNCHANGED <<runVars, pools, stream, waited, calls, gaveUp, itsShutdownRequested,
                   ioStopped, reactorDown>>
\* The queued tasks are dropped with the pools.
resetPools ==
    /\ main = "reset" /\ main' = "reactor"
    /\ pools' = "gone" /\ mutex' = "free"
    /\ stream' = IF stream = "queued" THEN "released" ELSE stream
    /\ UNCHANGED <<runVars, waited, calls, gaveUp, itsShutdownRequested, ioStopped,
                   reactorDown>>

shutdownReactor ==
    /\ main = "reactor" /\ main' = "serving"
    /\ reactorDown' = TRUE
    /\ UNCHANGED <<runVars, waited, calls, gaveUp, itsShutdownRequested, ioStopped, mutex,
                   pools, stream>>

-----------------------------------------------------------------------------
RunStep  == publishWorkers \/ spawnWorker \/ allSpawned \/ lockForStart
                \/ checkBeforeStart \/ startPools \/ joinWorkers
PoolStep == getNextChunk \/ endTask
MainStep == stopIo \/ pollWorkers \/ lockForTeardown \/ joinPools \/ resetPools
                \/ shutdownReactor
WorkerStep(w) == enterIo(w) \/ beginHandler(w) \/ endHandler(w) \/ leaveIo(w)
                     \/ exitWorker(w)

\* The last call has returned and nothing more is asked of the server.
Finished == main = "serving" /\ calls = MaxCalls /\ UNCHANGED vars

Next ==
    \/ RunStep \/ PoolStep
    \/ \E w \in Workers : WorkerStep(w)
    \/ shutdownServer \/ MainStep
    \/ Finished

Spec == Init /\ [][Next]_vars

\* The main thread, srv-run and the pool threads get on, a plugin's task ends.  Nothing
\* is asked of the io threads: a handler may be stuck in a blocking write.
Fairness == WF_vars(MainStep) /\ WF_vars(RunStep) /\ WF_vars(PoolStep)

FairSpec == Spec /\ Fairness

-----------------------------------------------------------------------------
(* Properties.                                                             *)

\* A handler holds references into the pools: as long as one runs they exist, whether
\* the shutdown comes before, during or after the start of the io threads; unless the
\* wait for the workers was given up.
PoolsOutliveHandlers ==
    (pools = "gone" /\ ~gaveUp) => \A w \in Workers : worker[w] # "handler"

\* Pools are not started, or anything else, once they have been torn down.
PoolsStayGone == [][pools = "gone" => pools' = "gone"]_vars

\* When the plugins are unloaded no task, queued or running, holds a plugin's streamer.
TasksGoBeforePlugins == reactorDown => stream \notin {"queued", "pulled"}

\* The pools go after the handlers that schedule onto them and before the plugins whose
\* code their tasks hold: the order of AsyncServer::shutdown.
PoolsGoInBetween == PoolsOutliveHandlers /\ TasksGoBeforePlugins

\* A shutdown ends, although io threads may hang: the wait for them is bounded, and the
\* lock is not held by anybody who waits for the main thread.
ShutdownEnds == main = "stop" ~> main = "serving"

-----------------------------------------------------------------------------
(* What the sources say of the shutdown and the code does not keep.        *)

\* "releasing them now, while the plugins' shared libraries are still mapped"
\* (shutdown): a response in a pending write is held by the io_context, not by a pool.
StreamersReleasedFirst == reactorDown => stream \in {"none", "released"}

=============================================================================
