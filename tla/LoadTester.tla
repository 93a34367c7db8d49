------------------------------ MODULE LoadTester ------------------------------
(***************************************************************************)
(* The load tester, loadtest/Tester.cpp: worker threads of a pool that is  *)
(* filled before it starts, one thread for the signals and the progress    *)
(* timer, and the main thread.  The pool is external: join returns when    *)
(* its workers have no more to do, or have finished what they were doing   *)
(* when it was shut down.                                                  *)
(*                                                                         *)
(* The destructor neither stops nor joins the thread of the io_context: a  *)
(* handler that runs in it meanwhile uses what was destroyed, and ends the *)
(* process ("crashed").                                                    *)
(***************************************************************************)
EXTENDS Naturals, SequencesExt

CONSTANTS Requests, Workers,
          Idle,           \* the request of a worker that has none
          timeout,        \* whether the run is limited in time
          MaxSlices       \* bound: expiries of the progress timer

ASSUME LoadAssumption == /\ IsFiniteSet(Requests) /\ Idle \notin Requests
                         /\ timeout \in BOOLEAN /\ MaxSlices \in Nat

Signals == {"SIGQUIT", "SIGALRM"}

VARIABLES
    main,                 \* what the main thread does next
    io,                   \* what the thread of the io_context does next
    signum,               \* the signal that it handles
    raised,               \* signals waiting for the signal_set
    spent,                \* signals raised so far
    pool,                 \* "filled", "started", "shutdown", "deleted"
    queue, working,       \* requests to do, and the one each worker does
    timer, slices,        \* whether the progress timer is set; its expiries
    itsResults, itsCurrentResultInd,
    itsPrintResults,
    sent,                 \* requests written to their socket
    taken, counted,       \* results of the slice in hand, and of those shown before
    printed               \* the results written in the end

poolVars == <<pool, queue, working, sent>>
ioVars   == <<io, signum, raised, spent>>
progress == <<timer, slices, itsCurrentResultInd, taken, counted>>
vars == <<main, ioVars, poolVars, progress, itsResults, itsPrintResults, printed>>

MainSteps == {"probeRemote", "alarm", "run", "start", "join", "getPrintResults",
              "printResults", "concluded", "deleted", "cancelled", "returned", "failed"}

TypeOK ==
    /\ main \in MainSteps /\ signum \in Signals \cup {"none"}
    /\ io \in {"wait", "shutdown", "setPrintResults", "show", "ended", "crashed"}
    /\ raised \subseteq Signals /\ spent \subseteq Signals
    /\ pool \in {"filled", "started", "shutdown", "deleted"}
    /\ \A w \in Workers : working[w] \in Requests \cup {Idle}
    /\ slices \in 0 .. MaxSlices /\ itsCurrentResultInd \in 0 .. Len(itsResults)
    /\ itsPrintResults \in BOOLEAN /\ timer \in BOOLEAN

\* The requests of the file, shuffled.
Suite == SetToSeqs(Requests)

\* The constructor schedules every request.
Init ==
    /\ main = "probeRemote" /\ io = "wait" /\ signum = "none" /\ raised = {} /\ spent = {}
    /\ queue \in Suite
    /\ pool = "filled" /\ working = [w \in Workers |-> Idle] /\ sent = {}
    /\ timer = FALSE /\ slices = 0
    /\ itsResults = <<>> /\ itsCurrentResultInd = 0 /\ taken = <<>> /\ counted = <<>>
    /\ itsPrintResults = FALSE /\ printed = <<>>

Running == main \notin {"returned", "failed"} /\ io # "crashed"
Go(from, to) == Running /\ main = from /\ main' = to

-----------------------------------------------------------------------------
(* The main thread.                                                        *)

\* An exception leaves main.
probeRemote ==
    /\ Go("probeRemote", "alarm") \/ Go("probeRemote", "failed")
    /\ UNCHANGED <<ioVars, poolVars, progress, itsResults, itsPrintResults, printed>>

\* Once the alarm is set, its signal may come at any time.
setAlarm ==
    /\ Go("alarm", "run")
    /\ UNCHANGED <<ioVars, poolVars, progress, itsResults, itsPrintResults, printed>>

\* run(): the timer, start and join.
armProgress ==
    /\ Go("run", "start") /\ timer' = TRUE
    /\ UNCHANGED <<ioVars, poolVars, slices, itsCurrentResultInd, taken, counted, itsResults,
                   itsPrintResults, printed>>

start_Forgotten ==
    /\ Go("start", "join")
    /\ UNCHANGED <<ioVars, poolVars, progress, itsResults, itsPrintResults, printed>>
start ==
    /\ Go("start", "join")
    /\ pool' = IF pool = "shutdown" THEN pool ELSE "started"
    /\ UNCHANGED <<ioVars, queue, working, sent, progress, itsResults, itsPrintResults,
                   printed>>

NothingToDo == (\A w \in Workers : working[w] = Idle) /\ (queue = <<>> \/ pool = "shutdown")

join_NotWaiting == Go("join", "getPrintResults")
join == NothingToDo /\ Go("join", "getPrintResults")

finishRun ==
    /\ join
    /\ UNCHANGED <<ioVars, poolVars, progress, itsResults, itsPrintResults, printed>>

getPrintResults ==
    /\ Go("getPrintResults", IF itsPrintResults THEN "printResults" ELSE "concluded")
    /\ UNCHANGED <<ioVars, poolVars, progress, itsResults, itsPrintResults, printed>>

printResults ==
    /\ Go("printResults", "concluded") /\ printed' = itsResults
    /\ UNCHANGED <<ioVars, poolVars, progress, itsResults, itsPrintResults>>

\* ~Tester: the pool, then timer and signal_set, whose waits are aborted.
deletePool ==
    /\ Go("concluded", "deleted") /\ pool' = "deleted"
    /\ UNCHANGED <<ioVars, queue, working, sent, progress, itsResults, itsPrintResults,
                   printed>>

cancelWaits ==
    /\ Go("deleted", "cancelled") /\ timer' = FALSE
    /\ UNCHANGED <<ioVars, poolVars, slices, itsCurrentResultInd, taken, counted, itsResults,
                   itsPrintResults, printed>>

return ==
    /\ Go("cancelled", "returned")
    /\ UNCHANGED <<ioVars, poolVars, progress, itsResults, itsPrintResults, printed>>

-----------------------------------------------------------------------------
(* The workers.                                                            *)

take(w) ==
    /\ Running /\ pool = "started" /\ working[w] = Idle /\ queue # <<>>
    /\ working' = [working EXCEPT ![w] = Head(queue)] /\ queue' = Tail(queue)
    /\ UNCHANGED <<main, ioVars, pool, sent, progress, itsResults, itsPrintResults, printed>>

\* performRequest up to the write: it may fail, or resolve and connect throw.
sendRequest(w) ==
    /\ Running /\ working[w] \in Requests \ sent
    /\ \/ sent' = sent \cup {working[w]} /\ UNCHANGED working
       \/ working' = [working EXCEPT ![w] = Idle] /\ UNCHANGED sent
    /\ UNCHANGED <<main, ioVars, pool, queue, progress, itsResults, itsPrintResults, printed>>

\* What was read is parsed, an error too, and recorded under itsResultMutex.
record_Unsent(w) == working[w] \in Requests
record(w) == working[w] \in sent

finishRequest(w) ==
    /\ Running /\ record(w)
    /\ itsResults' = Append(itsResults, working[w])
    /\ working' = [working EXCEPT ![w] = Idle]
    /\ UNCHANGED <<main, ioVars, pool, queue, sent, progress, itsPrintResults, printed>>

-----------------------------------------------------------------------------
(* Signals, and the thread of the io_context.                              *)

raise(s) ==
    /\ Running /\ s \notin spent
    /\ s = "SIGALRM" => timeout /\ main \notin {"probeRemote", "alarm"}
    /\ spent' = spent \cup {s} /\ raised' = raised \cup {s}
    /\ UNCHANGED <<main, io, signum, poolVars, progress, itsResults, itsPrintResults,
                   printed>>

\* handleSignal, for a signal or for a wait that the destructor aborted: itsIO.stop()
stopIO ==
    /\ Running /\ io = "wait"
    /\ \/ \E s \in raised : signum' = s /\ raised' = raised \ {s}
       \/ main = "cancelled" /\ signum' = "none" /\ UNCHANGED raised
    /\ io' = "shutdown"
    /\ UNCHANGED <<main, spent, poolVars, progress, itsResults, itsPrintResults, printed>>

poolAfterSignal_Started == pool
poolAfterSignal == "shutdown"

shutdownPool ==
    /\ Running /\ io = "shutdown"
    /\ IF pool = "deleted" THEN io' = "crashed" /\ UNCHANGED pool
       ELSE io' = "setPrintResults" /\ pool' = poolAfterSignal
    /\ UNCHANGED <<main, signum, raised, spent, queue, working, sent, progress, itsResults,
                   itsPrintResults, printed>>

\* With the io_context stopped, run returns.
setPrintResults ==
    /\ Running /\ io = "setPrintResults" /\ io' = "ended"
    /\ itsPrintResults' = (itsPrintResults \/ signum = "SIGQUIT")
    /\ UNCHANGED <<main, signum, raised, spent, poolVars, progress, itsResults, printed>>

\* The slice is taken with itsResultMutex held.
newIndex_Past == Len(itsResults) + 1
newIndex_Kept == itsCurrentResultInd
newIndex == Len(itsResults)

printProgress ==
    /\ Running /\ io = "wait" /\ timer /\ slices < MaxSlices
    /\ timer' = FALSE /\ slices' = slices + 1
    /\ IF main \in {"deleted", "cancelled"} THEN
           io' = "crashed" /\ UNCHANGED <<taken, itsCurrentResultInd>>
       ELSE
           /\ io' = "show"
           /\ taken' = SubSeq(itsResults, itsCurrentResultInd + 1, Len(itsResults))
           /\ itsCurrentResultInd' = newIndex
    /\ UNCHANGED <<main, signum, raised, spent, poolVars, counted, itsResults,
                   itsPrintResults, printed>>

\* The timer is set again, unless the destructor has taken it.
showProgress ==
    /\ Running /\ io = "show"
    /\ IF main = "cancelled" THEN io' = "crashed" /\ UNCHANGED timer
       ELSE io' = "wait" /\ timer' = TRUE
    /\ counted' = counted \o taken /\ taken' = <<>>
    /\ UNCHANGED <<main, signum, raised, spent, poolVars, slices, itsCurrentResultInd,
                   itsResults, itsPrintResults, printed>>

-----------------------------------------------------------------------------

mainStep == \/ probeRemote \/ setAlarm \/ armProgress \/ start \/ finishRun
            \/ getPrintResults \/ printResults \/ deletePool \/ cancelWaits \/ return
worker(w) == take(w) \/ sendRequest(w) \/ finishRequest(w)
handlers  == stopIO \/ shutdownPool \/ setPrintResults \/ printProgress \/ showProgress

Next ==
    \/ mainStep \/ handlers
    \/ \E w \in Workers : worker(w)
    \/ \E s \in Signals : raise(s)

\* Threads run, and a server that is asked answers or closes in the end.
Spec == /\ Init /\ [][Next]_vars
        /\ WF_vars(mainStep) /\ WF_vars(handlers)
        /\ \A w \in Workers : WF_vars(worker(w))

-----------------------------------------------------------------------------

\* A result is of a request that was sent, and each request has at most one: the early
\* return of performRequest.
ResultsWereSent == IsInjective(itsResults) /\ ToSet(itsResults) \subseteq sent

\* The slices of printProgress count every result once, while workers add to them.
EachResultCountedOnce == counted \o taken = SubSeq(itsResults, 1, itsCurrentResultInd)

\* The results are those of the requests sent, and the progress shows each of them once:
\* performRequest and printProgress.
ResultsAreCounted == TypeOK /\ ResultsWereSent /\ EachResultCountedOnce

\* printResults leaves nothing out: no worker adds a result after join in run.
PrintedIsAll == [][(main \in {"printResults", "concluded"}) => itsResults' = itsResults]_vars

\* When handleSignal is through, no request of the suite is begun any more.
SignalStopsTheSuite == [][(io = "ended") => queue' = queue]_vars

\* What has ended stays so: no request is begun after a signal, no result added after the
\* join of run.
EndIsFinal == PrintedIsAll /\ SignalStopsTheSuite

\* The tester ends, whatever fails and whenever it is told to.
RunEnds == <>~Running

\* "SigQuit should print results" (Tester.cpp:263), of a run that it has ended.
QuitPrints == main = "returned" /\ signum = "SIGQUIT" /\ queue # <<>> => printed = itsResults

=============================================================================
