---------------------------- MODULE SmartmetdProofs ----------------------------
(***************************************************************************)
(* Theorems about the two parts of smartmetd.cpp.                          *)
(*                                                                         *)
(* First the daemon's process, for any signals, any number of them and of  *)
(* the watchdog's polls, and whatever hangs.                               *)
(*                                                                         *)
(* last_signal is overwritten and cleared from three threads, so what the  *)
(* main loop and the watchdog do is accounted for by the signals that were *)
(* sent: the one variable holds at most one of them, and every one counted *)
(* is cleared.                                                             *)
(*                                                                         *)
(* Then the limiter of allocation failures, with a specification and an    *)
(* invariant of its own.                                                   *)
(***************************************************************************)
EXTENDS Smartmetd, NewHandler, TLAPS

Pending == IF last_signal = None THEN 0 ELSE 20

\* What has been stored or read was sent.
HeardInv ==
    /\ last_signal # None => sent > 0
    /\ sig # None => sent > 0
    /\ last_signal \in Terminating => termSent
    /\ sig \in Terminating => termSent
    /\ main = "interrupt" => termSent /\ sent > 0

\* The watchdog exists only after a SIGINT, on the way to the exit; each twenty it has
\* counted was sent, and so was the SIGINT that started it and what is pending now.
WatchdogInv ==
    /\ watchdog = "on" => main \in Stopping \cup Ends /\ caller = "exit"
    /\ main = "interrupt" => caller = "exit"
    /\ watchdog = "on" => sigint_cnt + 20 + Pending <= 20 * sent
    /\ main \notin Ends => sigint_cnt <= 100
    /\ watchdog = "off" /\ main \notin Ends => sigint_cnt = 0
    /\ main = "aborted" => watchdog = "on" /\ (polls = WatchdogPolls \/ sigint_cnt > 100)

Inv == TypeOK /\ HeardInv /\ WatchdogInv /\ OnlyToldToStop

LEMMA InitInv == ASSUME Init PROVE Inv
<1> USE SmartmetdAssumption DEF Init, None, Starting, Stopping, Ends, Ignored, Terminating
<1>1. TypeOK
  <2>1. task \in [Tasks -> {"none", "added", "work", "failed", "done"}] OBVIOUS
  <2>2. {handled, serverDown, shutdownFinished, termSent} \subseteq BOOLEAN OBVIOUS
  <2>3. polls \in 0 .. WatchdogPolls /\ sigint_cnt \in 0 .. 120 /\ sent \in 0 .. MaxSignals
    OBVIOUS
  <2> QED BY <2>1, <2>2, <2>3 DEF TypeOK
<1>2. HeardInv BY DEF HeardInv
<1>3. WatchdogInv BY DEF WatchdogInv
<1>4. OnlyToldToStop BY DEF OnlyToldToStop
<1> QED BY <1>1, <1>2, <1>3, <1>4 DEF Inv

\* A step that moves main and leaves the signals and the watchdog alone.
LEMMA QuietStep ==
    ASSUME Inv, UNCHANGED <<signalVars, watchdogVars, sig>>,
           main \notin Ends, main' # "interrupt", main' # "aborted",
           watchdog = "on" => main' \in Stopping \cup Ends /\ caller' = "exit"
    PROVE  HeardInv' /\ WatchdogInv'
<1> USE DEF Inv, signalVars, watchdogVars
<1>1. HeardInv' BY DEF HeardInv
<1>2. WatchdogInv' BY DEF WatchdogInv, Pending
<1> QED BY <1>1, <1>2

LEMMA StartUpInv ==
    ASSUME Inv, startFails \/ parseOptions \/ addTasks
    PROVE  Inv'
<1> USE DEF startFails, parseOptions, addTasks, Starting, Stopping, Ends
<1>1. watchdog # "on" BY DEF Inv, WatchdogInv
<1>2. HeardInv' /\ WatchdogInv' BY <1>1, QuietStep DEF signalVars, watchdogVars
<1>3. TypeOK' BY DEF Inv, TypeOK, signalVars, watchdogVars, Tasks
<1>4. OnlyToldToStop' BY DEF OnlyToldToStop
<1> QED BY <1>2, <1>3, <1>4 DEF Inv

\* Tasks run on their own: main and all it looks at stay.
LEMMA WorkInv ==
    ASSUME Inv, Work \/ runServerFails
    PROVE  Inv'
<1>1. /\ UNCHANGED <<signalVars, sig, main, caller, serverDown, watchdogVars,
                     shutdownFinished, hangs>>
      /\ main \notin Ends /\ handled' \in BOOLEAN
      /\ \E t \in Tasks, a \in {"added", "work"}, b \in {"work", "done", "failed"} :
            task[t] = a /\ task' = [task EXCEPT ![t] = b] /\ (a = "added" => b = "work")
  BY DEF Work, init_signals, initReactor, runServer, runServerFails, Ended, Tasks,
         Inv, TypeOK
<1> HIDE DEF Work, runServerFails
<1>2. HeardInv' /\ WatchdogInv'
  BY <1>1, QuietStep DEF Inv, WatchdogInv, HeardInv, signalVars, watchdogVars, Pending
<1>3. TypeOK' BY <1>1 DEF Inv, TypeOK, signalVars, watchdogVars
<1>4. OnlyToldToStop' BY <1>1 DEF Inv, OnlyToldToStop, signalVars
<1> QED BY <1>2, <1>3, <1>4 DEF Inv

\* A signal is one more that was sent, wherever it is stored.
LEMMA SignalInv == ASSUME Inv, signal_handler PROVE Inv'
<1> USE DEF signal_handler, Ended, Starting, Stopping, Ends
<1>1. PICK s \in Signals :
        /\ termSent' = (termSent \/ s \in Terminating)
        /\ \/ handled /\ last_signal' = s /\ main' = main
           \/ ~handled /\ main' \in {main, "killed"} /\ last_signal' = last_signal
  OBVIOUS
<1>2. s # None BY SmartmetdAssumption DEF None, Ignored, Terminating
<1>3. sent' = sent + 1 /\ sent \in Nat /\ sent' \in 0 .. MaxSignals
  BY SmartmetdAssumption DEF Inv, TypeOK
<1>4. HeardInv'
  <2>1. sent' > 0 /\ sig' = sig /\ (termSent => termSent')
    <3>1. sent' > 0 BY <1>3
    <3>2. sig' = sig OBVIOUS
    <3>3. termSent => termSent' BY <1>1
    <3> QED BY <3>1, <3>2, <3>3
  <2>2. last_signal' \in Terminating => termSent' BY <1>1 DEF Inv, HeardInv
  <2>3. sig' \in Terminating => termSent' BY <2>1 DEF Inv, HeardInv
  <2>4. main' = "interrupt" => termSent' BY <1>1, <2>1 DEF Inv, HeardInv
  <2> QED BY <2>1, <2>2, <2>3, <2>4 DEF HeardInv
<1>5. WatchdogInv'
  BY <1>1, <1>3, SmartmetdAssumption DEF Inv, TypeOK, WatchdogInv, Pending, watchdogVars
<1>6. TypeOK' BY <1>1, <1>3 DEF Inv, TypeOK, watchdogVars
<1>7. OnlyToldToStop' BY <1>1 DEF Inv, OnlyToldToStop
<1> QED BY <1>4, <1>5, <1>6, <1>7 DEF Inv

LEMMA EventInv == ASSUME Inv, reactorFinishes \/ crash_signal_handler PROVE Inv'
<1> USE DEF reactorFinishes, crash_signal_handler, Ended, Starting, Stopping, Ends
<1>1. HeardInv' /\ WatchdogInv'
  <2>1. /\ UNCHANGED <<signalVars, watchdogVars, sig, caller>>
        /\ main \notin Ends /\ main' \in {main, "killed"}
    OBVIOUS
  <2>2. HeardInv' BY <2>1 DEF Inv, HeardInv, signalVars
  <2>3. WatchdogInv' BY <2>1 DEF Inv, WatchdogInv, Pending, signalVars, watchdogVars
  <2> QED BY <2>2, <2>3
<1>2. TypeOK'
  <2>1. shutdownFinished' \in BOOLEAN BY DEF Inv, TypeOK
  <2>2. main' \in {main, "killed"} OBVIOUS
  <2> QED BY <2>1, <2>2 DEF Inv, TypeOK, signalVars, watchdogVars
<1>3. OnlyToldToStop' BY DEF Inv, OnlyToldToStop, signalVars
<1> QED BY <1>1, <1>2, <1>3 DEF Inv

LEMMA LoopInv ==
    ASSUME Inv, wake \/ handle_finished \/ readSignal \/ handle_signal
    PROVE  Inv'
<1> USE DEF Starting, Stopping, Ends
<1>1. /\ UNCHANGED <<signalVars, watchdogVars, handled, serverDown, shutdownFinished, hangs>>
      /\ main \in {"sleep", "collect", "read", "test"}
  BY DEF wake, handle_finished, readSignal, handle_signal
<1>2. /\ main' \in {"sleep", "collect", "read", "test", "ignore", "interrupt", "stop"}
      /\ caller' \in {"collect", "exit"}
      /\ sig' \in {sig, last_signal, None}
  BY DEF Inv, TypeOK, wake, handle_finished, readSignal, handle_signal
<1>3. main' = "interrupt" => sig = "SIGINT" /\ caller' = "exit"
  BY DEF wake, handle_finished, readSignal, handle_signal
<1>4. main' = "stop" =>
        shutdownFinished \/ caller' = "collect" \/ sig \notin Ignored \cup {None}
  BY DEF wake, handle_finished, readSignal, handle_signal
<1>5. task' \in [Tasks -> {"none", "added", "work", "failed", "done"}]
  BY DEF Inv, TypeOK, wake, handle_finished, readSignal, handle_signal
<1>6. watchdog = "off" /\ sigint_cnt = 0 BY <1>1 DEF Inv, WatchdogInv, TypeOK
<1>7. TypeOK' BY <1>1, <1>2, <1>5 DEF Inv, TypeOK, signalVars, watchdogVars
<1>8. HeardInv'
  BY <1>1, <1>2, <1>3 DEF Inv, HeardInv, signalVars, Terminating, None
<1>9. WatchdogInv' BY <1>1, <1>2, <1>3, <1>6 DEF WatchdogInv, watchdogVars
<1>10. OnlyToldToStop'
  BY <1>1, <1>2, <1>4, SmartmetdAssumption
  DEF Inv, TypeOK, HeardInv, OnlyToldToStop, signalVars
<1> QED BY <1>7, <1>8, <1>9, <1>10 DEF Inv

\* Clearing last_signal forgets a signal, whichever it holds by then; the watchdog starts
\* with nothing counted.
LEMMA ClearInv == ASSUME Inv, ignoreSignal \/ startWatchdog PROVE Inv'
<1> USE DEF ignoreSignal, startWatchdog, Starting, Stopping, Ends
<1>1. HeardInv' BY DEF Inv, HeardInv, None, Terminating
<1>2. WatchdogInv'
  <2>1. watchdog = "off" /\ sigint_cnt = 0 BY DEF Inv, WatchdogInv, TypeOK
  <2>2. CASE ignoreSignal BY <2>1, <2>2 DEF WatchdogInv, watchdogVars
  <2>3. CASE startWatchdog
    <3>1. caller = "exit" BY <2>3 DEF Inv, TypeOK, WatchdogInv, HeardInv
    <3> QED BY <2>1, <2>3, <3>1 DEF Inv, TypeOK, WatchdogInv, HeardInv, Pending
  <2> QED BY <2>2, <2>3
<1>3. TypeOK' BY SmartmetdAssumption DEF Inv, TypeOK, watchdogVars
<1>4. OnlyToldToStop' BY DEF Inv, HeardInv, OnlyToldToStop
<1> QED BY <1>1, <1>2, <1>3, <1>4 DEF Inv

LEMMA StopInv ==
    ASSUME Inv, stopPools \/ shutdownReactor \/ onShutdownTimedOut \/ stop_server
    PROVE  Inv'
<1> USE DEF Starting, Stopping, Ends
<1>1. /\ UNCHANGED <<signalVars, watchdogVars, sig, caller, handled, task, hangs>>
      /\ main \in {"stop", "reactor", "wait"}
      /\ serverDown' \in {serverDown, TRUE}
      /\ shutdownFinished' \in {shutdownFinished, TRUE}
  BY DEF Inv, TypeOK, stopPools, shutdownReactor, onShutdownTimedOut, stop_server
<1>2. /\ main' \in {"reactor", "collect", "wait", "stopped", "killed"}
      /\ main' = "collect" => caller = "collect"
      /\ main' = "stopped" => \A t \in Tasks : task[t] \in {"failed", "done"}
  BY DEF stopPools, shutdownReactor, onShutdownTimedOut, stop_server
<1>3. watchdog = "on" => main' \in Stopping \cup Ends /\ caller' = "exit"
  BY <1>1, <1>2 DEF Inv, WatchdogInv
<1>4. HeardInv' /\ WatchdogInv'
  BY <1>1, <1>2, <1>3, QuietStep
<1>5. TypeOK' BY <1>1, <1>2 DEF Inv, TypeOK, signalVars, watchdogVars
<1>6. OnlyToldToStop'
  <2>1. termSent \/ shutdownFinished \/ caller = "collect"
    BY <1>1 DEF Inv, OnlyToldToStop
  <2>2. shutdownFinished => shutdownFinished' BY <1>1
  <2>3. termSent' = termSent /\ caller' = caller BY <1>1 DEF signalVars
  <2> QED BY <2>1, <2>2, <2>3 DEF OnlyToldToStop
<1> QED BY <1>4, <1>5, <1>6 DEF Inv

LEMMA ExitInv == ASSUME Inv, exit \/ shutdownFails PROVE Inv'
<1> USE DEF exit, shutdownFails, Starting, Stopping, Ends
<1>1. HeardInv' /\ WatchdogInv' BY DEF Inv, HeardInv, WatchdogInv, signalVars
<1>2. TypeOK' BY DEF Inv, TypeOK, signalVars
<1>3. OnlyToldToStop' BY DEF OnlyToldToStop
<1> QED BY <1>1, <1>2, <1>3 DEF Inv

\* The arithmetic of a poll.
LEMMA CountedOnce ==
    ASSUME NEW count \in Nat, NEW countNext \in Nat, NEW left \in Nat, NEW leftNext \in Nat,
           NEW n \in Nat,
           countNext + leftNext <= count + left, count + 20 + left <= 20 * n
    PROVE  countNext + 20 + leftNext <= 20 * n
  OBVIOUS

\* A signal found is counted, and cleared with it: the count and what is pending together
\* never exceed what was sent.
LEMMA PollInv == ASSUME Inv, sigint_watchdog PROVE Inv'
<1> USE DEF sigint_watchdog, Ended, Starting, Stopping, Ends
<1>1. /\ watchdog = "on" /\ watchdog' = "on" /\ main \notin Ends
      /\ UNCHANGED <<sent, termSent, sig, caller, handled, task, serverDown,
                     shutdownFinished, hangs>>
  OBVIOUS
<1>2. sigint_cnt \in 0 .. 100 /\ polls \in 0 .. WatchdogPolls /\ WatchdogPolls \in Nat
      /\ sent \in Nat
  BY <1>1, SmartmetdAssumption DEF Inv, TypeOK, WatchdogInv
<1>3. \/ /\ polls = WatchdogPolls /\ main' = "aborted"
         /\ UNCHANGED <<last_signal, polls, sigint_cnt>>
      \/ /\ polls < WatchdogPolls /\ polls' = polls + 1
         /\ main' = IF sigint_cnt' > 100 THEN "aborted" ELSE main
         /\ \/ /\ last_signal \in Interrupt /\ last_signal' = None
               /\ sigint_cnt' = sigint_cnt + 20
            \/ last_signal' = last_signal /\ sigint_cnt' \in 0 .. sigint_cnt
  BY <1>2 DEF Decay
<1>4. last_signal \in Interrupt => last_signal # None BY DEF Interrupt, None
<1> HIDE DEF sigint_watchdog
<1>5. sigint_cnt' \in 0 .. 120 /\ polls' \in 0 .. WatchdogPolls /\ main' \in {main, "aborted"}
      /\ last_signal' \in {last_signal, None}
  BY <1>2, <1>3
<1>6. TypeOK' BY <1>1, <1>5 DEF Inv, TypeOK
<1>7. HeardInv' BY <1>1, <1>5 DEF Inv, HeardInv, Terminating, None
<1>8. sigint_cnt' + Pending' <= sigint_cnt + Pending
  BY <1>2, <1>3, <1>4 DEF Pending
<1>9. Pending \in Nat /\ Pending' \in Nat BY DEF Pending
<1>10. WatchdogInv'
  <2>1. main' \in Stopping \cup Ends /\ caller' = "exit"
    BY <1>1, <1>5 DEF Inv, WatchdogInv
  <2>2. sigint_cnt' + 20 + Pending' <= 20 * sent'
    <3>1. sigint_cnt + 20 + Pending <= 20 * sent BY <1>1 DEF Inv, WatchdogInv
    <3>2. sigint_cnt' \in Nat /\ sent' = sent BY <1>1, <1>5
    <3>3. sigint_cnt \in Nat /\ sent \in Nat BY <1>2
    <3> QED BY <1>8, <1>9, <3>1, <3>2, <3>3, CountedOnce
  <2>3. main' \notin Ends => sigint_cnt' <= 100 BY <1>2, <1>3, <1>5
  <2>4. main' = "aborted" => polls' = WatchdogPolls \/ sigint_cnt' > 100
    BY <1>1, <1>3
  <2> QED BY <1>1, <2>1, <2>2, <2>3, <2>4 DEF WatchdogInv
<1>11. OnlyToldToStop' BY <1>1, <1>5 DEF Inv, OnlyToldToStop
<1> QED BY <1>6, <1>7, <1>10, <1>11 DEF Inv

LEMMA NextInv == ASSUME Inv, [Next]_vars PROVE Inv'
<1>1. CASE Finished \/ Stuck \/ UNCHANGED vars
  <2>1. UNCHANGED vars BY <1>1 DEF Finished, Stuck
  <2> QED BY <2>1 DEF vars, Inv, TypeOK, HeardInv, WatchdogInv, OnlyToldToStop, Pending,
                      signalVars, watchdogVars
<1> QED BY <1>1, StartUpInv, WorkInv, SignalInv, EventInv, LoopInv, ClearInv, StopInv,
           ExitInv, PollInv DEF Next, Loop

\* The inductive invariant of the daemon's process.
THEOREM ProcessInvariance == Spec => []Inv
<1>1. Init => Inv BY InitInv
<1>2. Inv /\ [Next]_vars => Inv' BY NextInv
<1> QED BY <1>1, <1>2, PTL DEF Spec

\* Types; the watchdog's count stays within 120 twentieths, six signals.
THEOREM ProcessTypes == Spec => []TypeOK
<1>1. Inv => TypeOK BY DEF Inv
<1> QED BY <1>1, ProcessInvariance, PTL

\* The main loop never takes an ignored signal, or none, for a reason to stop, however
\* signals overwrite one another in last_signal.
THEOREM StopsWhenTold == Spec => []OnlyToldToStop
<1>1. Inv => OnlyToldToStop BY DEF Inv
<1> QED BY <1>1, ProcessInvariance, PTL

\* sigint_watchdog aborts for impatience only after more than six signals.
THEOREM AbortIsEarned == Spec => []AbortNeedsSignals
<1>1. ASSUME Inv, main = "aborted", polls < WatchdogPolls PROVE sent > 6
  <2>1. sigint_cnt > 100 /\ sigint_cnt + 20 + Pending <= 20 * sent
    BY <1>1, SmartmetdAssumption DEF Inv, TypeOK, WatchdogInv
  <2>2. sigint_cnt \in Nat /\ sent \in Nat /\ Pending \in Nat
    BY <1>1, SmartmetdAssumption DEF Inv, TypeOK, Pending
  <2> QED BY <2>1, <2>2
<1>2. Inv => AbortNeedsSignals BY <1>1 DEF AbortNeedsSignals
<1> QED BY <1>2, ProcessInvariance, PTL

-----------------------------------------------------------------------------
(* The window of the failure limiter is exact for any number of threads,   *)
(* limit, window and depth of nested handlers.                             *)
(*                                                                         *)
(* The kept time points are not inductive by themselves: the history of    *)
(* all recorded failures is in order, none is from the future, and the     *)
(* kept ones are its end.                                                  *)

\* The history is in order of time and ends now at the latest.
RecordedInOrder ==
    /\ \A j \in 1 .. Len(recorded) : \A i \in 1 .. j : recorded[i] <= recorded[j]
    /\ \A j \in 1 .. Len(recorded) : recorded[j] <= now

LimiterInv == LimiterTypeOK /\ RecordedInOrder /\ ForgetsOnlyTheOld /\ FrequencyIsBounded

-----------------------------------------------------------------------------
\* What is left of a sequence without its first elements.
LEMMA Suffix ==
    ASSUME NEW S, NEW s \in Seq(S), NEW i \in 0 .. Len(s)
    PROVE  /\ SubSeq(s, i + 1, Len(s)) \in Seq(S)
           /\ Len(SubSeq(s, i + 1, Len(s))) = Len(s) - i
           /\ \A j \in 1 .. Len(s) - i : SubSeq(s, i + 1, Len(s))[j] = s[i + j]
  OBVIOUS

\* An element at the end of a sequence.
LEMMA Appended ==
    ASSUME NEW S, NEW s \in Seq(S), NEW e \in S
    PROVE  /\ Append(s, e) \in Seq(S)
           /\ Len(Append(s, e)) = Len(s) + 1
           /\ \A j \in 1 .. Len(s) : Append(s, e)[j] = s[j]
           /\ Append(s, e)[Len(s) + 1] = e
  OBVIOUS

\* The program counters and depths stay in their types.
LEMMA Control ==
    ASSUME LimiterTypeOK, NEW t \in Threads
    PROVE  /\ \A p \in {"work", "lock", "checking", "tooMany", "print", "fallback"} :
                  Goto(t, p) => pc' \in [Threads -> {"work", "lock", "checking", "tooMany",
                                                     "print", "fallback"}]
           /\ CallHandler(t) =>
                  /\ pc' \in [Threads -> {"work", "lock", "checking", "tooMany", "print",
                                          "fallback"}]
                  /\ depth' \in [Threads -> 0 .. MaxDepth]
<1>1. \A p \in {"work", "lock", "checking", "tooMany", "print", "fallback"} :
          Goto(t, p) => pc' \in [Threads -> {"work", "lock", "checking", "tooMany",
                                             "print", "fallback"}]
  BY DEF LimiterTypeOK, Goto
<1>2. ASSUME CallHandler(t)
      PROVE  /\ pc' \in [Threads -> {"work", "lock", "checking", "tooMany", "print",
                                     "fallback"}]
             /\ depth' \in [Threads -> 0 .. MaxDepth]
  <2>1. Goto(t, "fallback") \/ Goto(t, "lock")
    BY <1>2 DEF CallHandler
  <2>2. depth[t] + 1 \in 0 .. MaxDepth
    BY <1>2, NewHandlerAssumption DEF LimiterTypeOK, CallHandler
  <2>3. depth' \in [Threads -> 0 .. MaxDepth]
    BY <1>2, <2>2 DEF LimiterTypeOK, CallHandler
  <2> QED BY <1>1, <2>1, <2>3
<1> QED BY <1>1, <1>2

-----------------------------------------------------------------------------
\* Initially nothing is recorded.
LEMMA InitLimiter == LimiterInit => LimiterInv
  BY NewHandlerAssumption
  DEF LimiterInit, LimiterInv, LimiterTypeOK, RecordedInOrder, ForgetsOnlyTheOld,
      FrequencyIsBounded, itsCount,
      set_new_handler

\* A call of the limiter drops what is older than the window, and only that.
LEMMA CheckStep ==
    ASSUME LimiterInv, NEW t \in Threads, check(t)
    PROVE  LimiterInv'
<1> USE NewHandlerAssumption
<1>1. PICK i \in 0 .. itsCount :
          /\ OldPrefix(i, now - Window)
          /\ Limit(t, now, SubSeq(itsTimePoints, i + 1, itsCount))
  BY DEF check
<1> DEFINE kept == SubSeq(itsTimePoints, i + 1, itsCount)
           K == Len(kept)
           C == itsCount
           R == Len(recorded)
<1>2. /\ now \in 0 .. MaxTime /\ recorded \in Seq(0 .. MaxTime) /\ R \in Nat
      /\ itsTimePoints \in Seq(0 .. MaxTime) /\ C \in Nat /\ C <= MaxCount
      /\ \A j \in 1 .. R : recorded[j] \in 0 .. MaxTime
  BY DEF LimiterInv, LimiterTypeOK, itsCount
<1>3. /\ kept \in Seq(0 .. MaxTime) /\ K = C - i /\ K \in Nat /\ i \in Nat
      /\ \A j \in 1 .. K : kept[j] = itsTimePoints[i + j]
  <2>1. i \in 0 .. Len(itsTimePoints) /\ C = Len(itsTimePoints)
    BY DEF itsCount
  <2>2. /\ kept \in Seq(0 .. MaxTime) /\ K = C - i
        /\ \A j \in 1 .. C - i : kept[j] = itsTimePoints[i + j]
    <3> HIDE DEF K
    <3>1. SubSeq(itsTimePoints, i + 1, Len(itsTimePoints)) = kept /\ K = Len(kept)
      BY <2>1 DEF K
    <3> HIDE DEF kept
    <3> QED BY <1>2, <2>1, <3>1, Suffix
  <2>3. K \in Nat /\ i \in Nat
    <3> HIDE DEF K, kept
    <3> QED BY <1>2, <2>1, <2>2
  <2> HIDE DEF K, kept
  <2> QED BY <2>2, <2>3
<1>4. /\ UNCHANGED <<handler, now, depth, process>>
      /\ C = itsCount /\ C = Len(itsTimePoints) /\ K = Len(kept) /\ R = Len(recorded)
  BY DEF check, itsCount
<1>5. /\ \/ /\ K < MaxCount /\ Record(t, now, kept)
         \/ /\ itsTimePoints' = kept /\ Goto(t, "tooMany")
            /\ UNCHANGED <<itsMutex, recorded>>
      /\ \A n \in 1 .. i : itsTimePoints[n] < now - Window
  <2>1. ~Full(kept) => K < MaxCount
    BY <1>3 DEF Full
  <2> QED BY <1>1, <2>1 DEF Limit, OldPrefix
<1>6. /\ R - C >= 0
      /\ \A j \in 1 .. R - C : recorded[j] < now - Window
      /\ \A j \in 1 .. C : itsTimePoints[j] = recorded[R - C + j]
  BY DEF LimiterInv, ForgetsOnlyTheOld
<1>7. /\ \A j \in 1 .. R : \A n \in 1 .. j : recorded[n] <= recorded[j]
      /\ \A j \in 1 .. R : recorded[j] <= now
      /\ \A n \in 1 .. R : n + MaxCount <= R => recorded[n + MaxCount] - recorded[n] > Window
  BY DEF LimiterInv, RecordedInOrder, FrequencyIsBounded
<1> HIDE DEF R, C, K, kept
\* the kept ones end the history, and the others are too old
<1>8. /\ R - K >= 0
      /\ \A j \in 1 .. R - K : recorded[j] < now - Window
      /\ \A j \in 1 .. K : kept[j] = recorded[R - K + j]
  <2>1. ASSUME NEW j \in 1 .. R - K
        PROVE  recorded[j] < now - Window
    <3>1. CASE j <= R - C
      BY <1>2, <1>6, <3>1
    <3>2. CASE j > R - C
      <4> DEFINE n == j - (R - C)
      <4>1. n \in 1 .. i /\ n \in 1 .. C /\ j = R - C + n
        BY <1>2, <1>3, <1>6, <3>2
      <4> QED BY <1>5, <1>6, <4>1
    <3> QED BY <1>2, <3>1, <3>2
  <2>2. ASSUME NEW j \in 1 .. K
        PROVE  kept[j] = recorded[R - K + j]
    <3>1. i + j \in 1 .. C /\ R - K + j = R - C + (i + j)
      BY <1>2, <1>3
    <3> QED BY <1>3, <1>6, <3>1
  <2> QED BY <1>2, <1>3, <1>6, <2>1, <2>2
<1>9. CASE /\ itsTimePoints' = kept /\ Goto(t, "tooMany")
           /\ UNCHANGED <<itsMutex, recorded>>
  <2>1. Len(itsTimePoints') <= MaxCount
    BY <1>2, <1>3, <1>4, <1>9
  <2>2. LimiterTypeOK'
    BY <1>2, <1>3, <1>4, <1>9, <2>1, Control DEF LimiterInv, LimiterTypeOK, itsCount
  <2>3. RecordedInOrder' /\ FrequencyIsBounded'
    BY <1>4, <1>9 DEF LimiterInv, RecordedInOrder, FrequencyIsBounded
  <2>4. Len(recorded') = R /\ itsCount' = K
    BY <1>4, <1>9 DEF itsCount
  <2>5. ForgetsOnlyTheOld'
    BY <1>4, <1>8, <1>9, <2>4 DEF ForgetsOnlyTheOld
  <2> QED BY <2>2, <2>3, <2>5 DEF LimiterInv
<1>10. CASE K < MaxCount /\ Record(t, now, kept)
  <2>1. /\ itsTimePoints' = Append(kept, now) /\ recorded' = Append(recorded, now)
        /\ itsMutex' = NoThread /\ Goto(t, "print")
    BY <1>10 DEF Record
  <2>2. /\ recorded' \in Seq(0 .. MaxTime) /\ Len(recorded') = R + 1
        /\ \A j \in 1 .. R : recorded'[j] = recorded[j]
        /\ recorded'[R + 1] = now
    BY <1>2, <1>4, <2>1, Appended
  <2>3. /\ itsTimePoints' \in Seq(0 .. MaxTime) /\ itsCount' = K + 1
        /\ \A j \in 1 .. K : itsTimePoints'[j] = kept[j]
        /\ itsTimePoints'[K + 1] = now
    <3>1. itsCount' = Len(itsTimePoints') /\ now \in 0 .. MaxTime
      BY <1>2 DEF itsCount
    <3> HIDE DEF K, kept
    <3> QED BY <1>3, <1>4, <2>1, <3>1, Appended
  <2>4. K + 1 <= MaxCount
    BY <1>2, <1>3, <1>10
  <2>5. LimiterTypeOK'
    BY <1>2, <1>4, <2>1, <2>2, <2>3, <2>4, Control DEF LimiterInv, LimiterTypeOK
  <2>6. RecordedInOrder'
    <3>1. \A j \in 1 .. R + 1 : recorded'[j] <= now
      <4> SUFFICES ASSUME NEW j \in 1 .. R + 1 PROVE recorded'[j] <= now
        OBVIOUS
      <4>1. CASE j = R + 1
        <5>1. recorded'[j] = now /\ now \in Int
          BY <1>2, <2>2, <4>1
        <5> QED BY <5>1
      <4>2. CASE j \in 1 .. R
        BY <1>7, <2>2, <4>2
      <4> QED BY <1>2, <4>1, <4>2
    <3>2. ASSUME NEW j \in 1 .. R + 1, NEW n \in 1 .. j
          PROVE  recorded'[n] <= recorded'[j]
      <4>1. CASE j = R + 1
        BY <1>2, <2>2, <3>1, <4>1
      <4>2. CASE j \in 1 .. R
        <5>1. n \in 1 .. R
          BY <1>2, <4>2
        <5> QED BY <1>7, <2>2, <4>2, <5>1
      <4> QED BY <1>2, <4>1, <4>2
    <3> QED BY <1>4, <2>2, <3>1, <3>2 DEF RecordedInOrder
  <2>7. ForgetsOnlyTheOld'
    <3>1. Len(recorded') - itsCount' = R - K
      BY <1>2, <1>3, <2>2, <2>3
    <3>2. ASSUME NEW j \in 1 .. R - K
          PROVE  recorded'[j] < now - Window
      <4>1. j \in 1 .. R
        BY <1>2, <1>3
      <4> QED BY <1>8, <2>2, <4>1
    <3>3. ASSUME NEW j \in 1 .. K + 1
          PROVE  itsTimePoints'[j] = recorded'[R - K + j]
      <4>1. CASE j = K + 1
        <5>1. R - K + j = R + 1
          BY <1>2, <1>3, <4>1
        <5>2. recorded'[R - K + j] = now
          BY <2>2, <5>1, Zenon
        <5>3. itsTimePoints'[j] = now
          BY <2>3, <4>1, Zenon
        <5> QED BY <5>2, <5>3
      <4>2. CASE j \in 1 .. K
        <5>1. R - K + j \in 1 .. R
          BY <1>2, <1>3, <1>8, <4>2
        <5> QED BY <1>8, <2>2, <2>3, <4>2, <5>1
      <4> QED BY <1>3, <4>1, <4>2
    <3> QED BY <1>4, <1>8, <2>3, <3>1, <3>2, <3>3 DEF ForgetsOnlyTheOld
  <2>8. FrequencyIsBounded'
    <3> SUFFICES ASSUME NEW n \in 1 .. R + 1, n + MaxCount <= R + 1
                 PROVE  recorded'[n + MaxCount] - recorded'[n] > Window
      BY <2>2 DEF FrequencyIsBounded
    <3>1. n \in 1 .. R
      BY <1>2
    <3>2. CASE n + MaxCount = R + 1
      \* fewer than MaxCount are kept, so the n-th is among the old ones
      <4>1. n \in 1 .. R - K
        BY <1>2, <1>3, <2>4, <3>2
      <4>2. recorded'[n] < now - Window /\ recorded'[n] \in 0 .. MaxTime
        BY <1>2, <1>8, <2>2, <3>1, <4>1
      <4>3. recorded'[n + MaxCount] = now
        BY <2>2, <3>2
      <4> QED BY <1>2, <4>2, <4>3
    <3>3. CASE n + MaxCount <= R
      <4>1. n + MaxCount \in 1 .. R
        BY <1>2, <3>3
      <4> QED BY <1>7, <2>2, <3>1, <3>3, <4>1
    <3> QED BY <1>2, <3>2, <3>3
  <2> QED BY <2>5, <2>6, <2>7, <2>8 DEF LimiterInv
<1> QED BY <1>5, <1>9, <1>10

\* Every step keeps the invariant.
LEMMA LimiterStep == LimiterInv /\ [LimiterNext]_limiterVars => LimiterInv'
<1> SUFFICES ASSUME LimiterInv, [LimiterNext]_limiterVars PROVE LimiterInv'
  OBVIOUS
<1> USE NewHandlerAssumption
<1> DEFINE Same == UNCHANGED <<handler, itsTimePoints, recorded>>
<1>0. ASSUME Same, LimiterTypeOK', now' >= now
      PROVE  LimiterInv'
  <2>1. now \in Nat /\ now' \in Nat /\ recorded \in Seq(Nat)
    BY <1>0 DEF LimiterInv, LimiterTypeOK
  <2>2. \A j \in 1 .. Len(recorded) : recorded[j] \in Nat
    BY <2>1
  <2>3. RecordedInOrder' /\ FrequencyIsBounded'
    BY <1>0, <2>1, <2>2 DEF LimiterInv, RecordedInOrder, FrequencyIsBounded
  <2>4. ForgetsOnlyTheOld'
    BY <1>0, <2>1, <2>2 DEF LimiterInv, ForgetsOnlyTheOld, itsCount
  <2> QED BY <1>0, <2>3, <2>4 DEF LimiterInv
<1>1. ASSUME NEW t \in Threads, allocationFails(t) PROVE LimiterInv'
  BY <1>0, <1>1, Control DEF LimiterInv, LimiterTypeOK, allocationFails, itsCount
<1>2. ASSUME NEW t \in Threads, lock(t) PROVE LimiterInv'
  BY <1>0, <1>2, Control DEF LimiterInv, LimiterTypeOK, lock, itsCount
<1>3. ASSUME NEW t \in Threads, check(t) PROVE LimiterInv'
  BY <1>3, CheckStep
<1>4. ASSUME NEW t \in Threads, throwTooMany(t) PROVE LimiterInv'
  BY <1>0, <1>4, Control DEF LimiterInv, LimiterTypeOK, throwTooMany, itsCount
<1>5. ASSUME NEW t \in Threads, bad_alloc_new_handler(t) PROVE LimiterInv'
  BY <1>0, <1>5, Control DEF LimiterInv, LimiterTypeOK, bad_alloc_new_handler, itsCount
<1>6. ASSUME NEW t \in Threads, fallback(t) PROVE LimiterInv'
  BY <1>0, <1>6 DEF LimiterInv, LimiterTypeOK, fallback, itsCount
<1>7. ASSUME tick PROVE LimiterInv'
  BY <1>0, <1>7 DEF LimiterInv, LimiterTypeOK, tick, itsCount
<1>8. ASSUME UNCHANGED limiterVars PROVE LimiterInv'
  BY <1>0, <1>8 DEF LimiterInv, LimiterTypeOK, limiterVars, itsCount
<1> QED BY <1>1, <1>2, <1>3, <1>4, <1>5, <1>6, <1>7, <1>8 DEF LimiterNext, Handle, Terminated

\* The inductive invariant of the limiter holds in every reachable state.
THEOREM LimiterInvariance == LimiterSpec => []LimiterInv
  BY InitLimiter, LimiterStep, PTL DEF LimiterSpec

-----------------------------------------------------------------------------
\* The array of time points is never overrun, and every variable keeps its type.
THEOREM LimiterTypes == LimiterSpec => []LimiterTypeOK
<1>1. LimiterInv => LimiterTypeOK
  BY DEF LimiterInv
<1> QED BY <1>1, LimiterInvariance, PTL

\* The end of a history in order of time is in order of time.
LEMMA KeptOrder == LimiterInv => OldestFirst
<1> SUFFICES ASSUME LimiterInv, NEW j \in 1 .. itsCount, NEW i \in 1 .. j
             PROVE  itsTimePoints[i] <= itsTimePoints[j]
  BY DEF OldestFirst
<1> DEFINE d == Len(recorded) - itsCount
<1>1. /\ Len(recorded) \in Nat /\ itsCount \in Nat /\ d >= 0
      /\ \A n \in 1 .. itsCount : itsTimePoints[n] = recorded[d + n]
  BY DEF LimiterInv, LimiterTypeOK, ForgetsOnlyTheOld, itsCount
<1>2. d + j \in 1 .. Len(recorded) /\ d + i \in 1 .. d + j /\ i \in 1 .. itsCount
  BY <1>1
<1>3. recorded[d + i] <= recorded[d + j]
  BY <1>2 DEF LimiterInv, RecordedInOrder
<1> QED BY <1>1, <1>2, <1>3

\* A thread is told that there are too many failures only by check, and what that keeps
\* is then a full window.
LEMMA RefusalStep ==
    ASSUME LimiterInv, [LimiterNext]_limiterVars, NEW t \in Threads,
           pc[t] # "tooMany", pc'[t] = "tooMany"
    PROVE  /\ Len(itsTimePoints') = MaxCount
           /\ \A j \in 1 .. MaxCount : itsTimePoints'[j] >= now - Window
<1> USE NewHandlerAssumption
<1>1. PICK u \in Threads : check(u)
  <2>1. pc \in [Threads -> {"work", "lock", "checking", "tooMany", "print", "fallback"}]
    BY DEF LimiterInv, LimiterTypeOK
  <2>2. pc' # pc
    OBVIOUS
  <2>3. ASSUME NEW u \in Threads, NEW p, p # "tooMany", Goto(u, p)
        PROVE  FALSE
    BY <2>1, <2>3 DEF Goto
  <2>4. ASSUME NEW u \in Threads, CallHandler(u)
        PROVE  FALSE
    BY <2>3, <2>4 DEF CallHandler
  <2> QED BY <2>2, <2>3, <2>4
          DEF LimiterNext, Handle, allocationFails, lock, throwTooMany, bad_alloc_new_handler,
              fallback, tick, Terminated, limiterVars
<1>2. PICK i \in 0 .. itsCount :
          /\ OldPrefix(i, now - Window)
          /\ Limit(u, now, SubSeq(itsTimePoints, i + 1, itsCount))
  BY <1>1 DEF check
<1> DEFINE kept == SubSeq(itsTimePoints, i + 1, itsCount)
<1>3. itsTimePoints' = kept /\ Full(kept)
  <2>1. pc \in [Threads -> {"work", "lock", "checking", "tooMany", "print", "fallback"}]
    BY DEF LimiterInv, LimiterTypeOK
  <2>2. ~Goto(u, "print")
    BY <2>1 DEF Goto
  <2> QED BY <1>2, <2>2 DEF Limit, Record
<1>4. /\ itsTimePoints \in Seq(0 .. MaxTime) /\ itsCount \in Nat /\ itsCount <= MaxCount
      /\ i \in Nat /\ now \in Nat /\ MaxCount \in Nat /\ Window \in Nat
  BY DEF LimiterInv, LimiterTypeOK, itsCount
<1>5. Len(kept) = itsCount - i /\ \A j \in 1 .. itsCount - i : kept[j] = itsTimePoints[i + j]
  BY <1>4, Suffix DEF itsCount
<1>6. i = 0 /\ itsCount = MaxCount /\ Len(kept) = MaxCount
  BY <1>3, <1>4, <1>5 DEF Full
<1>7. ASSUME NEW j \in 1 .. MaxCount
      PROVE  itsTimePoints'[j] >= now - Window
  <2>1. itsTimePoints[1] >= now - Window
    BY <1>2, <1>4, <1>6 DEF OldPrefix
  <2>2. itsTimePoints[1] <= itsTimePoints[j]
    BY <1>4, <1>6, KeptOrder DEF OldestFirst
  <2>3. itsTimePoints'[j] = itsTimePoints[j]
    BY <1>3, <1>4, <1>5, <1>6
  <2>4. itsTimePoints[1] \in Int /\ itsTimePoints[j] \in Int
    BY <1>4, <1>6 DEF itsCount
  <2> QED BY <1>4, <2>1, <2>2, <2>3, <2>4
<1> QED BY <1>3, <1>6, <1>7

\* The limiter may drop old failures as a prefix: what it keeps is in order of time.
THEOREM KeptInOrder == LimiterSpec => []OldestFirst
  BY KeptOrder, LimiterInvariance, PTL

\* The limiter refuses a failure only after as many others as the limit, none of them
\* older than the window.
THEOREM RefusesExcess == LimiterSpec => OnlyExcessIsRefused
<1>1. LimiterInv /\ [LimiterNext]_limiterVars =>
          [\A t \in Threads : pc[t] # "tooMany" /\ pc'[t] = "tooMany" =>
              /\ Len(itsTimePoints') = MaxCount
              /\ \A j \in 1 .. MaxCount : itsTimePoints'[j] >= now - Window]_limiterVars
  BY RefusalStep
<1> QED BY <1>1, LimiterInvariance, PTL DEF LimiterSpec, OnlyExcessIsRefused

\* The limiter forgets a failure only when it is older than the window.
THEOREM ForgetsTheOld == LimiterSpec => []ForgetsOnlyTheOld
<1>1. LimiterInv => ForgetsOnlyTheOld
  BY DEF LimiterInv
<1> QED BY <1>1, LimiterInvariance, PTL

\* No window holds more failures let through than the limit.
THEOREM Frequency == LimiterSpec => []FrequencyIsBounded
<1>1. LimiterInv => FrequencyIsBounded
  BY DEF LimiterInv
<1> QED BY <1>1, LimiterInvariance, PTL

=============================================================================
