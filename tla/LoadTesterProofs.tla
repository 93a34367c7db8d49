--------------------------- MODULE LoadTesterProofs ---------------------------
(***************************************************************************)
(* Theorems about LoadTester, for every suite, every number of workers and *)
(* every number of expiries of the progress timer.                         *)
(*                                                                         *)
(* The argument: a request is in one place only, the queue, the hands of   *)
(* one worker, or the results (PlaceInv), which is why each has at most    *)
(* one result; the shown slices are a prefix of the results, because       *)
(* results are only ever appended (SliceInv); and the pool, once shut      *)
(* down, is not started again (PoolInv), so that what join waited for      *)
(* stays as it was (JoinInv).                                              *)
(***************************************************************************)
EXTENDS LoadTester, FiniteSetTheorems, SequenceTheorems, TLAPS

-----------------------------------------------------------------------------
(* The inductive invariant.                                                *)

DataInv ==
    /\ working \in [Workers -> Requests \cup {Idle}]
    /\ queue \in Seq(Requests) /\ sent \subseteq Requests
    /\ itsResults \in Seq(Requests)
    /\ taken \in Seq(Requests) /\ counted \in Seq(Requests)

\* Each request is in one place, and one that waits has not been sent.
PlaceInv ==
    /\ \A i, j \in 1 .. Len(queue) : queue[i] = queue[j] => i = j
    /\ \A i, j \in 1 .. Len(itsResults) : itsResults[i] = itsResults[j] => i = j
    /\ \A v, w \in Workers : working[v] = working[w] => v = w \/ working[v] = Idle
    /\ \A w \in Workers : \A i \in 1 .. Len(queue) : queue[i] # working[w]
    /\ \A w \in Workers : \A i \in 1 .. Len(itsResults) : itsResults[i] # working[w]
    /\ \A i \in 1 .. Len(queue) : queue[i] \notin sent
    /\ \A i \in 1 .. Len(itsResults) : itsResults[i] \in sent

\* Only between the two halves of printProgress is there a slice in hand.
SliceInv == EachResultCountedOnce /\ (io # "show" => taken = <<>>)

\* The pool is shut down before the thread of the io_context says so, and its end is
\* the destructor's.
PoolInv ==
    /\ io \in {"setPrintResults", "ended"} => pool \in {"shutdown", "deleted"}
    /\ pool = "deleted" => main \in {"deleted", "cancelled", "returned"}

\* After join nobody works, and nobody will.
AfterJoin == {"getPrintResults", "printResults", "concluded", "deleted", "cancelled",
              "returned"}

JoinInv ==
    main \in AfterJoin =>
        /\ \A w \in Workers : working[w] = Idle
        /\ queue = <<>> \/ pool \in {"shutdown", "deleted"}

LoadInv == TypeOK /\ DataInv /\ PlaceInv /\ SliceInv /\ PoolInv /\ JoinInv

-----------------------------------------------------------------------------
(* The suite.                                                              *)

\* A shuffled suite is a sequence that holds no request twice.
LEMMA SuiteIsShuffled ==
    ASSUME NEW s \in Suite
    PROVE  s \in Seq(Requests) /\ \A i, j \in 1 .. Len(s) : s[i] = s[j] => i = j
<1>1. Cardinality(Requests) \in Nat
  BY LoadAssumption, FS_CardinalityType
<1>2. /\ s \in [1 .. Cardinality(Requests) -> Requests]
      /\ \A i, j \in 1 .. Cardinality(Requests) : i # j => s[i] # s[j]
  BY DEF Suite, SetToSeqs
<1>3. s \in Seq(Requests) /\ Len(s) = Cardinality(Requests)
  BY <1>1, <1>2
<1> QED BY <1>2, <1>3

LEMMA InitLoad == ASSUME Init PROVE LoadInv
<1> USE DEF Init
<1>1. queue \in Seq(Requests) /\ \A i, j \in 1 .. Len(queue) : queue[i] = queue[j] => i = j
  BY SuiteIsShuffled
<1>2. TypeOK
  <2>1. slices \in 0 .. MaxSlices
    BY LoadAssumption
  <2>2. Len(itsResults) = 0
    OBVIOUS
  <2>3. itsCurrentResultInd \in 0 .. Len(itsResults)
    BY <2>2
  <2> QED BY <2>1, <2>3 DEF TypeOK, MainSteps
<1>3. DataInv
  BY <1>1 DEF DataInv
<1>4. PlaceInv
  <2>1. \A i \in 1 .. Len(queue) : queue[i] \in Requests
    BY <1>1
  <2> QED BY <1>1, <2>1, LoadAssumption DEF PlaceInv
<1>5. SliceInv
  BY DEF SliceInv, EachResultCountedOnce
<1>6. PoolInv /\ JoinInv
  BY DEF PoolInv, JoinInv, AfterJoin
<1> QED BY <1>2, <1>3, <1>4, <1>5, <1>6 DEF LoadInv

-----------------------------------------------------------------------------
(* Main thread and signals: they leave requests and results alone.         *)

\* A step that touches neither the requests nor the results, nor what was shown.
Untouched ==
    /\ UNCHANGED <<queue, working, sent, itsResults>>
    /\ UNCHANGED <<itsCurrentResultInd, taken, counted>>
    /\ io = "show" => io' = io

LEMMA UntouchedStep ==
    ASSUME LoadInv, Untouched
    PROVE  DataInv' /\ PlaceInv' /\ SliceInv'
<1>1. DataInv'
  BY DEF LoadInv, Untouched, DataInv
<1>2. PlaceInv'
  BY DEF LoadInv, Untouched, PlaceInv
<1>3. SliceInv'
  BY DEF LoadInv, Untouched, SliceInv, EachResultCountedOnce
<1> QED BY <1>1, <1>2, <1>3

\* The main thread goes on.
LEMMA MainStepInv == ASSUME LoadInv, mainStep PROVE LoadInv'
<1> USE DEF Go, poolVars, ioVars, progress
<1>1. Untouched /\ DataInv' /\ PlaceInv' /\ SliceInv'
  <2>1. Untouched
    BY DEF mainStep, Untouched, probeRemote, setAlarm, armProgress, start, finishRun, join,
           getPrintResults, printResults, deletePool, cancelWaits, return
  <2> QED BY <2>1, UntouchedStep
<1>2. TypeOK'
  BY <1>1 DEF LoadInv, TypeOK, MainSteps, Untouched, mainStep, probeRemote, setAlarm,
              armProgress, start, finishRun, join, getPrintResults, printResults,
              deletePool, cancelWaits, return
<1>3. PoolInv'
  BY DEF LoadInv, PoolInv, TypeOK, MainSteps, mainStep, probeRemote, setAlarm, armProgress,
         start, finishRun, join, getPrintResults, printResults, deletePool, cancelWaits,
         return
<1>4. JoinInv'
  <2>1. CASE finishRun
    BY <2>1 DEF finishRun, join, NothingToDo, JoinInv, AfterJoin
  <2>2. CASE probeRemote \/ setAlarm \/ armProgress \/ start
    BY <2>2 DEF probeRemote, setAlarm, armProgress, start, JoinInv, AfterJoin
  <2>3. CASE getPrintResults \/ printResults \/ deletePool \/ cancelWaits \/ return
    <3>1. main \in AfterJoin
      BY <2>3 DEF AfterJoin, getPrintResults, printResults, deletePool, cancelWaits, return
    <3>2. pool' \in {pool, "deleted"}
      BY <2>3 DEF getPrintResults, printResults, deletePool, cancelWaits, return
    <3> QED BY <1>1, <3>1, <3>2 DEF LoadInv, JoinInv, Untouched
  <2> QED BY <2>1, <2>2, <2>3 DEF mainStep
<1> QED BY <1>1, <1>2, <1>3, <1>4 DEF LoadInv

LEMMA RaiseInv == ASSUME LoadInv, NEW s \in Signals, raise(s) PROVE LoadInv'
<1> USE DEF raise, poolVars, progress
<1>1. DataInv' /\ PlaceInv' /\ SliceInv'
  BY UntouchedStep DEF Untouched
<1>2. TypeOK'
  BY DEF LoadInv, TypeOK
<1>3. PoolInv' /\ JoinInv'
  BY DEF LoadInv, PoolInv, JoinInv
<1> QED BY <1>1, <1>2, <1>3 DEF LoadInv

\* Stopping, shutting the pool down, and setting itsPrintResults.
LEMMA SignalInv ==
    ASSUME LoadInv, stopIO \/ shutdownPool \/ setPrintResults
    PROVE  LoadInv'
<1> USE DEF stopIO, shutdownPool, setPrintResults, poolVars, progress, poolAfterSignal
<1>1. Untouched /\ DataInv' /\ PlaceInv' /\ SliceInv'
  <2>1. Untouched
    BY DEF Untouched
  <2> QED BY <2>1, UntouchedStep
<1>2. TypeOK'
  BY <1>1 DEF LoadInv, TypeOK, Untouched
<1>3. PoolInv'
  BY DEF LoadInv, PoolInv
<1>4. JoinInv'
  <2>1. main' = main /\ pool' \in {pool, "shutdown"}
    OBVIOUS
  <2> QED BY <1>1, <2>1 DEF LoadInv, JoinInv, Untouched
<1> QED BY <1>1, <1>2, <1>3, <1>4 DEF LoadInv

-----------------------------------------------------------------------------
(* The progress.                                                           *)

\* The slice taken is the part of the results that was not shown yet.
LEMMA PrintProgressInv == ASSUME LoadInv, printProgress PROVE LoadInv'
<1> USE DEF printProgress, poolVars, newIndex
<1>1. /\ itsResults \in Seq(Requests) /\ taken \in Seq(Requests)
      /\ counted \in Seq(Requests) /\ itsCurrentResultInd \in 0 .. Len(itsResults)
  BY DEF LoadInv, DataInv, TypeOK
<1>2. UNCHANGED <<queue, working, sent, itsResults, counted, main, pool, signum, raised,
                  spent, itsPrintResults>>
  OBVIOUS
<1>3. PlaceInv' /\ JoinInv'
  BY <1>2 DEF LoadInv, PlaceInv, JoinInv
<1>4. slices' \in 0 .. MaxSlices /\ Len(itsResults) \in Nat
  <2>1. slices \in 0 .. MaxSlices /\ MaxSlices \in Nat
    BY LoadAssumption DEF LoadInv, TypeOK
  <2> QED BY <1>1, <2>1
<1>5. PoolInv'
  BY <1>2 DEF LoadInv, PoolInv
<1>6. CASE main \in {"deleted", "cancelled"}
  <2>1. DataInv' /\ SliceInv'
    BY <1>2, <1>6 DEF LoadInv, DataInv, SliceInv, EachResultCountedOnce
  <2>2. TypeOK'
    BY <1>2, <1>6, <1>4 DEF LoadInv, TypeOK
  <2> QED BY <1>3, <1>5, <2>1, <2>2 DEF LoadInv
<1>7. CASE main \notin {"deleted", "cancelled"}
  <2>1. /\ taken' = SubSeq(itsResults, itsCurrentResultInd + 1, Len(itsResults))
        /\ itsCurrentResultInd' = Len(itsResults)
    BY <1>7
  <2>2. taken' \in Seq(Requests)
    BY <1>1, <2>1
  <2>3. DataInv'
    BY <1>2, <2>2 DEF LoadInv, DataInv
  <2>4. TypeOK'
    <3>1. itsCurrentResultInd' \in 0 .. Len(itsResults)
      BY <1>4, <2>1
    <3> QED BY <1>2, <1>7, <1>4, <3>1 DEF LoadInv, TypeOK
  <2>5. counted = SubSeq(itsResults, 1, itsCurrentResultInd)
    BY <1>1 DEF LoadInv, SliceInv, EachResultCountedOnce
  <2>6. counted' \o taken' = SubSeq(itsResults, 1, Len(itsResults))
    <3> DEFINE k == itsCurrentResultInd
               n == Len(itsResults)
    <3>1. 1 \in 1 .. n + 1 /\ k \in 1 - 1 .. n /\ n \in k .. n
      BY <1>1, <1>4
    <3>2. SubSeq(itsResults, 1, k) \o SubSeq(itsResults, k + 1, n) = SubSeq(itsResults, 1, n)
      <4> HIDE DEF k, n
      <4> QED BY <1>1, <3>1, ConcatAdjacentSubSeq DEF n
    <3> QED BY <1>2, <2>1, <2>5, <3>2
  <2>7. SliceInv'
    BY <1>2, <1>7, <2>1, <2>6 DEF SliceInv, EachResultCountedOnce
  <2> QED BY <1>3, <1>5, <2>3, <2>4, <2>7 DEF LoadInv
<1> QED BY <1>6, <1>7

LEMMA ShowProgressInv == ASSUME LoadInv, showProgress PROVE LoadInv'
<1> USE DEF showProgress, poolVars
<1>1. taken \in Seq(Requests) /\ counted \in Seq(Requests)
  BY DEF LoadInv, DataInv
<1>2. counted' = counted \o taken /\ taken' = <<>>
  OBVIOUS
<1>3. counted' \in Seq(Requests) /\ counted' \o taken' = counted'
  BY <1>1, <1>2
<1>4. DataInv'
  BY <1>2, <1>3 DEF LoadInv, DataInv
<1>5. SliceInv'
  BY <1>2, <1>3 DEF LoadInv, SliceInv, EachResultCountedOnce
<1>6. TypeOK' /\ PlaceInv' /\ PoolInv' /\ JoinInv'
  BY DEF LoadInv, TypeOK, PlaceInv, PoolInv, JoinInv
<1> QED BY <1>4, <1>5, <1>6 DEF LoadInv

-----------------------------------------------------------------------------
(* The workers.                                                            *)

LEMMA TakeInv == ASSUME LoadInv, NEW w \in Workers, take(w) PROVE LoadInv'
<1> USE DEF take, ioVars, progress
<1>1. /\ working \in [Workers -> Requests \cup {Idle}] /\ queue \in Seq(Requests)
      /\ queue # <<>> /\ Idle \notin Requests
  BY LoadAssumption DEF LoadInv, DataInv
<1>2. /\ Len(queue) \in Nat /\ Len(queue) >= 1
      /\ Head(queue) = queue[1] /\ Head(queue) \in Requests
      /\ queue' \in Seq(Requests) /\ Len(queue') = Len(queue) - 1
      /\ \A i \in 1 .. Len(queue') : queue'[i] = queue[i + 1]
  BY <1>1
<1>3. /\ working' \in [Workers -> Requests \cup {Idle}] /\ working'[w] = queue[1]
      /\ \A v \in Workers : v # w => working'[v] = working[v]
  BY <1>1, <1>2
<1>4. DataInv'
  BY <1>2, <1>3 DEF LoadInv, DataInv
<1>5. TypeOK'
  BY <1>3 DEF LoadInv, TypeOK
<1>6. SliceInv' /\ PoolInv'
  BY DEF LoadInv, SliceInv, EachResultCountedOnce, PoolInv
<1>7. JoinInv'
  BY <1>1 DEF LoadInv, JoinInv
<1>8. PlaceInv'
  <2> USE DEF LoadInv, PlaceInv
  <2>1. /\ \A i, j \in 1 .. Len(queue') : queue'[i] = queue'[j] => i = j
        /\ \A i \in 1 .. Len(queue') : queue'[i] \notin sent'
    BY <1>2
  <2>2. \A v \in Workers : v # w => working'[v] # working'[w]
    BY <1>2, <1>3
  <2>3. \A u, v \in Workers : working'[u] = working'[v] => u = v \/ working'[u] = Idle
    BY <1>3, <2>2
  <2>4. \A v \in Workers : \A i \in 1 .. Len(queue') : queue'[i] # working'[v]
    BY <1>2, <1>3
  <2>5. \A v \in Workers : \A i \in 1 .. Len(itsResults) : itsResults[i] # working'[v]
    <3>1. queue[1] \notin sent
      BY <1>2
    <3>2. \A i \in 1 .. Len(itsResults) : itsResults[i] # queue[1]
      BY <3>1
    <3> QED BY <1>3, <3>2
  <2> QED BY <2>1, <2>3, <2>4, <2>5
<1> QED BY <1>4, <1>5, <1>6, <1>7, <1>8 DEF LoadInv

\* A request that fails before it is sent is in no place any more.
LEMMA SendRequestInv == ASSUME LoadInv, NEW w \in Workers, sendRequest(w) PROVE LoadInv'
<1> USE DEF sendRequest, ioVars, progress
<1>1. /\ working \in [Workers -> Requests \cup {Idle}] /\ queue \in Seq(Requests)
      /\ itsResults \in Seq(Requests) /\ sent \subseteq Requests
      /\ working[w] \in Requests /\ Idle \notin Requests
  BY LoadAssumption DEF LoadInv, DataInv
<1>2. /\ working' \in [Workers -> Requests \cup {Idle}] /\ sent' \subseteq Requests
      /\ \A v \in Workers : working'[v] = working[v] \/ working'[v] = Idle
      /\ sent \subseteq sent' /\ sent' \subseteq sent \cup {working[w]}
  BY <1>1
<1>3. DataInv' /\ TypeOK'
  BY <1>2 DEF LoadInv, DataInv, TypeOK
<1>4. SliceInv' /\ PoolInv'
  BY DEF LoadInv, SliceInv, EachResultCountedOnce, PoolInv
<1>5. JoinInv'
  BY <1>1 DEF LoadInv, JoinInv
<1>6. PlaceInv'
  <2> USE DEF LoadInv, PlaceInv
  <2>1. /\ \A i \in 1 .. Len(queue) : queue[i] \in Requests
        /\ \A i \in 1 .. Len(itsResults) : itsResults[i] \in Requests
    BY <1>1
  <2>2. \A v \in Workers : \A i \in 1 .. Len(queue) : queue[i] # working'[v]
    BY <1>1, <1>2, <2>1
  <2>3. \A v \in Workers : \A i \in 1 .. Len(itsResults) : itsResults[i] # working'[v]
    BY <1>1, <1>2, <2>1
  <2>4. \A u, v \in Workers : working'[u] = working'[v] => u = v \/ working'[u] = Idle
    BY <1>2
  <2>5. /\ \A i \in 1 .. Len(queue) : queue[i] \notin sent'
        /\ \A i \in 1 .. Len(itsResults) : itsResults[i] \in sent'
    BY <1>2
  <2> QED BY <2>2, <2>3, <2>4, <2>5
<1> QED BY <1>3, <1>4, <1>5, <1>6 DEF LoadInv

\* The worker's request becomes a result; the slices shown stay what they were.
LEMMA FinishRequestInv == ASSUME LoadInv, NEW w \in Workers, finishRequest(w) PROVE LoadInv'
<1> USE DEF finishRequest, record, ioVars, progress
<1>1. /\ working \in [Workers -> Requests \cup {Idle}] /\ queue \in Seq(Requests)
      /\ itsResults \in Seq(Requests) /\ sent \subseteq Requests
      /\ working[w] \in sent /\ Idle \notin Requests
      /\ itsCurrentResultInd \in 0 .. Len(itsResults)
  BY LoadAssumption DEF LoadInv, DataInv, TypeOK
<1> DEFINE n == Len(itsResults)
<1>2. /\ itsResults' \in Seq(Requests) /\ n \in Nat /\ Len(itsResults') = n + 1
      /\ itsResults'[n + 1] = working[w]
      /\ \A i \in 1 .. n : itsResults'[i] = itsResults[i]
  BY <1>1
<1>3. /\ working' \in [Workers -> Requests \cup {Idle}] /\ working'[w] = Idle
      /\ \A v \in Workers : v # w => working'[v] = working[v]
  BY <1>1
<1>4. DataInv'
  BY <1>2, <1>3 DEF LoadInv, DataInv
<1>5. TypeOK'
  BY <1>1, <1>2, <1>3 DEF LoadInv, TypeOK
<1>6. PoolInv'
  BY DEF LoadInv, PoolInv
<1>7. JoinInv'
  BY <1>1 DEF LoadInv, JoinInv
<1>8. SliceInv'
  <2>1. SubSeq(itsResults', 1, itsCurrentResultInd) = SubSeq(itsResults, 1, itsCurrentResultInd)
    BY <1>1, <1>2
  <2> QED BY <2>1 DEF LoadInv, SliceInv, EachResultCountedOnce
<1>9. PlaceInv'
  <2> USE DEF LoadInv, PlaceInv
  <2> HIDE DEF n
  <2>0. n = Len(itsResults)
    BY DEF n
  <2>1. \A i \in 1 .. n : itsResults[i] # working[w] /\ itsResults[i] \in sent
    BY <2>0
  <2>2. \A i, j \in 1 .. n + 1 : itsResults'[i] = itsResults'[j] => i = j
    <3>1. \A i \in 1 .. n + 1 : i \in 1 .. n \/ i = n + 1
      BY <1>2
    <3>2. \A i, j \in 1 .. n : itsResults'[i] = itsResults'[j] => i = j
      BY <1>2, <2>0
    <3> QED BY <1>2, <2>1, <3>1, <3>2
  <2>3. \A i \in 1 .. n + 1 : itsResults'[i] \in sent
    <3>1. \A i \in 1 .. n + 1 : i \in 1 .. n \/ i = n + 1
      BY <1>2
    <3> QED BY <1>1, <1>2, <2>1, <3>1
  <2>4. \A v \in Workers : \A i \in 1 .. n + 1 : itsResults'[i] # working'[v]
    <3>1. \A i \in 1 .. n + 1 : i \in 1 .. n \/ i = n + 1
      BY <1>2
    <3>2. \A v \in Workers : v # w => working[v] # working[w]
      BY <1>1
    <3>3. \A i \in 1 .. n + 1 : itsResults'[i] \in Requests
      BY <1>1, <2>3
    <3> QED BY <1>1, <1>2, <1>3, <2>0, <2>1, <3>1, <3>2, <3>3
  <2>5. \A u, v \in Workers : working'[u] = working'[v] => u = v \/ working'[u] = Idle
    BY <1>3
  <2>6. \A v \in Workers : \A i \in 1 .. Len(queue) : queue[i] # working'[v]
    <3>1. \A i \in 1 .. Len(queue) : queue[i] \in Requests
      BY <1>1
    <3> QED BY <1>1, <1>3, <3>1
  <2> QED BY <1>2, <2>0, <2>2, <2>3, <2>4, <2>5, <2>6
<1> QED BY <1>4, <1>5, <1>6, <1>7, <1>8, <1>9 DEF LoadInv

-----------------------------------------------------------------------------
(* The theorems.                                                           *)

LEMMA LoadStep == ASSUME LoadInv, [Next]_vars PROVE LoadInv'
<1>1. CASE mainStep
  BY <1>1, MainStepInv
<1>2. CASE handlers
  BY <1>2, SignalInv, PrintProgressInv, ShowProgressInv DEF handlers
<1>3. ASSUME NEW w \in Workers, worker(w) PROVE LoadInv'
  BY <1>3, TakeInv, SendRequestInv, FinishRequestInv DEF worker
<1>4. ASSUME NEW s \in Signals, raise(s) PROVE LoadInv'
  BY <1>4, RaiseInv
<1>5. CASE UNCHANGED vars
  BY <1>5 DEF vars, ioVars, poolVars, progress, LoadInv, TypeOK, DataInv, PlaceInv, SliceInv,
              EachResultCountedOnce, PoolInv, JoinInv
<1> QED BY <1>1, <1>2, <1>3, <1>4, <1>5 DEF Next

\* Requests, results and progress of Tester are related as LoadInv says in every state of
\* a run.
THEOREM Invariance == Spec => []LoadInv
<1>1. Init => LoadInv
  BY InitLoad
<1>2. LoadInv /\ [Next]_vars => LoadInv'
  BY LoadStep
<1> QED BY <1>1, <1>2, PTL DEF Spec

\* performRequest records at most one result of a request, and only of one that it sent;
\* printProgress shows each result once, however the workers add to them meanwhile.
THEOREM Counted == Spec => []ResultsAreCounted
<1>1. LoadInv => ResultsAreCounted
  <2> SUFFICES ASSUME LoadInv PROVE ResultsAreCounted
    OBVIOUS
  <2>1. itsResults \in Seq(Requests)
    BY DEF LoadInv, DataInv
  <2>2. DOMAIN itsResults = 1 .. Len(itsResults)
    BY <2>1
  <2>3. IsInjective(itsResults)
    BY <2>2 DEF LoadInv, PlaceInv, IsInjective
  <2>4. ToSet(itsResults) \subseteq sent
    BY <2>2 DEF LoadInv, PlaceInv, ToSet
  <2> QED BY <2>3, <2>4 DEF LoadInv, SliceInv, ResultsAreCounted, ResultsWereSent
<1> QED BY <1>1, Invariance, PTL

\* After the join of run no result is added, so that printResults prints all of them; when
\* handleSignal is through, no worker begins a request of the suite.
THEOREM EndStays == Spec => EndIsFinal
<1> DEFINE Printed == (main \in {"printResults", "concluded"}) => itsResults' = itsResults
           Stopped == (io = "ended") => queue' = queue
<1>1. LoadInv /\ [Next]_vars => [Printed]_vars /\ [Stopped]_vars
  <2> SUFFICES ASSUME LoadInv, [Next]_vars PROVE Printed /\ Stopped
    OBVIOUS
  <2>1. CASE UNCHANGED vars
    BY <2>1 DEF vars, poolVars
  <2>2. CASE mainStep \/ handlers \/ \E s \in Signals : raise(s)
    BY <2>2 DEF mainStep, probeRemote, setAlarm, armProgress, start, finishRun,
                getPrintResults, printResults, deletePool, cancelWaits, return,
                handlers, stopIO, shutdownPool, setPrintResults, printProgress,
                showProgress, raise, poolVars
  <2>3. ASSUME NEW w \in Workers, worker(w) PROVE Printed /\ Stopped
    <3>1. CASE take(w)
      BY <3>1 DEF take, LoadInv, PoolInv
    <3>2. CASE sendRequest(w)
      BY <3>2 DEF sendRequest
    <3>3. CASE finishRequest(w)
      <4>1. working[w] # Idle
        BY <3>3, LoadAssumption DEF finishRequest, record, LoadInv, DataInv
      <4> QED BY <3>3, <4>1 DEF finishRequest, LoadInv, JoinInv, AfterJoin
    <3> QED BY <2>3, <3>1, <3>2, <3>3 DEF worker
  <2> QED BY <2>1, <2>2, <2>3 DEF Next
<1> QED BY <1>1, Invariance, PTL DEF Spec, EndIsFinal, PrintedIsAll, SignalStopsTheSuite

=============================================================================
