----------------------------- MODULE ServerProofs ------------------------------
(***************************************************************************)
(* Theorems about the parts of the server that share no connection: the    *)
(* accept loop with its limit, start and shutdown, and the memory log.     *)
(* Each has an invariant of its own; what they have in common is the flag  *)
(* of ShutdownRequest.                                                     *)
(***************************************************************************)
EXTENDS AcceptLoop, ServerLifecycle, MemoryLog, FiniteSetTheorems, WellFoundedInduction,
        TLAPS

-----------------------------------------------------------------------------
(* The connection limit, for every limit and every number of connections.  *)
(* The count alone is not enough: that the limit holds after start rests   *)
(* on the slot checkLimit saw free, which the loop, being the only one to  *)
(* take slots, still has.                                                  *)

\* The object in the loop's hands is not destroyed, and not started before start.
LoopInv ==
    /\ state[itsNewConnection] # "unused"
    /\ pc \in {"listening", "check", "refuse", "start"} => state[itsNewConnection] = "new"

\* The slot found free by checkLimit.
SlotInv ==
    (pc = "start" /\ itsMaxConnections > 0) => Cardinality(Live) < itsMaxConnections

AcceptInv ==
    /\ LoopTypeOK /\ CountIsExact /\ LoopInv /\ SlotInv
    /\ LimitKept /\ LoggedOncePerEpisode

\* The live objects are finitely many, so that counting them makes sense.
LEMMA LiveIsFinite == IsFiniteSet(Live) /\ Cardinality(Live) \in Nat
<1>1. Live \subseteq Connections BY DEF Live
<1>2. IsFiniteSet(Live) BY <1>1, AcceptAssumption, FS_Subset
<1> QED BY <1>2, FS_CardinalityType

LEMMA InitAccept == ASSUME LoopInit PROVE AcceptInv
<1>1. state \in [Connections -> States] /\ state[itsNewConnection] = "new"
  BY DEF LoopInit, States
<1>2. Live = {} BY DEF Live, LoopInit
<1>3. Cardinality(Live) = 0 BY <1>2, FS_EmptySet
<1>4. LoopTypeOK BY <1>1 DEF LoopInit, LoopTypeOK
<1>5. LoopInv /\ CountIsExact /\ LoggedOncePerEpisode
  BY <1>1, <1>3 DEF LoopInit, LoopInv, CountIsExact, LoggedOncePerEpisode
<1>6. LimitKept /\ SlotInv
  BY <1>3, AcceptAssumption DEF LoopInit, LimitKept, SlotInv
<1> QED BY <1>4, <1>5, <1>6 DEF AcceptInv

\* A step that leaves state and the two counters alone keeps all but the loop's position.
LEMMA UncountedStep ==
    ASSUME AcceptInv, state' = state, itsConnectionCount' = itsConnectionCount
    PROVE  Live' = Live /\ CountIsExact' /\ LimitKept'
<1>1. Live' = Live BY DEF Live
<1> QED BY <1>1 DEF AcceptInv, CountIsExact, LimitKept

\* The loop moves on without touching objects or counts; startAccept may also replace
\* the object in its hands.
LEMMA StartAcceptInv == ASSUME AcceptInv, startAccept PROVE AcceptInv'
<1> USE DEF startAccept
<1>1. CASE itsShutdownRequested
  <2>1. Live' = Live /\ CountIsExact' /\ LimitKept' BY <1>1, UncountedStep
  <2> QED BY <1>1, <2>1 DEF AcceptInv, LoopTypeOK, LoopInv, SlotInv, LoggedOncePerEpisode
<1>2. CASE ~itsShutdownRequested
  <2>1. PICK c \in Connections :
            /\ state[c] = "unused"
            /\ itsNewConnection' = c
            /\ itsConnectionCount' = itsConnectionCount
            /\ \/ itsNewConnection \in Live /\ state' = [state EXCEPT ![c] = "new"]
               \/ /\ itsNewConnection \notin Live
                  /\ state' = [state EXCEPT ![c] = "new", ![itsNewConnection] = "unused"]
    BY <1>2 DEF destructor
  <2>2. pc' = "listening" BY <1>2
  <2>3. /\ state \in [Connections -> States] /\ itsNewConnection \in Connections
        /\ itsNewConnection # c
    BY <2>1 DEF AcceptInv, LoopTypeOK, LoopInv
  <2>4. state' \in [Connections -> States] /\ state'[c] = "new"
    BY <2>1, <2>3 DEF States
  <2>5. \A d \in Connections : state'[d] \in {"open", "lingering"}
                                  <=> state[d] \in {"open", "lingering"}
    BY <2>1, <2>3 DEF Live
  <2>6. Live' = Live BY <2>5 DEF Live
  <2> QED BY <2>1, <2>2, <2>4, <2>6
          DEF AcceptInv, LoopTypeOK, CountIsExact, LoopInv, SlotInv, LimitKept,
              LoggedOncePerEpisode
<1> QED BY <1>1, <1>2

LEMMA RefuseInv == ASSUME AcceptInv, refuse PROVE AcceptInv'
<1> USE DEF refuse
<1>1. /\ state \in [Connections -> States] /\ itsNewConnection \in Connections
      /\ state[itsNewConnection] = "new"
  BY DEF AcceptInv, LoopTypeOK, LoopInv
<1>2. state' \in [Connections -> States] /\ state'[itsNewConnection] = "refused"
  BY <1>1 DEF States
<1>3. Live' = Live BY <1>1 DEF Live
<1>4. reports' \in Nat /\ LoggedOncePerEpisode'
  BY DEF AcceptInv, LoopTypeOK, LoggedOncePerEpisode
<1> QED BY <1>2, <1>3, <1>4 DEF AcceptInv, LoopTypeOK, CountIsExact, LoopInv, SlotInv,
                                LimitKept

\* start takes the slot that was free.
LEMMA StartInv == ASSUME AcceptInv, start PROVE AcceptInv'
<1> USE DEF start
<1>1. /\ state \in [Connections -> States] /\ itsNewConnection \in Connections
      /\ state[itsNewConnection] = "new"
  BY DEF AcceptInv, LoopTypeOK, LoopInv
<1>2. state' \in [Connections -> States] /\ state'[itsNewConnection] = "open"
  BY <1>1 DEF States
<1>3. Live' = Live \cup {itsNewConnection} /\ itsNewConnection \notin Live
  BY <1>1 DEF Live
<1>4. Cardinality(Live') = Cardinality(Live) + 1
  BY <1>3, LiveIsFinite, FS_AddElement
<1>5. LimitKept'
  BY <1>4, LiveIsFinite, AcceptAssumption DEF AcceptInv, SlotInv, LimitKept
<1>6. LoopTypeOK'
  <2>1. itsConnectionCount' \in Nat BY DEF AcceptInv, LoopTypeOK
  <2>2. reports' \in Nat BY SMT
  <2> QED BY <1>1, <1>2, <2>1, <2>2 DEF AcceptInv, LoopTypeOK
<1>7. LoopInv' /\ SlotInv' BY <1>2 DEF LoopInv, SlotInv
<1>8. CountIsExact' BY <1>4 DEF AcceptInv, CountIsExact
<1>9. LoggedOncePerEpisode' BY DEF LoggedOncePerEpisode
<1> QED BY <1>5, <1>6, <1>7, <1>8, <1>9 DEF AcceptInv

LEMMA CloseInv == ASSUME AcceptInv, NEW c \in Connections, closeSocket(c) PROVE AcceptInv'
<1> USE DEF closeSocket
<1>1. state \in [Connections -> States] /\ itsNewConnection \in Connections
  BY DEF AcceptInv, LoopTypeOK
<1>2. state' \in [Connections -> States] BY <1>1 DEF States
<1>3. Live' = Live BY <1>1 DEF Live
<1> QED BY <1>1, <1>2, <1>3 DEF AcceptInv, LoopTypeOK, CountIsExact, LoopInv, SlotInv,
                                LimitKept,
                                LoggedOncePerEpisode

LEMMA DestroyInv == ASSUME AcceptInv, NEW c \in Connections, destroy(c) PROVE AcceptInv'
<1> USE DEF destroy
<1>1. /\ state \in [Connections -> States] /\ itsNewConnection \in Connections
      /\ c \in Live /\ c # itsNewConnection
  BY DEF AcceptInv, LoopTypeOK
<1>2. state' \in [Connections -> States] /\ state'[itsNewConnection] = state[itsNewConnection]
  BY <1>1 DEF States
<1>3. Live' = Live \ {c} BY <1>1 DEF Live
<1>4. Cardinality(Live') = Cardinality(Live) - 1 /\ Cardinality(Live') \in Nat
  <2>1. IsFiniteSet(Live \ {c}) /\ Cardinality(Live \ {c}) = Cardinality(Live) - 1
    BY <1>1, LiveIsFinite, FS_RemoveElement
  <2> QED BY <1>3, <2>1, FS_CardinalityType
<1>5. itsConnectionCount' = itsConnectionCount - 1 BY <1>1 DEF destructor
<1>6. CountIsExact' /\ LimitKept' /\ SlotInv'
  BY <1>4, <1>5, LiveIsFinite, AcceptAssumption DEF AcceptInv, CountIsExact, LimitKept, SlotInv
<1> QED BY <1>1, <1>2, <1>4, <1>6 DEF AcceptInv, LoopTypeOK, CountIsExact, LoopInv,
                                      LoggedOncePerEpisode

LEMMA AcceptStep == ASSUME AcceptInv, [LoopNext]_loopVars PROVE AcceptInv'
<1>1. CASE startAccept BY <1>1, StartAcceptInv
<1>2. CASE handleAccept
  <2>1. Live' = Live /\ CountIsExact' /\ LimitKept' BY <1>2, UncountedStep DEF handleAccept
  <2> QED BY <1>2, <2>1
          DEF handleAccept, AcceptInv, LoopTypeOK, LoopInv, SlotInv, LoggedOncePerEpisode
<1>3. CASE checkLimit
  <2>1. Live' = Live /\ CountIsExact' /\ LimitKept' BY <1>3, UncountedStep DEF checkLimit
  <2>2. SlotInv'
    BY <1>3, <2>1, AcceptAssumption
    DEF checkLimit, LimitReached, AcceptInv, LoopTypeOK, CountIsExact, SlotInv
  <2> QED BY <1>3, <2>1, <2>2
          DEF checkLimit, AcceptInv, LoopTypeOK, LoopInv, LoggedOncePerEpisode
<1>4. CASE refuse BY <1>4, RefuseInv
<1>5. CASE start BY <1>5, StartInv
<1>6. CASE \E c \in Connections : closeSocket(c) \/ destroy(c)
  BY <1>6, CloseInv, DestroyInv
<1>7. CASE shutdownWhileAccepting
  <2>1. Live' = Live /\ CountIsExact' /\ LimitKept'
    BY <1>7, UncountedStep DEF shutdownWhileAccepting
  <2> QED BY <1>7, <2>1
          DEF shutdownWhileAccepting, requestShutdown, AcceptInv, LoopTypeOK, LoopInv, SlotInv,
              LoggedOncePerEpisode
<1>8. CASE Stopped \/ UNCHANGED loopVars
  <2>1. UNCHANGED loopVars BY <1>8 DEF Stopped
  <2>2. Live' = Live BY <2>1 DEF loopVars, Live
  <2> QED BY <2>1, <2>2
          DEF loopVars, AcceptInv, LoopTypeOK, CountIsExact, LoopInv, SlotInv, LimitKept,
              LoggedOncePerEpisode
<1> QED BY <1>1, <1>2, <1>3, <1>4, <1>5, <1>6, <1>7, <1>8 DEF LoopNext

\* The inductive invariant holds in every reachable state of the accept loop.
THEOREM AcceptInvariance == LoopSpec => []AcceptInv
<1>1. LoopInit => AcceptInv BY InitAccept
<1>2. AcceptInv /\ [LoopNext]_loopVars => AcceptInv' BY AcceptStep
<1> QED BY <1>1, <1>2, PTL DEF LoopSpec

\* Types; itsConnectionCount, unsigned in the code, never goes below zero.
THEOREM LoopTypes == LoopSpec => []LoopTypeOK
<1>1. AcceptInv => LoopTypeOK BY DEF AcceptInv
<1> QED BY <1>1, AcceptInvariance, PTL

\* handleAccept never registers a connection beyond maxconnections, whatever is
\* destroyed meanwhile.
THEOREM LimitIsKept == LoopSpec => []LimitKept
<1>1. AcceptInv => LimitKept BY DEF AcceptInv
<1> QED BY <1>1, AcceptInvariance, PTL

\* registerConnection and ~Connection keep the count equal to the number of connections
\* being served.
THEOREM CountStaysExact == LoopSpec => []CountIsExact
<1>1. AcceptInv => CountIsExact BY DEF AcceptInv
<1> QED BY <1>1, AcceptInvariance, PTL

\* handleAccept reports reaching the limit once, until a connection gets in again.
THEOREM OneReportPerEpisode == LoopSpec => []LoggedOncePerEpisode
<1>1. AcceptInv => LoggedOncePerEpisode BY DEF AcceptInv
<1> QED BY <1>1, AcceptInvariance, PTL

\* Cardinality is the same operator in the instance.
LEMMA SameCount == ASSUME NEW S PROVE Slots!Cardinality(S) = Cardinality(S)
  BY DEF Slots!Cardinality, Cardinality

\* What the count says of the slots: at every test it is the number of slots taken.
LEMMA TestIsOfSlots == ASSUME AcceptInv PROVE LimitReached <=> Slots!Full
  BY SameCount DEF AcceptInv, CountIsExact, LimitReached, Slots!Full

\* Of startAccept, all but a recycled object matters to the loop alone.
LEMMA StartAcceptKeepsLive == ASSUME AcceptInv, startAccept PROVE Live' = Live
<1>1. /\ state \in [Connections -> States] /\ itsNewConnection \in Connections
      /\ state[itsNewConnection] # "unused"
  BY DEF AcceptInv, LoopTypeOK, LoopInv
<1>2. \A d \in Connections : state'[d] \in {"open", "lingering"}
                                <=> state[d] \in {"open", "lingering"}
  BY <1>1 DEF startAccept, Live
<1> QED BY <1>2 DEF Live

\* checkLimit turns a client away when it finds no slot, although it is told only in
\* refuse; start lets one in, destroy gives a slot back.
LEMMA SlotStep ==
    ASSUME AcceptInv, [LoopNext]_loopVars PROVE [Slots!SlotNext]_(Slots!slotVars)
<1> USE DEF Slots!slotVars
<1>1. CASE startAccept
  BY <1>1, StartAcceptKeepsLive DEF startAccept
<1>2. CASE handleAccept BY <1>2 DEF handleAccept, Live
<1>3. CASE checkLimit
  <2>1. Live' = Live BY <1>3 DEF checkLimit, Live
  <2>2. CASE LimitReached
    <3>1. Slots!TurnAway
      BY <1>3, <2>1, <2>2, TestIsOfSlots DEF checkLimit, Slots!TurnAway
    <3> QED BY <3>1 DEF Slots!SlotNext
  <2>3. CASE ~LimitReached BY <1>3, <2>1, <2>3 DEF checkLimit
  <2> QED BY <2>2, <2>3
<1>4. CASE refuse
  <2>1. state[itsNewConnection] = "new" BY <1>4 DEF refuse, AcceptInv, LoopInv
  <2>2. Live' = Live BY <1>4, <2>1 DEF refuse, Live, AcceptInv, LoopTypeOK
  <2>3. (itsConnectionLimitReported \/ pc = "refuse")'
          = (itsConnectionLimitReported \/ pc = "refuse")
    BY <1>4 DEF refuse
  <2> QED BY <2>2, <2>3
<1>5. CASE start
  <2>1. itsNewConnection \in Connections /\ state[itsNewConnection] = "new"
    BY <1>5 DEF start, AcceptInv, LoopInv, LoopTypeOK
  <2>2. Live' = Live \cup {itsNewConnection} /\ itsNewConnection \notin Live
    BY <1>5, <2>1 DEF start, Live, AcceptInv, LoopTypeOK
  <2>3. ~Slots!Full
    BY <1>5, SameCount, LiveIsFinite, AcceptAssumption DEF start, AcceptInv, SlotInv,
       Slots!Full
  <2>4. Slots!LetIn(itsNewConnection)
    BY <1>5, <2>2, <2>3 DEF start, Slots!LetIn
  <2> QED BY <2>1, <2>4 DEF Slots!SlotNext
<1>6. ASSUME NEW c \in Connections, closeSocket(c) PROVE UNCHANGED Slots!slotVars
  BY <1>6 DEF closeSocket, Live, AcceptInv, LoopTypeOK
<1>7. ASSUME NEW c \in Connections, destroy(c) PROVE Slots!SlotNext
  <2>1. Live' = Live \ {c} BY <1>7 DEF destroy, Live, AcceptInv, LoopTypeOK
  <2>2. Slots!GiveBack(c) BY <1>7, <2>1 DEF destroy, Slots!GiveBack
  <2> QED BY <2>2 DEF Slots!SlotNext
<1>8. CASE shutdownWhileAccepting BY <1>8 DEF shutdownWhileAccepting, requestShutdown, Live
<1>9. CASE Stopped \/ UNCHANGED loopVars BY <1>9 DEF Stopped, loopVars, Live
<1> QED BY <1>1, <1>2, <1>3, <1>4, <1>5, <1>6, <1>7, <1>8, <1>9 DEF LoopNext

\* The accept loop implements a set of slots: a client is turned away only when every
\* slot was taken, and the test and the registration, apart as they are, never give one
\* slot to two connections.
THEOREM SlotsKept == LoopSpec => SlotsArePromised
<1>1. LoopInit => Slots!SlotInit
  <2>1. ASSUME LoopInit PROVE Live = {} BY <2>1 DEF Live, LoopInit
  <2> QED BY <2>1 DEF LoopInit, Slots!SlotInit
<1>2. AcceptInv /\ [LoopNext]_loopVars => [Slots!SlotNext]_(Slots!slotVars) BY SlotStep
<1> QED BY <1>1, <1>2, AcceptInvariance, PTL DEF LoopSpec, SlotsArePromised, Slots!SlotSpec

-----------------------------------------------------------------------------
(* The safety of start and shutdown, for any number of io threads, polls   *)
(* and shutdown calls, at whatever point of the start the first shutdown   *)
(* comes.                                                                  *)

\* Who is between taking and releasing itsExecutorMutex.
MutexInv ==
    /\ run \in {"check", "startPools"} <=> mutex = "run"
    /\ main \in {"joinPools", "reset"} <=> mutex = "main"

\* What the holder of the mutex has found out about the pools stays true.
PoolsInv ==
    /\ run = "startPools" => pools # "gone"
    /\ main = "joinPools" => pools # "gone"
    /\ main = "reset" => pools = "joined" /\ stream # "pulled"
    /\ main = "reactor" => pools = "gone"
    /\ reactorDown => pools = "gone"
    /\ pools = "gone" => stream \notin {"queued", "pulled"}

\* The threads not yet past their WorkerExitGuard.
Running == {w \in Workers : worker[w] # "exited"}

\* The count covers every thread from before it exists until it has left io_context::run.
CountInv ==
    IF run = "asleep"
    THEN itsRunningWorkers = 0 /\ \A w \in Workers : worker[w] = "none"
    ELSE itsRunningWorkers = Cardinality(Running)

\* No handler runs and none will begin.
Quiet == ioStopped /\ \A w \in Workers : worker[w] \notin {"polling", "handler"}

\* Unless the wait was given up, the pools are torn down in quiet.
QuietInv ==
    /\ main \notin {"serving", "stop"} => ioStopped
    /\ (~gaveUp /\ (main \in {"lock", "joinPools", "reset"} \/ pools = "gone")) => Quiet

LifecycleInv == TypeOK /\ MutexInv /\ PoolsInv /\ CountInv /\ QuietInv

-----------------------------------------------------------------------------
LEMMA RunningIsFinite ==
    IsFiniteSet(Running) /\ Cardinality(Running) \in Nat
        /\ Cardinality(Running) <= Cardinality(Workers) /\ Cardinality(Workers) \in Nat
<1>1. Running \subseteq Workers BY DEF Running
<1>2. IsFiniteSet(Workers) BY LifecycleAssumption DEF LifecycleAssumption
<1> QED BY <1>1, <1>2, FS_Subset, FS_CardinalityType

LEMMA InitLifecycle == ASSUME Init PROVE LifecycleInv
<1>1. Cardinality(Workers) \in Nat BY RunningIsFinite
<1>2. TypeOK
  <2>1. itsRunningWorkers \in 0 .. Cardinality(Workers) BY <1>1 DEF Init
  <2>2. waited \in 0 .. MaxPolls /\ calls \in 0 .. MaxCalls
    BY LifecycleAssumption DEF Init, LifecycleAssumption
  <2>3. worker \in [Workers -> {"none", "spawned", "polling", "handler", "left", "exited"}]
    BY DEF Init
  <2> QED BY <2>1, <2>2, <2>3, Zenon DEF Init, TypeOK
<1>3. MutexInv /\ PoolsInv BY DEF Init, MutexInv, PoolsInv
<1>4. CountInv BY DEF Init, CountInv
<1>5. QuietInv
  <2>1. main = "serving" /\ pools = "built" BY DEF Init
  <2>2. main \notin {"lock", "joinPools", "reset"} /\ pools # "gone" BY <2>1
  <2> QED BY <2>1, <2>2, Zenon DEF QuietInv
<1> QED BY <1>2, <1>3, <1>4, <1>5 DEF LifecycleInv

\* Steps that concern the threads only change worker and the count.
LEMMA TypeStep ==
    ASSUME TypeOK, CountInv, CountInv', [Next]_vars
    PROVE  TypeOK'
<1> USE DEF TypeOK
<1>1. itsRunningWorkers' \in 0 .. Cardinality(Workers)
  <2>1. IsFiniteSet(Workers) /\ Running' \subseteq Workers
    BY LifecycleAssumption DEF LifecycleAssumption, Running
  <2>2. Cardinality(Running') \in Nat /\ Cardinality(Running') <= Cardinality(Workers)
        /\ Cardinality(Workers) \in Nat
    BY <2>1, FS_Subset, FS_CardinalityType
  <2> QED BY <2>2 DEF CountInv
<1>2. CASE RunStep
  BY <1>1, <1>2 DEF RunStep, publishWorkers, spawnWorker, allSpawned, lockForStart,
        checkBeforeStart, startPools, joinWorkers, mainVars
<1>3. CASE PoolStep
  BY <1>1, <1>3 DEF PoolStep, getNextChunk, endTask, runVars, mainVars
<1>4. ASSUME NEW w \in Workers, WorkerStep(w) PROVE TypeOK'
  BY <1>1, <1>4 DEF WorkerStep, enterIo, beginHandler, endHandler, leaveIo, exitWorker,
        mainVars
<1>5. CASE shutdownServer
  BY <1>1, <1>5, LifecycleAssumption DEF shutdownServer, runVars, LifecycleAssumption
<1>6. CASE stopIo \/ lockForTeardown \/ joinPools \/ resetPools \/ shutdownReactor
  <2>1. CASE stopIo BY <1>1, <2>1 DEF stopIo, runVars
  <2>2. CASE lockForTeardown BY <1>1, <2>2 DEF lockForTeardown, runVars
  <2>3. CASE joinPools BY <1>1, <2>3 DEF joinPools, runVars
  <2>4. CASE resetPools BY <1>1, <2>4 DEF resetPools, runVars
  <2>5. CASE shutdownReactor BY <1>1, <2>5 DEF shutdownReactor, runVars
  <2> QED BY <1>6, <2>1, <2>2, <2>3, <2>4, <2>5
<1>7. CASE pollWorkers
  <2>1. gaveUp' \in BOOLEAN BY <1>7, Zenon DEF pollWorkers
  <2>2. waited' \in 0 .. MaxPolls
    BY <1>7, LifecycleAssumption DEF pollWorkers, LifecycleAssumption
  <2> QED BY <1>1, <1>7, <2>1, <2>2 DEF pollWorkers, runVars
<1>8. CASE Finished \/ UNCHANGED vars
  BY <1>1, <1>8 DEF Finished, vars, runVars, mainVars
<1> QED BY <1>2, <1>3, <1>4, <1>5, <1>6, <1>7, <1>8 DEF Next, MainStep

LEMMA MutexStep ==
    ASSUME TypeOK, MutexInv, PoolsInv, [Next]_vars
    PROVE  MutexInv' /\ PoolsInv'
<1> USE DEF TypeOK, MutexInv, PoolsInv
<1>1. CASE RunStep
  BY <1>1 DEF RunStep, publishWorkers, spawnWorker, allSpawned, lockForStart,
        checkBeforeStart, startPools, joinWorkers, mainVars
<1>2. CASE PoolStep
  BY <1>2 DEF PoolStep, getNextChunk, endTask, runVars, mainVars
<1>3. ASSUME NEW w \in Workers, WorkerStep(w) PROVE MutexInv' /\ PoolsInv'
  BY <1>3 DEF WorkerStep, enterIo, beginHandler, endHandler, leaveIo, exitWorker,
        mainVars
<1>4. CASE shutdownServer
  BY <1>4 DEF shutdownServer, runVars
<1>5. CASE MainStep
  BY <1>5 DEF MainStep, stopIo, pollWorkers, lockForTeardown,
        joinPools, resetPools, shutdownReactor, runVars
<1>6. CASE Finished \/ UNCHANGED vars
  BY <1>6 DEF Finished, vars, runVars, mainVars
<1> QED BY <1>1, <1>2, <1>3, <1>4, <1>5, <1>6 DEF Next

\* The count follows the threads: published before the first exists, lowered by each.
LEMMA CountStep == ASSUME TypeOK, CountInv, [Next]_vars PROVE CountInv'
<1> USE DEF TypeOK
<1>1. CASE publishWorkers
  <2>1. Running' = Workers BY <1>1 DEF publishWorkers, CountInv, Running
  <2> QED BY <1>1, <2>1 DEF publishWorkers, CountInv
<1>2. CASE spawnWorker
  <2>1. Running' = Running BY <1>2 DEF spawnWorker, Running
  <2> QED BY <1>2, <2>1 DEF spawnWorker, CountInv
<1>3. ASSUME NEW w \in Workers, exitWorker(w) PROVE CountInv'
  <2>1. run # "asleep" BY <1>3 DEF exitWorker, CountInv
  <2>2. Running' = Running \ {w} /\ w \in Running BY <1>3 DEF exitWorker, Running
  <2>3. Cardinality(Running \ {w}) = Cardinality(Running) - 1
    BY <2>2, RunningIsFinite, FS_RemoveElement
  <2> QED BY <1>3, <2>1, <2>2, <2>3 DEF exitWorker, CountInv
<1>4. ASSUME NEW w \in Workers, enterIo(w) \/ beginHandler(w) \/ endHandler(w) \/ leaveIo(w)
      PROVE CountInv'
  <2>1. run # "asleep" /\ run' = run /\ itsRunningWorkers' = itsRunningWorkers
    BY <1>4 DEF enterIo, beginHandler, endHandler, leaveIo, CountInv
  <2>2. Running' = Running
    BY <1>4 DEF enterIo, beginHandler, endHandler, leaveIo, Running
  <2> QED BY <2>1, <2>2 DEF CountInv
<1>5. ASSUME worker' = worker, itsRunningWorkers' = itsRunningWorkers,
             run' = run \/ (run # "asleep" /\ run' # "asleep")
      PROVE CountInv'
  <2>1. Running' = Running BY <1>5 DEF Running
  <2> QED BY <1>5, <2>1 DEF CountInv
<1>6. CASE allSpawned \/ lockForStart \/ checkBeforeStart \/ startPools \/ joinWorkers
  BY <1>5, <1>6 DEF allSpawned, lockForStart, checkBeforeStart, startPools, joinWorkers
<1>7. CASE PoolStep \/ shutdownServer \/ MainStep \/ Finished \/ UNCHANGED vars
  BY <1>5, <1>7 DEF PoolStep, getNextChunk, endTask, shutdownServer, MainStep, stopIo,
        pollWorkers, lockForTeardown, joinPools, resetPools, shutdownReactor, Finished,
        vars, runVars
<1> QED BY <1>1, <1>2, <1>3, <1>4, <1>6, <1>7 DEF Next, RunStep, WorkerStep

\* A poll that sees no worker counted sees none that has, or will get, a handler.
LEMMA QuietStep ==
    ASSUME TypeOK, MutexInv, PoolsInv, CountInv, QuietInv, [Next]_vars
    PROVE  QuietInv'
<1> USE DEF TypeOK
<1>1. CASE RunStep
  BY <1>1 DEF RunStep, publishWorkers, spawnWorker, allSpawned, lockForStart,
        checkBeforeStart, startPools, joinWorkers, mainVars, QuietInv, Quiet, PoolsInv
<1>2. CASE PoolStep
  BY <1>2 DEF PoolStep, getNextChunk, endTask, runVars, mainVars, QuietInv, Quiet
<1>3. ASSUME NEW w \in Workers, WorkerStep(w) PROVE QuietInv'
  BY <1>3 DEF WorkerStep, enterIo, beginHandler, endHandler, leaveIo, exitWorker,
        mainVars, QuietInv, Quiet
<1>4. CASE shutdownServer
  BY <1>4 DEF shutdownServer, runVars, QuietInv, Quiet
<1>5. CASE pollWorkers
  <2>1. ioStopped BY <1>5 DEF pollWorkers, QuietInv
  <2>2. CASE main' = "lock" /\ ~gaveUp'
    <3>1. itsRunningWorkers = 0
      <4>1. CASE itsRunningWorkers > 0 /\ waited < MaxPolls
        BY <1>5, <2>2, <4>1 DEF pollWorkers
      <4>2. CASE ~(itsRunningWorkers > 0 /\ waited < MaxPolls)
        <5>1. gaveUp' = (gaveUp \/ itsRunningWorkers > 0) BY <1>5, <4>2, Zenon DEF pollWorkers
        <5>2. ~(itsRunningWorkers > 0) BY <2>2, <5>1, Zenon
        <5> QED BY <5>2, RunningIsFinite
      <4> QED BY <4>1, <4>2
    <3>2. \A w \in Workers : worker[w] \in {"none", "exited"}
      <4>1. CASE run = "asleep" BY <4>1 DEF CountInv
      <4>2. CASE run # "asleep"
        <5>1. Running = {} BY <3>1, <4>2, RunningIsFinite, FS_EmptySet DEF CountInv
        <5> QED BY <5>1 DEF Running
      <4> QED BY <4>1, <4>2
    <3> QED BY <1>5, <2>1, <3>2 DEF pollWorkers, runVars, QuietInv, Quiet
  <2>3. CASE ~(main' = "lock" /\ ~gaveUp')
    BY <1>5, <2>1, <2>3 DEF pollWorkers, runVars, QuietInv, Quiet
  <2> QED BY <2>2, <2>3
<1>6. CASE stopIo \/ lockForTeardown \/ joinPools \/ resetPools \/ shutdownReactor
  BY <1>6 DEF stopIo, lockForTeardown, joinPools, resetPools, shutdownReactor, runVars,
        QuietInv, Quiet
<1>7. CASE Finished \/ UNCHANGED vars
  BY <1>7 DEF Finished, vars, runVars, mainVars, QuietInv, Quiet
<1> QED BY <1>1, <1>2, <1>3, <1>4, <1>5, <1>6, <1>7 DEF Next, MainStep

LEMMA LifecycleStep == ASSUME LifecycleInv, [Next]_vars PROVE LifecycleInv'
<1> USE DEF LifecycleInv
<1>1. CountInv' BY CountStep
<1>2. TypeOK' BY <1>1, TypeStep
<1>3. MutexInv' /\ PoolsInv' BY MutexStep
<1>4. QuietInv' BY QuietStep
<1> QED BY <1>1, <1>2, <1>3, <1>4

-----------------------------------------------------------------------------
\* The inductive invariant holds in every reachable state of start and shutdown.
THEOREM LifecycleInvariance == Spec => []LifecycleInv
<1>1. Init => LifecycleInv BY InitLifecycle
<1>2. LifecycleInv /\ [Next]_vars => LifecycleInv' BY LifecycleStep
<1> QED BY <1>1, <1>2, PTL DEF Spec

\* Types; itsRunningWorkers stays within the number of threads.
THEOREM LifecycleTypes == Spec => []TypeOK
<1>1. LifecycleInv => TypeOK BY DEF LifecycleInv
<1> QED BY <1>1, LifecycleInvariance, PTL

\* shutdown destroys the pools only when no handler runs or can begin, unless it gave
\* the wait up; also when it comes before run has started a thread.
THEOREM HandlersFindPools == Spec => []PoolsOutliveHandlers
<1>1. LifecycleInv => PoolsOutliveHandlers
  BY DEF LifecycleInv, QuietInv, Quiet, PoolsOutliveHandlers
<1> QED BY <1>1, LifecycleInvariance, PTL

\* When shutdown unloads the plugins no pool task holds a streamer of theirs.
THEOREM TasksAreGone == Spec => []TasksGoBeforePlugins
<1>1. LifecycleInv => TasksGoBeforePlugins
  BY DEF LifecycleInv, PoolsInv, TasksGoBeforePlugins
<1> QED BY <1>1, LifecycleInvariance, PTL

\* shutdown takes the pools down after the handlers and before the plugins.
THEOREM PoolsInBetween == Spec => []PoolsGoInBetween
  BY HandlersFindPools, TasksAreGone, PTL DEF PoolsGoInBetween

\* run does not bring back pools that shutdown has destroyed.
THEOREM NoResurrection == Spec => PoolsStayGone
<1>1. LifecycleInv /\ [Next]_vars => [pools = "gone" => pools' = "gone"]_vars
  <2> SUFFICES ASSUME LifecycleInv, Next, pools = "gone" PROVE pools' = "gone"
    BY DEF vars
  <2> USE DEF LifecycleInv, TypeOK, PoolsInv
  <2>1. CASE RunStep
    BY <2>1 DEF RunStep, publishWorkers, spawnWorker, allSpawned, lockForStart,
          checkBeforeStart, startPools, joinWorkers
  <2>2. CASE PoolStep BY <2>2 DEF PoolStep, getNextChunk, endTask
  <2>3. ASSUME NEW w \in Workers, WorkerStep(w) PROVE pools' = "gone"
    BY <2>3 DEF WorkerStep, enterIo, beginHandler, endHandler, leaveIo, exitWorker
  <2>4. CASE shutdownServer BY <2>4 DEF shutdownServer
  <2>5. CASE MainStep
    BY <2>5 DEF MainStep, stopIo, pollWorkers, lockForTeardown, joinPools, resetPools,
          shutdownReactor
  <2>6. CASE Finished BY <2>6 DEF Finished, vars
  <2> QED BY <2>1, <2>2, <2>3, <2>4, <2>5, <2>6 DEF Next
<1> QED BY <1>1, LifecycleInvariance, PTL DEF Spec, PoolsStayGone

-----------------------------------------------------------------------------
(* The memory log, for any settings, status files and statistics.          *)

LogInv == LogTypeOK /\ FieldsAsConfigured /\ AmountsAsRead /\ FragmentationIsAShare

\* The free part of the active memory, in thousandths.
LEMMA ShareOfActive ==
    ASSUME NEW allocated \in Nat, NEW active \in Nat, active > 0, active >= allocated
    PROVE  (1000 * (active - allocated)) \div active \in 0 .. 1000
<1> DEFINE x == 1000 * (active - allocated)
           q == x \div active
<1>1. x \in Nat /\ x <= 1000 * active
  OBVIOUS
<1>2. q \in Nat /\ q * active <= x
  <2> HIDE DEF x
  <2> QED BY <1>1
<1>3. ASSUME q >= 1001 PROVE FALSE
  <2> HIDE DEF q, x
  <2>1. q * active >= 1001 * active
    BY <1>2, <1>3
  <2> QED BY <1>1, <1>2, <2>1
<1> QED
  <2> HIDE DEF q
  <2>1. q \in 0 .. 1000
    BY <1>2, <1>3
  <2> QED BY <2>1 DEF q

\* What is read of the statistics.
LEMMA StatisticsRead ==
    ASSUME LogTypeOK, NEW j \in appendJemallocStats, NEW f \in j.fragmentation
    PROVE  f \in 0 .. 1000 /\ j.active > 0
<1> DEFINE allocated == jemallocStat("stats.allocated")
           active == jemallocStat("stats.active")
<1>1. statistics # None
  BY DEF appendJemallocStats
<1>2. statistics \in Statistics
  BY <1>1 DEF LogTypeOK
<1>3. \A n \in DOMAIN statistics : statistics[n] \in Nat \cup {Failed}
  BY <1>2, MemoryLogAssumption
<1>4. allocated \in Nat /\ active \in Nat
  BY <1>3 DEF jemallocStat
<1>5. j = [allocated |-> allocated, active |-> active,
           fragmentation |-> fragmentation(allocated, active)]
  BY <1>1 DEF appendJemallocStats
<1> HIDE DEF allocated, active
<1>6. f \in fragmentation(allocated, active) /\ j.active = active
  BY <1>5
<1>7. /\ active > 0 /\ active >= allocated
      /\ f = (1000 * (active - allocated)) \div active
  BY <1>4, <1>6 DEF fragmentation
<1> QED BY <1>4, <1>6, <1>7, ShareOfActive

\* The amounts are those that can be read now.
LEMMA AmountsRead ==
    ASSUME LogTypeOK, NEW j \in appendJemallocStats
    PROVE  \E s \in Statistics :
               /\ s["stats.allocated"] = j.allocated /\ j.allocated \in Nat
               /\ \/ s["stats.active"] = j.active /\ j.active \in Nat
                  \/ s["stats.active"] = Failed /\ j.active = 0
<1>1. statistics # None /\ statistics["stats.allocated"] # Failed
  BY DEF appendJemallocStats
<1>2. statistics \in Statistics
  BY <1>1 DEF LogTypeOK
<1>3. /\ {"stats.allocated", "stats.active"} \subseteq DOMAIN statistics
      /\ \A n \in DOMAIN statistics : statistics[n] \in Nat \cup {Failed}
  BY <1>2, MemoryLogAssumption
<1>4. /\ j.allocated = jemallocStat("stats.allocated")
      /\ j.active = jemallocStat("stats.active")
  BY <1>1 DEF appendJemallocStats
<1>5. j.allocated = statistics["stats.allocated"] /\ j.allocated \in Nat
  BY <1>1, <1>3, <1>4 DEF jemallocStat
<1>6. \/ statistics["stats.active"] = j.active /\ j.active \in Nat
      \/ statistics["stats.active"] = Failed /\ j.active = 0
  BY <1>3, <1>4 DEF jemallocStat
<1> QED BY <1>2, <1>5, <1>6

\* A set of positions with an element has a last one.
Less == {p \in Nat \X Nat : p[1] < p[2]}

LEMMA LastPosition ==
    ASSUME NEW n \in Nat, NEW S \in SUBSET (1 .. n), S # {}
    PROVE  \E i \in S : \A j \in S : j <= i
<1> DEFINE D == {k \in Nat : \E i \in S : k = n - i}
<1>1. D \in SUBSET Nat /\ D # {}
  <2>1. PICK i \in S : TRUE
    OBVIOUS
  <2>2. n - i \in D
    OBVIOUS
  <2> QED BY <2>2
<1>2. \E m \in D : \A k \in D : ~(<<k, m>> \in Less)
  <2>1. IsWellFoundedOn(Less, Nat)
    BY NatLessThanWellFounded DEF OpToRel, Less
  <2> HIDE DEF D
  <2> QED BY <1>1, <2>1, WFMin
<1>3. PICK m \in D : \A k \in D : ~(k < m)
  <2>1. \A k, m \in Nat : ~(<<k, m>> \in Less) => ~(k < m)
    BY DEF Less
  <2> HIDE DEF D
  <2> QED BY <1>1, <1>2, <2>1
<1>4. PICK i \in S : m = n - i
  OBVIOUS
<1>5. ASSUME NEW j \in S PROVE j <= i
  <2>1. n - j \in D
    OBVIOUS
  <2> QED BY <1>3, <1>4, <2>1
<1> QED BY <1>5

\* valueOf looks a field up in the status file that is there.
LEMMA ValueRead ==
    ASSUME LogTypeOK, status # None, NEW key
    PROVE  Gives(status, key, valueOf(key))
<1> DEFINE At == {i \in 1 .. Len(status) : status[i][1] = key}
           last == CHOOSE i \in At : \A j \in At : j <= i
<1>1. valueOf(key) = IF At = {} THEN {} ELSE {status[last][2]}
  BY DEF valueOf
<1>2. Len(status) \in Nat
  <2>1. PICK S : status \in Seq(S)
    BY MemoryLogAssumption DEF LogTypeOK
  <2> QED BY <2>1
<1>3. ASSUME At # {} PROVE last \in At /\ \A j \in At : j <= last
  <2>1. At \in SUBSET (1 .. Len(status))
    OBVIOUS
  <2> HIDE DEF At
  <2>2. \E i \in At : \A j \in At : j <= i
    BY <1>2, <1>3, <2>1, LastPosition
  <2> QED BY <2>2
<1>4. CASE At = {}
  BY <1>1, <1>4 DEF Gives
<1>5. CASE At # {}
  <2>1. valueOf(key) = {status[last][2]}
    <3> HIDE DEF At, last
    <3> QED BY <1>1, <1>5
  <2>2. \E i \in At : valueOf(key) = {status[i][2]} /\ \A j \in At : j <= i
    <3> HIDE DEF At, last
    <3> QED BY <1>3, <1>5, <2>1
  <2> QED BY <1>5, <2>2 DEF Gives
<1> QED BY <1>4, <1>5

\* One line field for each field configured.
LEMMA FieldsRead ==
    ASSUME LogTypeOK, status # None
    PROVE  /\ Len(loggedFields) = Len(itsMemoryLogFields)
           /\ \A i \in DOMAIN loggedFields :
                 Gives(status, itsMemoryLogFields[i], loggedFields[i])
<1>1. Len(itsMemoryLogFields) \in Nat
  <2>1. CASE settings.logmemoryfields = {}
    BY <2>1 DEF itsMemoryLogFields
  <2>2. CASE settings.logmemoryfields # {}
    <3>1. itsMemoryLogFields \in settings.logmemoryfields
      BY <2>2 DEF itsMemoryLogFields
    <3>2. PICK S : itsMemoryLogFields \in Seq(S)
      BY <3>1, MemoryLogAssumption DEF LogTypeOK
    <3> QED BY <3>2
  <2> QED BY <2>1, <2>2
<1>2. loggedFields = [i \in 1 .. Len(itsMemoryLogFields) |-> valueOf(itsMemoryLogFields[i])]
  BY DEF loggedFields
<1>3. Len(loggedFields) = Len(itsMemoryLogFields)
  BY <1>1, <1>2
<1>4. \A i \in DOMAIN loggedFields : loggedFields[i] = valueOf(itsMemoryLogFields[i])
  BY <1>2
<1> QED BY <1>3, <1>4, ValueRead

LEMMA InitLog == ASSUME LogInit PROVE LogInv
<1>1. LogTypeOK BY DEF LogInit, LogTypeOK
<1>2. line = None BY DEF LogInit
<1> QED BY <1>1, <1>2 DEF LogInv, FieldsAsConfigured, AmountsAsRead, FragmentationIsAShare

LEMMA WriteStep == ASSUME LogInv, writeLine PROVE LogInv'
<1>1. /\ UNCHANGED <<settings, timer, itsShutdownRequested, stopped, status, statistics>>
      /\ handler' = "read"
      /\ \/ line' = None
         \/ status # None /\ line' = Line(loggedFields, appendJemallocStats)
  BY DEF writeLine, readAndLogMemoryUsage, system
<1>2. LogTypeOK'
  <2>1. line' = None \/ DOMAIN line' = {"fields", "jemalloc"}
    BY <1>1 DEF Line
  <2> QED BY <1>1, <2>1 DEF LogInv, LogTypeOK
<1>3. CASE line' = None
  BY <1>2, <1>3 DEF LogInv, FieldsAsConfigured, AmountsAsRead, FragmentationIsAShare
<1>4. CASE status # None /\ line' = Line(loggedFields, appendJemallocStats)
  <2>1. line'.fields = loggedFields /\ line'.jemalloc = appendJemallocStats
    BY <1>4 DEF Line
  <2>2. itsMemoryLogFields' = itsMemoryLogFields
    BY <1>1 DEF itsMemoryLogFields
  <2>3. FieldsAsConfigured'
    <3>1. status \in StatusFiles
      BY <1>4 DEF LogInv, LogTypeOK
    <3>2. /\ Len(line'.fields) = Len(itsMemoryLogFields')
          /\ \A i \in DOMAIN line'.fields :
                Gives(status, itsMemoryLogFields'[i], line'.fields[i])
      BY <1>4, <2>1, <2>2, FieldsRead DEF LogInv
    <3> QED BY <3>1, <3>2 DEF FieldsAsConfigured
  <2>4. FragmentationIsAShare'
    BY <2>1, StatisticsRead DEF LogInv, FragmentationIsAShare
  <2>5. AmountsAsRead'
    <3>1. Statistics' = Statistics /\ LogTypeOK
      BY DEF LogInv
    <3>2. SUFFICES ASSUME NEW j \in appendJemallocStats
                   PROVE  \E s \in Statistics :
                              /\ s["stats.allocated"] = j.allocated /\ j.allocated \in Nat
                              /\ \/ s["stats.active"] = j.active /\ j.active \in Nat
                                 \/ s["stats.active"] = Failed /\ j.active = 0
      BY <2>1 DEF AmountsAsRead
    <3> QED BY <3>1, AmountsRead
  <2> QED BY <1>2, <2>3, <2>4, <2>5 DEF LogInv
<1> QED BY <1>1, <1>3, <1>4

LEMMA LogStep == ASSUME LogInv, [LogNext]_logVars PROVE LogInv'
<1>1. CASE writeLine BY <1>1, WriteStep
<1>2. CASE \/ expire \/ enterHandler \/ leaveHandler \/ shutdownWhileLogging \/ stopIO
           \/ systemChanges \/ UNCHANGED logVars
  <2>1. settings' = settings /\ line' \in {line, None}
    BY <1>2 DEF expire, enterHandler, leaveHandler, shutdownWhileLogging, stopIO,
                systemChanges, logVars
  <2>2. LogTypeOK'
    BY <1>2 DEF LogInv, LogTypeOK, expire, enterHandler, leaveHandler, shutdownWhileLogging,
                requestShutdown, stopIO, systemChanges, logVars, system,
                scheduleMemoryLogging
  <2> QED BY <2>1, <2>2
          DEF LogInv, FieldsAsConfigured, AmountsAsRead, FragmentationIsAShare, itsMemoryLogFields
<1> QED BY <1>1, <1>2 DEF LogNext

\* readAndLogMemoryUsage and appendJemallocStats: a line has the fields as they are
\* configured, the amounts of one and the same reading with a 0 for an unread one after the
\* first, and a fragmentation only of amounts that make sense together.
THEOREM LinesAreTrue == LogSpec => []LineSaysWhatWasRead
<1>1. LogInit => LogInv BY InitLog
<1>2. LogInv /\ [LogNext]_logVars => LogInv' BY LogStep
<1>3. LogInv => LineSaysWhatWasRead BY DEF LogInv, LineSaysWhatWasRead
<1> QED BY <1>1, <1>2, <1>3, PTL DEF LogSpec

=============================================================================
