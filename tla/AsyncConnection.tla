--------------------------- MODULE AsyncConnection ---------------------------
(***************************************************************************)
(* The life of one accepted client connection: source/AsyncConnection.cpp. *)
(*                                                                         *)
(* Three activities share the connection object and may run at the same    *)
(* time on different threads:                                              *)
(*   "reader"  handleRead and what it calls, on an io thread               *)
(*   "timer"   handleTimer, on another io thread                           *)
(*   "pool"    handleCompletedRead and the write handlers it starts        *)
(* Of these only armTimer, handleTimer and the first block of              *)
(* handleCompletedRead take itsMutex.  handleTimer keeps it for its whole  *)
(* body, blocking writes included; the other two hold it for one step, so  *)
(* the mutex is free exactly when the timer handler is out of its body.    *)
(*                                                                         *)
(* Bytes are abstracted to pieces: a request is Pieces pieces, a read      *)
(* delivers any number of those in transit, and itsBuffer is the number of *)
(* pieces read and not yet consumed.                                       *)
(***************************************************************************)
EXTENDS Naturals

CONSTANTS
    MaxRequests,           \* bound: whole requests the client can send
    Pieces,                \* pieces one request is delivered in
    KeepAliveEnabled,      \* itsKeepAliveEnabled
    MaxKeepAliveRequests,  \* itsMaxKeepAliveRequests, 0 = unlimited
    Encrypted              \* itsEncryptionEnabled

ASSUME ConnectionAssumption ==
    /\ MaxRequests \in Nat
    /\ Pieces \in Nat \ {0}
    /\ KeepAliveEnabled \in BOOLEAN
    /\ MaxKeepAliveRequests \in Nat
    /\ Encrypted \in BOOLEAN

VARIABLES
    toSend,              \* pieces the client may still send
    inTransit,           \* pieces sent and not yet read
    clientOpen,          \* FALSE once the client has closed its end
    shutdownRequested,   \* the server's shutdown flag
    sockOpen,            \* the server's end of the socket
    destroyed,           \* the connection object is gone
    itsBuffer,           \* pieces in itsBuffer
    itsRequestCount,
    answered,            \* final responses written, 408 excepted
    itsKeepAlive,
    itsIdle,
    hasTimedOut,
    itsTimerGeneration,
    waiting,             \* generation of the pending async_wait, 0 = none
    fired,               \* generations that expired and whose handler has not run
    armedFor,            \* what the current arming bounds: "request" or "idle"
    pc,                  \* where each activity is
    queueFull,           \* the stock reply under way is the queue-full one
    reporters            \* threads back from that reply, before reportInfo

clientVars == <<toSend, inTransit, clientOpen>>
timerVars  == <<itsTimerGeneration, waiting, fired, armedFor>>
reportVars == <<queueFull, reporters>>
countVars  == <<itsBuffer, itsRequestCount, answered>>
flagVars   == <<itsKeepAlive, itsIdle, hasTimedOut>>
vars == <<clientVars, shutdownRequested, sockOpen, destroyed, countVars, flagVars,
          timerVars, pc, reportVars>>

Threads == {"reader", "timer", "pool"}

\* "stock" to "next" are the steps of sendStockReply and finishResponse, which
\* any of the three activities may call.  A read that has been made and a request
\* whose client has been identified are steps of their own ("received" and
\* "identified"): the timeout handler may close the socket in between.
ReplySteps  == {"stock", "sent", "finish", "arm", "next"}
ReaderSteps == {"new", "handshake", "read", "received", "posted", "rearm", "parse",
                "identified", "dispatch", "out"} \cup ReplySteps
TimerSteps  == {"out", "decide"} \cup ReplySteps
PoolSteps   == {"out", "queued", "cancel", "plugin", "reply"} \cup ReplySteps
Steps       == ReaderSteps \cup TimerSteps \cup PoolSteps

NumberTypeOK ==
    /\ toSend \in Nat /\ inTransit \in Nat /\ itsBuffer \in Nat
    /\ itsRequestCount \in Nat /\ answered \in Nat /\ reporters \in Nat
    /\ itsTimerGeneration \in Nat /\ waiting \in Nat /\ fired \subseteq Nat
    /\ armedFor \in {"request", "idle"}

FlagTypeOK ==
    /\ clientOpen \in BOOLEAN /\ shutdownRequested \in BOOLEAN
    /\ sockOpen \in BOOLEAN /\ destroyed \in BOOLEAN /\ queueFull \in BOOLEAN
    /\ itsKeepAlive \in BOOLEAN /\ itsIdle \in BOOLEAN /\ hasTimedOut \in BOOLEAN

StepTypeOK ==
    /\ pc \in [Threads -> Steps]
    /\ pc["reader"] \in ReaderSteps
    /\ pc["timer"] \in TimerSteps
    /\ pc["pool"] \in PoolSteps

TypeOK == NumberTypeOK /\ FlagTypeOK /\ StepTypeOK

\* The object as AsyncServer::startAccept leaves it: accepted, not started.
Init ==
    /\ toSend = MaxRequests * Pieces /\ inTransit = 0 /\ clientOpen = TRUE
    /\ shutdownRequested = FALSE /\ sockOpen = TRUE /\ destroyed = FALSE
    /\ itsBuffer = 0 /\ itsRequestCount = 0 /\ answered = 0
    /\ itsKeepAlive = FALSE /\ itsIdle = FALSE /\ hasTimedOut = FALSE
    /\ itsTimerGeneration = 0 /\ waiting = 0 /\ fired = {} /\ armedFor = "request"
    /\ pc = [t \in Threads |-> IF t = "reader" THEN "new" ELSE "out"]
    /\ queueFull = FALSE /\ reporters = 0

Goto(t, from, to) ==
    /\ pc[t] = from
    /\ pc' = [pc EXCEPT ![t] = to]

-----------------------------------------------------------------------------
(* Helpers shared by the handlers.                                         *)

\* itsMutex can be taken: the timer handler is not inside its body.
MutexFree == pc["timer"] = "out"

\* armTimer takes itsMutex, stamps a new generation and starts a wait with it;
\* a wait still pending is aborted, one that already fired stays fired.
armTimer(kind) ==
    /\ MutexFree
    /\ itsTimerGeneration' = itsTimerGeneration + 1
    /\ waiting' = itsTimerGeneration + 1
    /\ armedFor' = kind
    /\ UNCHANGED fired

\* A firing that lost the race against a cancel or a re-arm.
StaleFiring(generation) == generation # itsTimerGeneration

\* A pipelined request is already in the buffer.
Pipelined == itsBuffer > 0

evaluateKeepAlive_OffByOne ==
    /\ KeepAliveEnabled
    /\ ~shutdownRequested
    /\ MaxKeepAliveRequests > 0 => itsRequestCount + 1 <= MaxKeepAliveRequests
\* The server's side of the decision; the client's headers decide the rest.
evaluateKeepAlive ==
    /\ KeepAliveEnabled
    /\ ~shutdownRequested
    /\ MaxKeepAliveRequests > 0 => itsRequestCount + 1 < MaxKeepAliveRequests

\* The peer can make a read or a write fail, or the socket is closed already.
PeerGone == ~clientOpen \/ ~sockOpen

\* sendStockReply returns to its caller; after a full queue that caller goes on
\* to reportInfo, which reads itsRequest.
StockReturns(t) ==
    /\ reporters' = IF t = "reader" /\ queueFull THEN reporters + 1 ELSE reporters
    /\ queueFull' = (queueFull /\ t # "reader")

-----------------------------------------------------------------------------
(* The client and the rest of the server.                                  *)

ClientSend ==
    /\ clientOpen /\ toSend > 0
    /\ toSend' = toSend - 1 /\ inTransit' = inTransit + 1
    /\ UNCHANGED <<clientOpen, shutdownRequested, sockOpen, destroyed, countVars,
                   flagVars, timerVars, pc, reportVars>>

ClientClose ==
    /\ clientOpen
    /\ clientOpen' = FALSE
    /\ UNCHANGED <<toSend, inTransit, shutdownRequested, sockOpen, destroyed,
                   countVars, flagVars, timerVars, pc, reportVars>>

shutdownServer ==
    /\ ~shutdownRequested
    /\ shutdownRequested' = TRUE
    /\ UNCHANGED <<clientVars, sockOpen, destroyed, countVars, flagVars, timerVars,
                   pc, reportVars>>

-----------------------------------------------------------------------------
(* The reader: start, handleHandshake, handleRead, handleParsedRequest.    *)

start ==
    /\ Goto("reader", "new", IF Encrypted THEN "handshake" ELSE "read")
    /\ armTimer("request")
    /\ UNCHANGED <<clientVars, shutdownRequested, sockOpen, destroyed, countVars,
                   flagVars, reportVars>>

\* The client completes the TLS handshake: handleHandshake(ok) starts reading.
handleHandshake ==
    /\ Goto("reader", "handshake", "read")
    /\ ~PeerGone
    /\ UNCHANGED <<clientVars, shutdownRequested, sockOpen, destroyed, countVars,
                   flagVars, timerVars, reportVars>>

handleHandshakeError ==
    /\ Goto("reader", "handshake", "out")
    /\ PeerGone
    /\ sockOpen' = FALSE
    /\ UNCHANGED <<clientVars, shutdownRequested, destroyed, countVars, flagVars,
                   timerVars, reportVars>>

\* The io_context reads what there is and queues handleRead with it.
readCompletes ==
    /\ Goto("reader", "read", "received")
    /\ sockOpen
    /\ \E k \in 1 .. inTransit : /\ inTransit' = inTransit - k
                                /\ itsBuffer' = itsBuffer + k
    /\ UNCHANGED <<toSend, clientOpen, shutdownRequested, sockOpen, destroyed,
                   itsRequestCount, answered, flagVars, timerVars, reportVars>>

\* A completed read, or the posted call for a pipelined request, finds the
\* shutdown flag set: whatever the completion says, the shutdown notice is sent.
handleReadShutdown ==
    /\ shutdownRequested
    /\ \/ \E from \in {"posted", "received"} : Goto("reader", from, "stock")
       \/ Goto("reader", "read", "stock") /\ PeerGone
    /\ UNCHANGED <<clientVars, shutdownRequested, sockOpen, destroyed, countVars,
                   flagVars, timerVars, reportVars>>

handleReadError ==
    /\ ~shutdownRequested
    /\ Goto("reader", "read", "out")
    /\ PeerGone
    /\ UNCHANGED <<clientVars, shutdownRequested, sockOpen, destroyed, countVars,
                   flagVars, timerVars, reportVars>>

\* handleRead up to the timer swap.  The exchange of itsIdle and the test of
\* hasTimedOut are made here, armTimer waits for the mutex in rearmForRequest.
handleRead ==
    /\ ~shutdownRequested
    /\ \E from \in {"posted", "received"} :
          Goto("reader", from, IF itsIdle /\ ~hasTimedOut THEN "rearm" ELSE "parse")
    /\ itsIdle' = FALSE
    /\ UNCHANGED <<clientVars, shutdownRequested, sockOpen, destroyed, countVars,
                   itsKeepAlive, hasTimedOut, timerVars, reportVars>>

rearmForRequest ==
    /\ Goto("reader", "rearm", "parse")
    /\ armTimer("request")
    /\ UNCHANGED <<clientVars, shutdownRequested, sockOpen, destroyed, countVars,
                   flagVars, reportVars>>

\* parseOneRequest finds one whole message in the buffer.
CompleteRequest == itsBuffer >= Pieces

\* 413 and a failed parse leave itsKeepAlive as it is; 431 and 417 clear it.
refuseInput ==
    /\ Goto("reader", "parse", "stock")
    /\ itsKeepAlive' = FALSE \/ UNCHANGED itsKeepAlive
    /\ UNCHANGED <<clientVars, shutdownRequested, sockOpen, destroyed, countVars,
                   itsIdle, hasTimedOut, timerVars, reportVars>>

\* An incomplete request reads on, after a 100 Continue if one is owed; the
\* connection is dropped if that interim response cannot be written.
handleIncompleteRequest ==
    /\ ~CompleteRequest
    /\ \/ Goto("reader", "parse", "read") /\ UNCHANGED itsKeepAlive
       \/ Goto("reader", "parse", "out") /\ PeerGone /\ itsKeepAlive' = FALSE
    /\ UNCHANGED <<clientVars, shutdownRequested, sockOpen, destroyed, countVars,
                   itsIdle, hasTimedOut, timerVars, reportVars>>

\* The message is taken out of the buffer and resolveClientIP asks the socket for
\* the peer.  It needs an open socket, at this moment and no later.
resolveClientIP ==
    /\ CompleteRequest /\ sockOpen
    /\ Goto("reader", "parse", "identified")
    /\ itsBuffer' = itsBuffer - Pieces
    /\ UNCHANGED <<clientVars, shutdownRequested, sockOpen, destroyed,
                   itsRequestCount, answered, flagVars, timerVars, reportVars>>

\* resolveClientIP cannot name the peer any more: the request is dropped.
resolveClientIPFails ==
    /\ CompleteRequest /\ PeerGone
    /\ Goto("reader", "parse", "out")
    /\ itsBuffer' = itsBuffer - Pieces
    /\ UNCHANGED <<clientVars, shutdownRequested, sockOpen, destroyed,
                   itsRequestCount, answered, flagVars, timerVars, reportVars>>

\* The request is counted and persistence decided, whatever the timeout handler
\* has done since the client was identified.  A missing Host overrides the decision
\* and is answered at once.
handleParsedRequest ==
    /\ itsRequestCount' = itsRequestCount + 1
    /\ \/ /\ Goto("reader", "identified", "dispatch")
          /\ itsKeepAlive' = FALSE \/ (evaluateKeepAlive /\ itsKeepAlive' = TRUE)
       \/ /\ Goto("reader", "identified", "stock")
          /\ itsKeepAlive' = FALSE
    /\ UNCHANGED <<clientVars, shutdownRequested, sockOpen, destroyed, itsBuffer,
                   answered, itsIdle, hasTimedOut, timerVars, reportVars>>

\* OPTIONS *, no handler, or high load: answered without a pool thread.
replyDirectly ==
    /\ Goto("reader", "dispatch", "stock")
    /\ UNCHANGED <<clientVars, shutdownRequested, sockOpen, destroyed, countVars,
                   flagVars, timerVars, reportVars>>

scheduleRequest_ReadOn ==
    /\ pc["reader"] = "dispatch"
    /\ pc' = [pc EXCEPT !["reader"] = "read", !["pool"] = "queued"]
    /\ UNCHANGED <<clientVars, shutdownRequested, sockOpen, destroyed, countVars,
                   flagVars, timerVars, reportVars>>
\* The pool takes the task and the io thread is done with the connection, or the
\* queue is full.
scheduleRequest ==
    /\ pc["reader"] = "dispatch"
    /\ \/ /\ pc' = [pc EXCEPT !["reader"] = "out", !["pool"] = "queued"]
          /\ UNCHANGED queueFull
       \/ /\ pc' = [pc EXCEPT !["reader"] = "stock"]
          /\ queueFull' = TRUE
    /\ UNCHANGED <<clientVars, shutdownRequested, sockOpen, destroyed, countVars,
                   flagVars, timerVars, reporters>>

\* The thread that found the queue full is back from sendStockReply and reads
\* itsRequest for its log line.
reportInfo ==
    /\ reporters > 0
    /\ reporters' = reporters - 1
    /\ UNCHANGED <<clientVars, shutdownRequested, sockOpen, destroyed, countVars,
                   flagVars, timerVars, pc, queueFull>>

-----------------------------------------------------------------------------
(* sendStockReply and finishResponse, called by any of the activities.     *)

\* The blocking writes of sendSimpleReply.
writeStockReply(t) ==
    /\ Goto(t, "stock", "sent")
    /\ \/ /\ sockOpen
          /\ answered' = IF t = "timer" THEN answered ELSE answered + 1
          /\ UNCHANGED itsKeepAlive
       \/ /\ PeerGone
          /\ itsKeepAlive' = FALSE
          /\ UNCHANGED answered
    /\ UNCHANGED <<clientVars, shutdownRequested, sockOpen, destroyed, itsBuffer,
                   itsRequestCount, itsIdle, hasTimedOut, timerVars, reportVars>>

\* Reads itsKeepAlive again after the writes.
endStockReply(t) ==
    /\ IF itsKeepAlive
       THEN /\ Goto(t, "sent", "finish")
            /\ UNCHANGED <<sockOpen, reportVars>>
       ELSE /\ Goto(t, "sent", "out")
            /\ sockOpen' = FALSE
            /\ StockReturns(t)
    /\ UNCHANGED <<clientVars, shutdownRequested, destroyed, countVars, flagVars,
                   timerVars>>

mayReuse_TimedOut == itsKeepAlive /\ ~shutdownRequested
mayReuse_Vetoed == ~hasTimedOut /\ ~shutdownRequested
\* The test at the top of finishResponse.
mayReuse == itsKeepAlive /\ ~hasTimedOut /\ ~shutdownRequested

finishResponse_KeepAliveKept(t) ==
    /\ IF mayReuse
       THEN /\ Goto(t, "finish", "arm")
            /\ itsIdle' = ~Pipelined
            /\ UNCHANGED reportVars
       ELSE /\ Goto(t, "finish", "out")
            /\ StockReturns(t)
            /\ UNCHANGED itsIdle
    /\ UNCHANGED <<clientVars, shutdownRequested, sockOpen, destroyed, countVars,
                   itsKeepAlive, hasTimedOut, timerVars>>
\* Not reusing the connection only returns: the socket is left to the destructor.
finishResponse(t) ==
    /\ IF mayReuse
       THEN /\ Goto(t, "finish", "arm")
            /\ itsKeepAlive' = FALSE
            /\ itsIdle' = ~Pipelined
            /\ UNCHANGED reportVars
       ELSE /\ Goto(t, "finish", "out")
            /\ StockReturns(t)
            /\ UNCHANGED <<itsKeepAlive, itsIdle>>
    /\ UNCHANGED <<clientVars, shutdownRequested, sockOpen, destroyed, countVars,
                   hasTimedOut, timerVars>>

armForNextRequest_IdleOnly(t) ==
    /\ Goto(t, "arm", "next")
    /\ IF Pipelined THEN MutexFree /\ UNCHANGED timerVars ELSE armTimer("idle")
    /\ UNCHANGED <<clientVars, shutdownRequested, sockOpen, destroyed, countVars,
                   flagVars, reportVars>>
\* The timer bounds reading a pipelined request, or waiting for the next one.
armForNextRequest(t) ==
    /\ Goto(t, "arm", "next")
    /\ armTimer(IF Pipelined THEN "request" ELSE "idle")
    /\ UNCHANGED <<clientVars, shutdownRequested, sockOpen, destroyed, countVars,
                   flagVars, reportVars>>

\* The pipelined request is posted to handleRead, or a read is started.
readNextRequest(t) ==
    /\ pc[t] = "next"
    /\ pc' = [pc EXCEPT ![t] = "out",
                        !["reader"] = IF Pipelined THEN "posted" ELSE "read"]
    /\ StockReturns(t)
    /\ UNCHANGED <<clientVars, shutdownRequested, sockOpen, destroyed, countVars,
                   flagVars, timerVars>>

ReplyStep(t) ==
    \/ writeStockReply(t)
    \/ endStockReply(t)
    \/ finishResponse(t)
    \/ armForNextRequest(t)
    \/ readNextRequest(t)

-----------------------------------------------------------------------------
(* The timer.                                                              *)

\* The pending wait runs out; its handler is queued on the io_context.
timerExpires ==
    /\ waiting # 0
    /\ fired' = fired \cup {waiting}
    /\ waiting' = 0
    /\ UNCHANGED <<clientVars, shutdownRequested, sockOpen, destroyed, countVars,
                   flagVars, itsTimerGeneration, armedFor, pc, reportVars>>

\* handleTimer takes the mutex; a stale firing returns at once.
handleTimer ==
    /\ MutexFree
    /\ \E generation \in fired :
          /\ fired' = fired \ {generation}
          /\ IF StaleFiring(generation)
             THEN UNCHANGED <<pc, hasTimedOut>>
             ELSE /\ hasTimedOut' = TRUE
                  /\ Goto("timer", "out", "decide")
    /\ UNCHANGED <<clientVars, shutdownRequested, sockOpen, destroyed, countVars,
                   itsKeepAlive, itsIdle, itsTimerGeneration, waiting, armedFor,
                   reportVars>>

dropIdleConnection_NoClose ==
    /\ itsIdle
    /\ Goto("timer", "decide", "out")
    /\ UNCHANGED <<clientVars, shutdownRequested, sockOpen, destroyed, countVars,
                   flagVars, timerVars, reportVars>>
\* An idle connection is closed without a word.
dropIdleConnection ==
    /\ itsIdle
    /\ Goto("timer", "decide", "out")
    /\ sockOpen' = FALSE
    /\ UNCHANGED <<clientVars, shutdownRequested, destroyed, countVars, flagVars,
                   timerVars, reportVars>>

\* Otherwise a 408 goes out, by the common sendStockReply.
reportTimeout ==
    /\ ~itsIdle
    /\ Goto("timer", "decide", "stock")
    /\ itsKeepAlive' = FALSE
    /\ UNCHANGED <<clientVars, shutdownRequested, sockOpen, destroyed, countVars,
                   itsIdle, hasTimedOut, timerVars, reportVars>>

-----------------------------------------------------------------------------
(* The pool thread: handleCompletedRead and the response it produces.      *)

cancelTimeout_NoStamp ==
    /\ MutexFree
    /\ Goto("pool", "queued", "cancel")
    /\ waiting' = 0
    /\ UNCHANGED <<clientVars, shutdownRequested, sockOpen, destroyed, countVars,
                   flagVars, itsTimerGeneration, fired, armedFor, reportVars>>
\* Under the mutex: a new generation for what has fired already, a cancel for
\* what has not.
cancelTimeout ==
    /\ MutexFree
    /\ Goto("pool", "queued", "cancel")
    /\ itsTimerGeneration' = itsTimerGeneration + 1
    /\ waiting' = 0
    /\ UNCHANGED <<clientVars, shutdownRequested, sockOpen, destroyed, countVars,
                   flagVars, fired, armedFor, reportVars>>

\* itsPrematurelyDisconnected is never set, as nothing starts the watch that would
\* set it, so the outcome is that of socket().cancel(): it throws on a closed
\* socket and the plugin is not called.
cancelDisconnectWatch ==
    /\ Goto("pool", "cancel", IF sockOpen THEN "plugin" ELSE "out")
    /\ UNCHANGED <<clientVars, shutdownRequested, sockOpen, destroyed, countVars,
                   flagVars, timerVars, reportVars>>

\* The plugin returns a response, refuses the request (400), throws, or was
\* cancelled because the probe saw the client go.
callPlugin ==
    /\ \E to \in {"reply", "stock", "out"} : Goto("pool", "plugin", to)
    /\ UNCHANGED <<clientVars, shutdownRequested, sockOpen, destroyed, countVars,
                   flagVars, timerVars, reportVars>>

\* The whole response is written.  The response itself may end persistence: a
\* plugin's Connection: close, a gateway response, a chunked one to HTTP/1.0, a
\* stream of another length than announced.
writeReply ==
    /\ Goto("pool", "reply", "finish")
    /\ sockOpen
    /\ itsKeepAlive' = FALSE \/ UNCHANGED itsKeepAlive
    /\ answered' = answered + 1
    /\ UNCHANGED <<clientVars, shutdownRequested, sockOpen, destroyed, itsBuffer,
                   itsRequestCount, itsIdle, hasTimedOut, timerVars, reportVars>>

\* The response breaks off.  A write error, a streamer that fails and a full queue
\* in mid-body close the socket; an exception of the streamer, or a flush of the
\* held-back headers that fails, only returns, and leaves it to the destructor.
abortReply ==
    /\ Goto("pool", "reply", "out")
    /\ \/ itsKeepAlive' = FALSE /\ sockOpen' = FALSE
       \/ UNCHANGED <<itsKeepAlive, sockOpen>>
    /\ UNCHANGED <<clientVars, shutdownRequested, destroyed, countVars, itsIdle,
                   hasTimedOut, timerVars, reportVars>>

-----------------------------------------------------------------------------
\* Every handler, task and wait holds the connection by shared_from_this: the
\* destructor runs when the last of them is gone.
destroy ==
    /\ ~destroyed
    /\ \A t \in Threads : pc[t] = "out"
    /\ waiting = 0 /\ fired = {} /\ reporters = 0
    /\ destroyed' = TRUE
    /\ sockOpen' = FALSE
    /\ UNCHANGED <<clientVars, shutdownRequested, countVars, flagVars, timerVars, pc,
                   reportVars>>

\* The object is gone; nothing more happens.
Terminated == destroyed /\ UNCHANGED vars

ClientStep == ClientSend \/ ClientClose \/ handleHandshake

ReaderStep ==
    \/ start \/ handleHandshakeError
    \/ readCompletes \/ handleReadShutdown \/ handleReadError \/ handleRead
    \/ rearmForRequest
    \/ refuseInput \/ handleIncompleteRequest
    \/ resolveClientIP \/ resolveClientIPFails \/ handleParsedRequest
    \/ replyDirectly \/ scheduleRequest
    \/ ReplyStep("reader")

TimerStep ==
    \/ timerExpires \/ handleTimer
    \/ dropIdleConnection \/ reportTimeout
    \/ ReplyStep("timer")

PoolStep ==
    \/ cancelTimeout \/ cancelDisconnectWatch \/ callPlugin
    \/ writeReply \/ abortReply
    \/ ReplyStep("pool")

Next ==
    \/ ClientStep \/ shutdownServer
    \/ ReaderStep \/ TimerStep \/ PoolStep
    \/ reportInfo \/ destroy
    \/ Terminated

Spec == Init /\ [][Next]_vars

\* While the server is up its threads keep running what is ready, waits run out,
\* plugins return and a write ends, by success or by an error.  The client owes
\* nothing: it need not send, handshake or close.
Fairness ==
    /\ WF_vars(~shutdownRequested /\ ReaderStep)
    /\ WF_vars(~shutdownRequested /\ TimerStep)
    /\ WF_vars(~shutdownRequested /\ PoolStep)
    /\ WF_vars(~shutdownRequested /\ (reportInfo \/ destroy))

FairSpec == Spec /\ Fairness

-----------------------------------------------------------------------------
(* Properties.                                                             *)

PoolBusy == pc["pool"] \in {"cancel", "plugin", "reply", "stock", "sent", "finish"}

\* From the moment handleCompletedRead has bumped the generation until the
\* response is finished, no timeout handler runs and none that is pending can pass
\* its stamp test: the pool thread has the connection, and the response object, to
\* itself.  A cancel alone does not give this, a firing may be queued already.
PoolThreadUndisturbed ==
    PoolBusy => /\ pc["timer"] = "out"
                /\ waiting = 0
                /\ itsTimerGeneration \notin fired

\* A connection has one request in flight: while a pool thread owns it, from the
\* queue to the end of the response, no read is outstanding and no handleRead runs.
OneRequestInFlight == pc["pool"] # "out" => pc["reader"] = "out"

\* What protects a request that has been handed to a pool thread: from
\* scheduleRequest on no read is outstanding and no handleRead runs, and from the
\* cancel in handleCompletedRead until the response is finished no timeout handler
\* runs or can still pass its stamp test.  Nothing is said of the timer while the
\* request is dispatched or queued, nor of the io thread that reports a full queue:
\* see OnlyUnreceivedTimesOut and RequestHasOneUser below.
RequestIsOwned == PoolThreadUndisturbed /\ OneRequestInFlight

\* handleTimer calls sendStockReply with itsMutex held, and finishResponse ends in
\* armTimer, which takes it: the timer thread must never get there, it would wait
\* for itself for ever.
TimerNeverRearms == pc["timer"] \notin {"arm", "next"}

Reading ==
    pc["reader"] \in {"handshake", "read", "received", "posted", "rearm", "parse",
                      "identified"}

\* Persistence is negotiated per request: until the next request has been parsed
\* the connection is one to be closed, so that a 400 or 413 for what was read closes it.
NotPersistentWhileReading == Reading => ~itsKeepAlive

\* No more requests are served than announced by "Keep-Alive: max", whose value
\* itsMaxKeepAliveRequests - itsRequestCount is unsigned and must not wrap; without
\* persistent connections one request is all there is.
RequestLimitKept ==
    /\ MaxKeepAliveRequests > 0 => itsRequestCount <= MaxKeepAliveRequests
    /\ (MaxKeepAliveRequests > 0 /\ itsKeepAlive) => itsRequestCount < MaxKeepAliveRequests
    /\ ~KeepAliveEnabled => itsRequestCount <= 1

\* Whether the connection is reused is decided anew for every request, after it is
\* parsed, and never beyond the limit: itsKeepAlive in evaluateKeepAlive and
\* finishResponse.
ReuseIsDecided == NotPersistentWhileReading /\ RequestLimitKept

\* A timeout of the current generation will fire, has fired, or is being handled.
TimeoutPending ==
    \/ waiting = itsTimerGeneration
    \/ itsTimerGeneration \in fired
    \/ pc["timer"] # "out"

\* Waiting for the client is always bounded: while a handshake or a read is
\* outstanding on an open socket, a timeout of the current generation is pending or
\* being handled, on every path that leads there.
WaitingIsBounded ==
    (pc["reader"] \in {"handshake", "read"} /\ sockOpen) => TimeoutPending

\* Once the timeout handler is done with the connection, nothing more is read from
\* the client and no further client is identified, whatever was in flight.  A request
\* that passed resolveClientIP before may still be counted and handled after.
NothingTakenAfterTimeout ==
    [][(inTransit' < inTransit \/ resolveClientIP) =>
           ~(hasTimedOut /\ pc["timer"] = "out")]_vars

\* Requests and answers follow the abstract connection: one at a time, one final
\* answer each, at most MaxKeepAliveRequests of them, nothing after a refusal.
Promise == INSTANCE RequestResponse
               WITH Limit <- MaxKeepAliveRequests, accepted <- itsRequestCount
PromiseKept == Promise!Spec

\* A client that stops sending, never handshakes or never closes does not hold the
\* connection for ever: it is destroyed, and its slot released, unless the server is
\* shut down first.
ConnectionEnds == <>(destroyed \/ shutdownRequested)

-----------------------------------------------------------------------------
(* The inductive invariant behind the safety properties.                   *)

\* No stamp is newer than the current one, so the next one is unused.
StampInv ==
    /\ waiting <= itsTimerGeneration
    /\ \A generation \in fired : generation <= itsTimerGeneration

\* The timeout handler has set hasTimedOut before it does anything else.
TimerInv == pc["timer"] # "out" => hasTimedOut

\* The control part of the invariant.
OwnershipInv ==
    /\ StampInv
    /\ TimerInv
    /\ TimerNeverRearms
    /\ OneRequestInFlight
    /\ PoolThreadUndisturbed

\* No request is in flight: the next one has not been parsed yet.
AwaitingRequest ==
    \/ pc["reader"] = "new" \/ Reading
    \/ \E t \in {"reader", "pool"} : pc[t] \in {"arm", "next"}

\* Between requests everything is settled: nothing owed, persistence not negotiated,
\* room for one more request, and a socket the timeout handler has left is closed.
AwaitingInv ==
    AwaitingRequest =>
        /\ ~itsKeepAlive
        /\ answered = itsRequestCount
        /\ MaxKeepAliveRequests > 0 => itsRequestCount < MaxKeepAliveRequests
        /\ ~KeepAliveEnabled => itsRequestCount = 0
        /\ pc["timer"] # "finish"
        /\ (hasTimedOut /\ pc["timer"] = "out") => ~sockOpen

\* A request being dispatched or handled is owed an answer; a stock reply answers it
\* or refuses input; whoever goes on to reuse the connection has answered.
AnswerInv ==
    /\ pc["reader"] = "dispatch" => answered + 1 = itsRequestCount
    /\ pc["reader"] = "stock" =>
           answered + 1 = itsRequestCount \/ (answered = itsRequestCount /\ ~itsKeepAlive)
    /\ pc["pool"] \in {"queued", "cancel", "plugin", "reply", "stock"} =>
           answered + 1 = itsRequestCount
    /\ \A t \in {"reader", "pool"} :
           (pc[t] \in {"sent", "finish"} /\ itsKeepAlive) => answered = itsRequestCount

PersistenceInv == itsKeepAlive => KeepAliveEnabled

RequestInv == AwaitingInv /\ AnswerInv /\ PersistenceInv /\ RequestLimitKept

\* A timeout covers the whole wait, from before the read is started until the
\* request has been parsed.
TimeoutInv ==
    (Reading \/ \E t \in {"reader", "pool"} : pc[t] = "next") /\ sockOpen => TimeoutPending

ConnectionInv == TypeOK /\ OwnershipInv /\ RequestInv /\ TimeoutInv

-----------------------------------------------------------------------------
(* What the sources say of the timeout and the code does not keep.         *)

\* "The keep-alive timeout of an idle persistent connection expired ... it must do
\* so silently here" (handleTimer): the wait armed for an idle connection never ends
\* in a 408.
IdleExpiryIsSilent == pc["timer"] = "stock" => armedFor = "request"

\* "A request was being read ... and did not arrive in time" (handleTimer): a 408 is
\* for a request still arriving, not for one that waits for a pool thread.
OnlyUnreceivedTimesOut ==
    (pc["timer"] = "decide" /\ ~itsIdle) => pc["pool"] # "queued"

\* "Report it and close" (handleTimer): when the timeout handler has returned, the
\* socket is closed.
TimeoutCloses == (hasTimedOut /\ pc["timer"] = "out") => ~sockOpen

\* "The connection is always closed when the framing cannot be trusted: ...
\* 400/408/413 replies" (developer guide): also the 400 sent for a refused plugin.
BadRequestCloses ==
    [][(pc["pool"] = "sent" /\ pc'["pool"] # "sent") => ~sockOpen']_vars

\* "If it has gone by the time a pool thread picks the request up, the plugin is not
\* called at all" (developer guide).
GoneClientSkipsPlugin ==
    [][cancelDisconnectWatch => (pc'["pool"] = "plugin" => clientOpen)]_vars

\* "A connection only ever has one request in flight" (finishResponse): the thread
\* still reporting a full queue does not read itsRequest while another thread
\* replaces it with the next one.
RequestHasOneUser == ~(reporters > 0 /\ pc["reader"] = "parse" /\ CompleteRequest)

=============================================================================
