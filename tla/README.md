# SmartMet Server: TLA+ verification project

SmartMet Server (`smartmetd`) is an HTTP server that hands requests to plugins. This
directory models the code of this repository that is concurrent, stateful or both: the
life of a client connection, what it reads and writes, the call of a plugin and its
cancellation, the accept loop, start and shutdown, the daemon's process with its signals
and its failed allocations, the memory log, and the load tester. The plugins, engines, the
Reactor and the thread pools live in other repositories (spine, macgyver); they appear
here as the code in `src/` uses them.

Paths below are relative to the repository. `cpp` stands for
`src/source/AsyncConnection.cpp`.

## 1. Inventory

### Threads

| Thread | Runs | Started by |
|---|---|---|
| io threads (`server_threads`) | `handleAccept`, `handleRead`, `handleTimer`, write completions | `AsyncServer::run` |
| pool threads (admin, slow, fast) | `handleCompletedRead`, chunk getters | `AsyncServer::run` |
| main thread | signal loop, `shutdownServer` | - |
| tasks `ini-reactor`, `srv-run` | `Reactor::init`, `AsyncServer::run` | `main` |
| watchdog task | `sigint_watchdog` | `handle_signal(SIGINT)` |
| spine's watcher | asks the cancellation tokens of running requests | Reactor |

The io threads share one `io_context` and there is no strand: two handlers of one
connection can run at the same time on two threads. What keeps them apart is the order in
which the code starts them, one mutex (`itsMutex`) around parts of three functions, and
the stamp `itsTimerGeneration`. This is where most of the hazards are.

### Components

| Component | State it keeps | Operations | Interacts with | Hard because |
|---|---|---|---|---|
| Connection (`cpp`, `Connection.cpp`) | socket, timer and its generation, `itsIdle`, `itsKeepAlive`, `hasTimedOut`, request count, buffer | start, handshake, read, parse, dispatch, stock reply, finish, time out, destroy | accept loop (slot), pools (tasks), timers, client | three activities on one object; a cancelled timer may have fired already; reuse |
| Request input (`cpp`, `Utility.cpp`) | buffer, received count, `itsExpectHandled` | read, limits, parse one, 100/417 | connection | pipelining, boundaries, a client that waits for the server |
| Reply paths (`cpp`) | pending head, string being written, streamed and declared byte counts, health and log flags | regular, streamed, chunked, gateway and stock replies; abort | plugins' streamers, pools, client, access log, backend health hooks | partial writes, failing streamers, two HTTP versions, what is left of one response in the next |
| Accept loop (`AsyncServer.cpp`) | connection count, limit flag, the next connection object | accept, refuse, start | connections (destroyed anywhere), shutdown | test and registration are apart |
| Start and shutdown (`AsyncServer.cpp`, `Server.cpp`) | worker count, pools, executor mutex, shutdown flag | run, shutdown, worker exit | main thread, io threads, Reactor | a shutdown may come at any point of the start; bounded waits |
| Main thread and tasks (`smartmetd.cpp`) | `last_signal`, watchdog count, two tasks | start, signal, poll, collect, stop, abort | server, Reactor | asynchronous signals, one variable for all; parts that fail or hang |
| Allocation failures (`MaxEventFreq`, `smartmetd.cpp`) | last ten time points, a mutex | handler, check, throw, terminate | every thread | it runs inside what failed; allocates itself |
| Plugin call (`cpp`) | pool, `itsAdminQuery`, cancellation token | choose a pool, queue, call, cancel, reply | pools, plugin, watcher, client | three threads; a descriptor that changes hands |
| Response head (`cpp`, `Utility.cpp`) | `itsResponseVersion`, `itsKeepAlive`, `itsHeadRequest`, headers | negotiate, strip, code, tag, confirm (304), announce | client and its cache, a second server | both ends must draw the same conclusions from the same bytes |
| Configuration (`Server.cpp`, `Server.h`) | settings | read once | all | absent, wrong and zero values |
| Memory log (`Server.cpp`) | timer, fields | start, expire, write, cancel | io threads, `/proc`, jemalloc | readings that fail or contradict each other |
| Load tester (`Tester.cpp`) | queue, results, progress index, signal flag | fill, run, progress, signal, print, destroy | a server under test | four threads and no common lock |
| `Names.cpp` | none | one regular expression | Reactor | - |

### What makes each correct

* Connection: a request has one owner; one request is in flight; every final response
  answers one request, in order; every wait for the client is bounded; the timeout handler
  neither disturbs a response nor waits for itself; the request limit holds.
* Request input: memory is bounded; limits are per request; a client that waits for
  `100 Continue` is answered and one that does not is not confused.
* Reply paths: client and server agree on where each response ends whenever the
  connection is reused; truncation is never taken for completeness; every streamed response
  is logged, and every backend's outcome is reported, once and correctly.
* Accept loop: the count is exact, the limit holds, its reaching is reported once.
* Start and shutdown: no handler uses a destroyed pool, no plugin code outlives its
  library, a shutdown ends.
* Main thread: it stops when told to and only then; after SIGINT it ends in any case; a
  task that fails takes it down.
* Allocation failures: exactly the failures of the last window are counted; the process
  ends for too many of them.
* Plugin call: a request is cancelled only for its own limit or its own client; a limit
  stops a plugin that would not stop; a queued request is taken up.
* Response head: client and server agree on persistence; a tag names one sequence of bytes;
  one coding is undone by one decoding; a 304 names what the client has.
* Memory log: what is logged is what was read, and a failure does not end the log.
* Load tester: each result is counted once; a signal ends the run and its results appear.

`PROJECT.json` lists the components, also those not modelled, and the hazards with the
lines where they bite.

## 2. Modules

| Module | Models | Uses |
|---|---|---|
| `RequestResponse` | abstract: what a persistent connection promises | - |
| `AsyncConnection` | reader, timer handler and pool thread over one connection | `RequestResponse` (refinement) |
| `AsyncConnectionProofs` | theorems about `AsyncConnection` | TLAPS |
| `RequestInput`, `MCRequestInput`, `RequestInputProofs` | bytes to requests, limits, `Expect`; theorems | TLAPS |
| `ReplyPaths`, `ReplyPathsProofs` | responses to bytes, and the client that reads them; theorems | TLAPS |
| `ConnectionSlots` | abstract: what a limit of connections promises | - |
| `ShutdownRequest` | the flag that `shutdownServer` raises | - |
| `AcceptLoop` | accept loop and limit | `ShutdownRequest`, `ConnectionSlots` (refinement) |
| `ServerLifecycle` | run and shutdown | `ShutdownRequest` |
| `MemoryLog`, `MCMemoryLog` | the periodic log of memory use | `ShutdownRequest` |
| `ServerProofs` | theorems about these three | TLAPS |
| `Smartmetd` | the daemon's process: start, tasks, signals, watchdog | - |
| `NewHandler` | failed allocations and their limiter | - |
| `SmartmetdProofs` | theorems about these two, which are `smartmetd.cpp` | TLAPS |
| `ServerConfig` | settings from a configuration file | - |
| `PluginCall`, `MCPluginCall`, `PluginCallProofs` | choice of a pool, plugin call, cancellation; theorems | `ServerConfig`, TLAPS |
| `ResponseHead`, `MCResponseHead`, `ResponseHeadProofs` | request and response header sections over hops and caches; theorems | TLAPS |
| `LoadTester`, `LoadTesterProofs` | the load tester; theorems | TLAPS |

Modules whose theorems stand in one module of proofs are extended by it together, so their
specifications have names of their own: `LoopSpec`, `LogSpec` and `LimiterSpec` are the
`Spec` of `AcceptLoop`, `MemoryLog` and `NewHandler`, and so with `Init`, `Next`, `TypeOK`
and `vars`.

Operators named `Xxx_Yyy` next to an operator `Xxx` are plausible bugs in it; each is
used to show that some property would notice (`mutants` in `PROJECT.json`). No
specification refers to them.

### AsyncConnection

`pc` maps the three activities to where they are. One action is one piece of code between
two points at which another thread can matter: a lock, a blocking write, the start of an
asynchronous operation, or a read of a variable that another activity writes. So
`handleTimer` is four steps (take the mutex and test the stamp; look at `itsIdle`; write
the 408; look at `itsKeepAlive` again), and `finishResponse` is three (test and reset;
`armTimer`, which takes the mutex; start the next read), because others can come in
between. `MutexFree` is the mutex: only `handleTimer` holds it across steps.

The timer is `waiting` (the generation of the pending wait) and `fired` (generations whose
completion is queued): `cancel()` empties `waiting` and cannot reach `fired`, which is why
the stamp exists. `armedFor` remembers what the current wait was armed for and exists only
for the properties. `answered` counts final responses, the 408 excepted, which belongs to
no request.

Bytes are pieces; `parseOneRequest` completes with `Pieces` of them. What a message looks
like is `RequestInput`'s subject, and what a response looks like `ReplyPaths`': here
`writeReply` and `abortReply` stand for a whole reply, with every outcome it can have on
`itsKeepAlive` and the socket. Between parsing and dispatch there are two steps, without a
lock: `resolveClientIP` asks the socket for the peer, `handleParsedRequest` counts the
request and decides on persistence; a timeout may close the socket in between. `destroy` is
the destructor, taken when no handler, wait or task refers to the object.

### RequestInput

A message is a head and a body of some cells. The client sends a script of messages and
holds a body back after `Expect: 100-continue`, or does not. `received - consumed` is
`itsBuffer`. The actions are the steps of `handleRead`: count, test against
`maxrequestsize`, append, parse, and on an incomplete message `maxheadersize` and the
`Expect` decision. A malformed message fails to parse at some point, at the latest when it
is all there. 400, 413, 417 and 431 end the connection.

### ReplyPaths

One response after another on one connection, sequential by `OneRequestInFlight`. Written
data are tokens (a header section with its framing, a byte, a chunk line), and `client` is
the state of a reader that follows RFC 9112: it finds message ends from the framing only.
The actions follow the functions of the same name; a write takes any part of the string,
or fails when the client is gone; a streamer gives any part of its content, nothing for
now, ends or fails; the queue may be full when the next chunk is to be scheduled. A header
section that cannot be written ends the response, with the streamer still able to give more
(`flushFails`) or at its end (`streamEndsUnsent`): then `getNextChunk` returns before it
logs or reports anything.

### AcceptLoop

The loop is sequential, `pc` is its step. `state` says for every connection object whether
it is registered. Objects are recycled, so the number of connections is unbounded. A
connection is `lingering` when its socket is closed but a pending timer keeps it alive:
`closeSocket` does not cancel the timer.

The module also states `SlotsArePromised`: seen through `Live` and through "reported, or
about to be", the loop is `ConnectionSlots`. The client is turned away, in that view, when
`checkLimit` looks, not when `refuse` writes; a slot may become free in between.

### ServerLifecycle

`run` and the main thread are sequences of steps with `itsExecutorMutex`; each io thread
is a state machine; one streamed response (`stream`) is the work: it is in a pool queue,
in a pool thread, in a pending write, or over. `shutdownServer` may be called again.

### Smartmetd

`main` goes from its options through the set-up of Reactor and server to the loop and to
the exit; `task` follows the two tasks, which install the signal handlers when they
begin and may fail. A signal writes `last_signal` at any moment, or has its default
action as long as no task has run `init_signals`; the main loop reads it, decides and
resets it in separate steps; the watchdog polls and clears it. `hangs` is the set of
parts that never finish in a behaviour: the pools' work, the Reactor's shutdown, or its
initialisation. `caller` says who has called `shutdownServer`: `on_task_error`, from
within the collection of tasks, returns to the loop, `stop_server` goes on to wait for
the tasks. An exception of `shutdownServer` ends in `main`'s catch, which returns -1
while tasks may still run (`shutdownFails`); what static destructors do to them then is
outside the model. The watchdog's count, which decays by 0.05 per poll, is kept in
twentieths.

### NewHandler

A thread is where its innermost handler is: `CallHandler` puts another one on top, because
`operator new` calls the handler wherever it fails, also in the handler's own printing and
in the making of the limiter's exception, with the limiter's mutex held. `check` is
`MaxEventFreq::check` from the clock to the array; `recorded` is a history of what was let
through, for the properties.

### ServerConfig, PluginCall

`Settings` takes a configuration file, each value of which is a set with at most one
element, to the members of `Server` and `Options`. `PluginCall` follows one request under
them: `handleParsedRequest` and `scheduleRequest` choose the pool, the pool thread calls
the plugin with a token made by `createCancellationToken`, plugin and watcher ask it, and
`handleCompletedRead` decides on the reply. Until a pool thread takes the request up the
read timer runs (`handleTimer`), and may answer 408 and close the socket. A reply closes it
too, as a rule, while pool and io threads still hold the connection (`closeSocket`), and the
watcher may hold the token longer than that; `fd` says whose the descriptor number is.

### ResponseHead

Headers are functions and sequences of elements, a representation is its data with the
codings applied to it, a tag is data with codings. One client polls one resource whose data
changes, keeps what it receives, and asks again with the tags it has; the handler makes the
response itself or replays one that went through another such server. The actions are the
parsing (`handleParsedRequest`), the handler, and the writing (`startRegularReply`,
`compress_response`, `setServerHeaders`, `setConnectionHeaders`) of a response.

### MemoryLog, LoadTester

`MemoryLog` has the timer, the handler in an io thread, and a system whose status file and
statistics can be anything at each reading. In `LoadTester` each of the main thread, the
io thread, and the workers has its steps; the pool is external. Its state "crashed" is that
of a handler that finds its `Tester` destroyed.

## 3. Runs

### Passing

| Run | Instance | Shows |
|---|---|---|
| `connection` | 3 requests of 2 pieces, limit 2, TLS, keep-alive on; 109k states | `RequestIsOwned` (`PoolThreadUndisturbed`, `OneRequestInFlight`), `TimerNeverRearms`, `ReuseIsDecided` (`NotPersistentWhileReading`, `RequestLimitKept`), `WaitingIsBounded`, `NothingTakenAfterTimeout`, the refinement `PromiseKept`, and the liveness `ConnectionEnds` |
| `request_input` | 89 scripts of 2 or 3 messages, reads of 1 to 3 cells; 24k states | `LimitsHold` (`BufferedIsBounded`, `OnlyExcessIsRefused`), `InterimIsExpected`, `NobodyHoldsForEver` |
| `reply_safety` | bodies of 0 to 3 bytes, every request and answer kind, exceptions; 57k states | `ReuseIsAgreed` (`ReuseInSync`, `ReuseAnnounced`), `CompleteMeansWhole`, `StreamsAreLogged`, `BackendOutcomeReported` |
| `accept_safety` | 5 objects, limit 3; 8k states | `CountIsExact`, `LoggedOncePerEpisode`, and the refinement `SlotsArePromised`, which contains the limit |
| `lifecycle` | 3 io threads, 2 polls, 2 shutdown calls; 25k states | `PoolsGoInBetween` (`PoolsOutliveHandlers`, `TasksGoBeforePlugins`), `PoolsStayGone`, `ShutdownEnds` |
| `smartmetd` | 3 signals, 7 deliveries, 7 polls, three parts that may hang, a shutdown that may throw; 834k states | `OnlyToldToStop`, `AbortNeedsSignals`, `InterruptEnds`, `EndOfAPartEndsAll` (`ReactorEndStops`, `FailedStartEnds`) |
| `new_handler` | 2 threads, 2 failures in a window of 2 ticks, handlers three deep; 17k states | `FrequencyIsBounded`, `OnlyExcessIsRefused`, `FailureEndsOrHangs` |
| `plugin_call` | 4 handlers, 44 configuration files, 3 seconds; 383k states | `EndsForOwnReason` (`CancelledOnlyPastLimit`, `DisconnectIsOwnClients`, `AbandonedOnlyIfLeft`, `FoundGoneRightly`), `LimitsAsConfigured`, `QueuedIsHandled`, `LimitIsSet` |
| `response_head` | 16 requests, 5 answers, 2 codings, data that change once, 2 responses kept; 2.2M states | `PersistenceIsAgreed` (`AgreeOnReuse`, `PromiseIsKept`), `TagsAreTrue` (`TagNamesBytes`, `NotModifiedNamesHeld`), `AppliedOnce` (`DecodesOnce`, `NothingDoubled`), `RequestMeansTheSame` (`OneHopOnly`, `HeadDescribesGet`) |
| `load_tester` | 3 requests, 2 workers, 2 progress timers, a SIGQUIT and the alarm; 46k states | `ResultsAreCounted` (`ResultsWereSent`, `EachResultCountedOnce`), `EndIsFinal` (`PrintedIsAll`, `SignalStopsTheSuite`), `RunEnds` |
| `memory_log` | missing, zero and set period; fields absent and doubled; every pair of readings; 8k states | `LineSaysWhatWasRead` (`FieldsAsConfigured`, `AmountsAsRead`, `FragmentationIsAShare`), `LoggingGoesOn` |

In brackets are the conjuncts of a property that groups several. The type invariant
`TypeOK` is a conjunct of the first property of `request_input`, `reply_safety`,
`plugin_call`, `response_head`, `load_tester` and `memory_log`; in the other modules it is
a theorem. `LimitKept`, `OldestFirst` and `ForgetsOnlyTheOld` are theorems that no run
repeats.

**Bounds.** `MaxRequests` bounds what the client sends; three requests give a first, a
reused and a pipelined one, and with a limit of two the third is the one that must not
be served. Two pieces per request are the least for which a read can be incomplete and a
read can carry the end of one request and the start of the next. In `ReplyPaths` the
number of responses is unbounded (the state returns to `idle`); three bytes allow a body
to be split, and an announced length to be missed by one in either direction. In
`RequestInput` the limits are 3 and 6 cells, with heads and bodies on both sides of
them, and a body of three lets a request within the limit and the start of the next
exceed it together. In `AcceptLoop` two objects more than the limit are needed: the one
being accepted, and one refused. In `ServerLifecycle` `MaxPolls` stands for 2000 polls:
that the wait can end either way is all that matters; a second shutdown call finds what
the first left. In `Smartmetd`, seven signals are the least that can abort, and seven
polls are the least that can find six of them; 1200 polls are only longer. Ignored
signals are all alike to the code, so one of them is sent. In `NewHandler` two failures
fill the window, the third is one too many, and five ticks let the window of two pass
twice; three frames are the first failure, one in the handler and one in that; the
proofs do without these bounds. In `PluginCall` limits of one and two seconds fall below
three, so that a call can end before, at and after its limit, and two of the
configuration files give the fast pool no threads. In `ResponseHead` keep-alive is
enabled (without it no connection outlives a response), two responses kept by the client
are the least among which a server could name the wrong one, one change of the data
gives two tags, and a limit of two requests makes the second the one that closes. In
`LoadTester` three requests for two workers leave one to be queued.

**Fairness.** `AsyncConnection`: while the server is up its threads run what is ready,
waits run out, plugins return, a write ends in success or error. The last is an
assumption about TCP, not about this code, which has no timeout for a write (see the
hazards). Nothing is assumed of the client: it may stop sending, never handshake, never
close. `RequestInput`: the server runs, and a client sends what it is free to send, but a
client that holds its body back is never assumed to give up. `ServerLifecycle`: the main
thread, `srv-run` and the pools run, io threads need not: a handler may be stuck in the
blocking write of a stock reply. `Smartmetd`: the main thread, the tasks and the watchdog
run, and every part ends that is not in `hangs`; the Reactor bounds its own shutdown
(`onShutdownTimedOut`). `NewHandler`: threads are scheduled, and the mutex goes to one that
waits. `PluginCall`: pool threads run, time passes, and a plugin asks its token now and
then; that it returns is assumed only once the token tells it to. `LoadTester`: its threads
run, and a request ends in success, error or timeout. `MemoryLog`: the timer expires and io
threads run its handler. `ResponseHead`, `ReplyPaths` and `AcceptLoop` state safety only.

**Deadlock** is checked except where the modelled part may stop for good: threads that wait
for a mutex one of them holds twice (`new_handler`), a log that is off or cancelled
(`memory_log`), a run that is over (`load_tester`), a client that has asked its last
(`response_head`).

### Disagreements between code and text

The run `load_quit` checks `QuitPrints`, taken from a comment in `Tester.cpp`, and TLC
finds it violated: `handleSignal` shuts the pool down, on which the main thread leaves
`join` and asks for `itsPrintResults`, before it sets that flag. `findings` in
`PROJECT.json` quotes the sentence.

Further configurations refute further statements of comments and documents in the same way.
They are kept for the reader and are not part of the list of runs:

| Configuration (module) | Statement | What happens |
|---|---|---|
| `ConnectionIdleExpiryIsSilent` (`AsyncConnection`) | an idle connection is closed in silence | `handleRead` clears `itsIdle`, then waits for the mutex in `armTimer`; the idle timer fires in between and answers 408 |
| `ConnectionRequestHasOneUser` | a request has one user at a time | after the busy reply has finished a persistent response, its thread still reads `itsRequest` for a log line while the next read may replace it |
| `ConnectionGoneClientSkipsPlugin` | a client that leaves while queued costs no plugin call | nothing starts the watch (`notifyClientDisconnect` is never armed), so the plugin is always called |
| `ReplyHeadHasNoBody` (`ReplyPaths`) | a response to HEAD has no body | stock replies to HEAD carry one and the connection is reused |
| `LifecycleStreamersReleasedFirst` (`ServerLifecycle`) | streamers go before the plugins' libraries | a response with a pending write is held by the `io_context` past the unloading |
| `SmartmetdTerminationIsHeard` (`Smartmetd`) | SIGTERM is an orderly shutdown | it is forgotten when an ignored signal is being handled at that moment |
| `NewHandlerOnlyExcessTerminates` (`NewHandler`) | the `bad_alloc` handler throws, and only too many failures terminate | its function-try-block catches its own exception: the first failed allocation terminates |
| `NewHandlerFailureEnds` | too many failures terminate the process | a failure while the limiter's exception is made waits for the mutex its thread holds |
| `PluginAdminIsNotLimited` (`MCPluginCall`) | "Admin requests are not limited", developer-guide | without an admin pool they run in another pool, under the limit |
| `ConnectionTimeoutCloses` (`AsyncConnection`) | "Report it and close", cpp:204 | a request completed while the 408 is written sets `itsKeepAlive`; `finishResponse` then returns and leaves the socket open |
| `ConnectionOnlyUnreceivedTimesOut` | 408 means "not received in full", HTTP-Client-Guide:500 | the read timer runs on while a complete request is queued |
| `ConnectionBadRequestCloses` | 400 replies close, developer-guide:213 | the 400 of a refused plugin call leaves the connection open |
| `InputLongHeadersAreRefused` (`MCRequestInput`) | "Header section. Over → 431", developer-guide:235 | only an unfinished head is measured |
| `InputOnlyLargeIsRefused` | "The whole request exceeds 128 kB", HTTP-Client-Guide:501 | what is behind it in the buffer counts too |
| `ReplyBodilessHasNoBody` (`ReplyPaths`) | no body for 1xx, 204, 304, developer-guide:177 | streamed and chunked replies keep theirs |
| `ReplyAbortedBodyIsUnframed` | cpp:1959 | the busy reply written into a counted body may complete it |
| `ReplyEveryEndIsReported` | the Content-Length path reports the end of a stream too, cpp:1424 | not if the header section can no longer be written at that moment |
| `PluginEmptyPoolIsSkipped` (`MCPluginCall`) | "A pool with zero threads is skipped", developer-guide:119 | the fast pool is chosen whatever its size, and the request waits until its timer fires |
| `PluginProbeSeesOwnSocket` | "Probe only while the connection exists", since a closed descriptor may be another's, cpp:1014 | the reply closes the socket while the connection object exists, and a late probe looks at what has the number then |

Not stated as properties, but met while modelling: a scalar `keepalive = false` is ignored,
because only the group of that name is looked up; the default of `maxconnections` is at
least 64 even where the limit of open files is lower; `init_signals` replaces the handler
that backward-cpp installs for SIGSEGV when `stacktrace` is set; a closed connection keeps
its slot of `maxconnections` until its timer has let go of it, although developer-guide:236
limits open connections; the log line of an aborted stream counts what was taken from the
streamer, although cpp:1195 speaks of bytes delivered; and the workers may still run when
the pools are destroyed if the bounded wait of `AsyncServer::shutdown` was given up.

`ReuseInSync` excludes the two cases that `ReplyHeadHasNoBody` and
`ReplyBodilessHasNoBody` are about, by name (`StockToHead`, `StreamedBodiless`), and
nothing else. `SilentStream`, the stream of `ReplyEveryEndIsReported`, is the one that
`StreamsAreLogged` and `BackendOutcomeReported` exclude; the fast pool of
`PluginEmptyPoolIsSkipped` is what `QueuedIsHandled` excludes.

`RequestIsOwned` begins where the pool thread has cancelled the timer. Before that, while a
request is dispatched and queued, the timer may answer it and the thread that refused it may
still read it: `ConnectionOnlyUnreceivedTimesOut` and `ConnectionRequestHasOneUser`.

## 4. Proofs

### AsyncConnectionProofs

For every number of requests, pieces, limit and setting of the constants
(`ConnectionAssumption`), `Spec` keeps `TypeOK`, `PoolThreadUndisturbed`,
`OneRequestInFlight`, `TimerNeverRearms`, `NotPersistentWhileReading`,
`RequestLimitKept`, `WaitingIsBounded` and `NothingTakenAfterTimeout`, and implements
`RequestResponse` (`ConnectionKeepsPromise`). `OwnershipKept` and `ReuseDecided` state the
grouped properties `RequestIsOwned` and `ReuseIsDecided` of the run.

None of these is inductive alone. The inductive invariant `ConnectionInv` has, besides
types,

* `OwnershipInv`: at most one of reader and pool thread is active; no stamp in flight is
  newer than the current one (`StampInv`), without which the next stamp might be one that
  has fired already; the timeout handler has set `hasTimedOut` before it replies
  (`TimerInv`), which is why it never reaches `armTimer`;
* `RequestInv`: what is owed at each step. Between requests nothing is owed and the
  connection is not persistent (`AwaitingInv`); while one is handled exactly one answer
  is owed (`AnswerInv`). `AwaitingInv` also says that a socket the timeout handler has
  left is closed, which gives `NothingTakenAfterTimeout`: nothing is read and no client is
  identified on a closed socket. A request that was identified before is the exception
  that the property leaves;
* `TimeoutInv`: a timeout of the current generation covers the stretch from before a read
  is started until the request is parsed.

There is one lemma per part and step relation, each with one step per action. The
refinement step uses the owed answers: a stock reply while something is owed is the
abstract `Answer`, otherwise `Refuse`.

### RequestInputProofs

For every set of scripts, every read size and both limits (`InputAssumption`):
`LimitsHold` (theorem `LimitsAreKept`) and `InterimIsExpected` (`InterimExpected`).
`InputInv` is inductive: `PlaceInv` says that what is consumed is a whole number of
messages and that the code looks for a message only where something is buffered;
`CountInv`, that the count tested against `maxrequestsize` is what is in the buffer;
`HeaderInv`, that an unfinished head that is waited for was measured; `RefusalInv`, that a
413 ends the connection with more than the limit pending; `RepliesInv`, that the message
the server is at has had an interim response at most, and that `itsExpectHandled`
remembers it.

Where a message starts (`StartOf`) is a recursive function. That it has a value with the
recursive equation is shown, not assumed: the module states induction without an operator
to instantiate, as a least element of a set of naturals (`LeastNumber`, `SetInduction`),
and builds the function from its finite parts.

### ReplyPathsProofs

For bodies and announced lengths of every size: `ReuseIsAgreed`, `CompleteMeansWhole`
(of chunked bodies; a counted one can be completed by the busy reply),
`StreamsAreLogged` and `BackendOutcomeReported`, for any sequence of requests, however
much each write takes, and wherever a streamer or the client fails.

The client's reader is a fold over tokens. The first part of the module shows what it does:
it has a value, reading two strings one after the other is reading their concatenation
(`ReaderOfConcat`), as many bytes as were announced end the message and fewer do not
(`ReadContent`), and no token takes a completed message back (`FeedKeeps`). The inductive
invariant is `ReplyInv`:

* `StageInv`: which answer is on which path, and that the bytes counted are the bytes the
  streamer gave;
* `PendingInv`: a header section waits only for the first chunk;
* `LogInv`: log entry and report to the health hooks are made at the end of a stream, once;
* `ReaderInv`: `Eventual`, what the client will be when it has read all that was handed
  over, is known at every step, however much of it has been taken yet. `PersistInv` and
  `PlaceInv` say what it is on each path, `EndInv` what it is when the response ends. That
  is the invariant behind `ReuseIsAgreed`: the properties speak of the client after the
  last write, and the steps before it leave any part of a string unread.

### ResponseHeadProofs

For every set of requests and answers, any headers, codings and stale directives, any limit
and any number of kept responses (`HeadAssumption`): `PersistenceIsAgreed`, `TagsAreTrue`,
`AppliedOnce` and `RequestMeansTheSame`. A response is one record through all the steps
that write to it, so most lemmas say what one step adds and what it leaves (`VaryAdded`,
`StaleAdded`, `CodingSelected`, `Encoded`, `Framed`), and one that what was written is kept
to the end (`SentKeeps`). `HeadInv` has

* `NegotiationInv`: how the request in hand was negotiated, and that a connection lost
  already was lost for a reason; `EnabledInv`: that nothing is kept or promised where
  keep-alive is disabled;
* `PromiseInv`: the requests promised to the client and those made since;
* `HeldInv` and `StoreInv`: the client names only tags of what it holds, and the stores hold
  only what such a server has sent: named by its tag, coded as it says, nothing listed twice;
* `SentInv`: that the response just sent is such a one too.

### PluginCallProofs

For every set of configuration files and of handler views, every spelling and repetition
of a plugin's section, and every length of a run (`PluginCallAssumption`):
`EndsForOwnReason` and `LimitsAsConfigured`. `TokenInv`: a token is made once, with
the limit and the probe of its own plugin. `ReasonInv`: the first reason found was true
when it was found, and stays true, since time does not go back and a client that has left
does not return. `PhaseInv`: while the request is with its plugin the descriptor is its own,
which it is neither in the queue, where the timer may have closed it, nor after the reply;
`FoundGoneRightly` is an action property because only the moment of a probe tells. The
settings are the other half: what `ByPlugin` holds for a name is the last valid value of a
section of that name (`ByPluginHolds`), and a value taken is one that was given and
accepted, or the default (`Accepted`).

### ServerProofs

The accept loop. For every limit and finite set of objects: `CountIsExact`, `LimitKept`,
`LoggedOncePerEpisode`. The limit needs `SlotInv`: between `checkLimit` and `start` the
free slot seen stays free, because only the loop takes slots, and `LoopInv`: the object in
the loop's hands is not registered yet, so that `start` adds one to the set counted.

`SlotsKept`: the loop implements `ConnectionSlots`. `TestIsOfSlots` turns the counter's
test into a statement about the slots (by `CountIsExact`), and `SlotStep` has one step per
action; the turning away of the abstract level is the failing test.

Start and shutdown. For any finite set of io threads and any number of polls and shutdown
calls: `PoolsOutliveHandlers`, `TasksGoBeforePlugins` (together `PoolsGoInBetween`,
theorem `PoolsInBetween`), and `PoolsStayGone`. `MutexInv` says at which steps each side
holds `itsExecutorMutex`, from which `PoolsInv` follows: what its holder has found out
about the pools stays true until it acts on it. `CountInv` says that `itsRunningWorkers`
covers every thread from before it exists until it has left `io_context::run`, so that a
poll that sees zero sees no handler; `QuietInv`, that after `itsIoService.stop()` none
begins, and that therefore, unless the wait was given up, no handler runs from the end of
the wait on.

The memory log. For any configured fields, any status files and any statistics
(`MemoryLogAssumption`): `LineSaysWhatWasRead`, that is, a line has the configured
fields in their order, each with the value that one and the same status file gave it,
the amounts are those of one reading, 0 where the statistic could not be read, and the
fragmentation is a share of what was active (`ShareOfActive`), also where the two
numbers contradict each other. `ValueRead` says which of several lines with one key is
taken.

### SmartmetdProofs

The process. For any signals, polls and hangs: `OnlyToldToStop` and
`AbortNeedsSignals`. `HeardInv`: what `last_signal` and `sig` hold was sent.
`WatchdogInv` is an account: the signals counted, the one that started the watchdog and the
one pending never exceed those sent, and the watchdog exists only on the way from a SIGINT
to the exit, on which nothing leads back into the loop; this needs that `stop_server`, not
`on_task_error`, is the caller.

The limiter of `NewHandler`. For any number of threads, any window, count and depth:
`OldestFirst`, `ForgetsOnlyTheOld`, `FrequencyIsBounded`, and the action property
`OnlyExcessIsRefused`. The argument is that the array is always the end of `recorded`,
that `recorded` is in order of time because the clock is read under the mutex, and that
what is dropped is a prefix older than the window. `FrequencyIsBounded` follows: the
failure `MaxCount` places earlier was dropped before the array had room.

### LoadTesterProofs

For every finite suite, any number of workers and of expiries of the timer
(`LoadAssumption`): `ResultsAreCounted` and the action properties of `EndIsFinal`.
`PlaceInv`: a request is in one place only, the queue, the hands of one worker, or the
results. `SliceInv`: what was shown and what is in hand are a prefix of the results, which
only grow; a slice is in hand only between the two halves of `printProgress`. `PoolInv`:
when `handleSignal` is through, the pool is shut down or gone. `JoinInv`: after `join`
nobody works, and no queue is left that a worker might begin.

### What the proofs changed

* `AfterHead` of `ReplyPaths` had `CASE` arms that overlap, so that its value was not
  determined; TLC takes the first. It is an `IF` now.
* `PromiseIsKept` of `ResponseHead` was not true for all headers: an HTTP/1.0 client that
  sends `Connection` without `keep-alive` and `Proxy-Connection: keep-alive` is closed on.
  `asksToKeep` says which of the two counts. The run had no such request; it has now.
* `FieldsAsConfigured` of `MemoryLog` let each field come from another status file.
* What the code takes for granted of headers, settings and status files is named in
  `HeadAssumption`, `IsConfig`, `PluginCallAssumption`, `MemoryLogAssumption` and
  `LoadAssumption`.

### Only model-checked

Liveness: `ConnectionEnds`, `NobodyHoldsForEver`, `ShutdownEnds`, `InterruptEnds`,
`EndOfAPartEndsAll`, `FailureEndsOrHangs`, `QueuedIsHandled`, `LimitIsSet`, `RunEnds` and
`LoggingGoesOn` need fairness and `ENABLED`, which are beyond the prover. Every safety
property of a passing run is a theorem.

## 5. Not modelled

* URIs, query strings and bodies; what compression does to bytes; which address of
  `X-Forwarded-For` is believed, a pure function of one header; TLS beyond the handshake's
  outcome; log wording; request dumps.
* The data races on plain `bool` members are modelled as interleavings of single reads and
  writes; torn values of a `bool` are not a thing on any supported platform.
* The Reactor, handler lookup, load control and pools are sets of outcomes.
* Concurrent use of the acceptor by `shutdown` and `handleAccept`: a data race inside asio,
  whose outcomes are not known from this code.
* `Names.cpp` (one regular expression); the unused `testRequest` and `dumpRequests` of the
  load tester; `backward.h`, which is vendored and half of the C++ lines of the repository;
  tests and tools.

## 6. Plan

1. Compose: `writeReply` and `abortReply` of `AsyncConnection` implemented by `ReplyPaths`,
   with the proof that the steps of a reply map to them; the guard of `destroy` as what frees a
   slot of `AcceptLoop`; `shutdownServer` of `ServerLifecycle` as the `stopPools` of `Smartmetd`.
2. An abstract specification of the limiter (a sliding window) and of the load tester (a
   multiset of requests), and the proofs that the detailed ones implement them.
