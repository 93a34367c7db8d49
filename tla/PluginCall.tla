------------------------------- MODULE PluginCall -------------------------------
(***************************************************************************)
(* How a parsed request gets to its plugin and back: the choice of a pool, *)
(* the call in a pool thread, its cancellation, and the reply             *)
(* (handleParsedRequest, scheduleRequest, handleCompletedRead and          *)
(* createCancellationToken of source/AsyncConnection.cpp), under the       *)
(* settings of ServerConfig.                                               *)
(*                                                                         *)
(* The token is asked by the plugin, in the pool thread, and by spine's    *)
(* watcher, in a thread of its own, which may ask once more after the call *)
(* is over: after the reply has closed the socket, after the connection is *)
(* gone, and when its descriptor has been given to another connection.     *)
(***************************************************************************)
EXTENDS ServerConfig

CONSTANTS
    Configs,    \* configuration files
    Handlers,   \* handler views: [plugin, catchNoMatch, admin, fast]
    MaxTime     \* bound: seconds

ASSUME PluginCallAssumption ==
    /\ MaxTime \in Nat
    /\ \A c \in Configs : IsConfig(c)
    /\ \A h \in Handlers : {h.catchNoMatch, h.admin, h.fast} \subseteq BOOLEAN

VARIABLES
    config, settings,
    handler,        \* getHandlerView
    phase,          \* where the request is
    pool, itsAdminQuery,
    now, started,
    token,          \* [deadline (0 = none), probe, reason]
    replaced,       \* HandlerView has put a 503 in the place of the plugin's response
    reply,          \* what the server did in the end
    watcher,        \* whether the watcher holds the token
    client,         \* "open", "half" (its sending side closed) or "gone"
    connection,     \* "alive" or "destroyed"
    fd, stranger    \* whose the descriptor is, and whether its new owner's client is gone

vars == <<config, settings, handler, phase, pool, itsAdminQuery, now, started, token,
          replaced, reply, watcher, client, connection, fd, stranger>>
setup   == <<config, settings, handler>>
outside == <<client, connection, fd, stranger>>

Reasons == {"none", "TimedOut", "Disconnected"}
NoToken == [deadline |-> 0, probe |-> FALSE, reason |-> "none"]

TypeOK ==
    /\ config \in Configs /\ handler \in Handlers
    /\ phase \in {"parsed", "chosen", "queued", "handling", "returned", "settled"}
    /\ pool \in {"none", "admin", "slow", "fast"} /\ itsAdminQuery \in BOOLEAN
    /\ now \in 0 .. MaxTime /\ started \in 0 .. now
    /\ token \in [deadline : Nat, probe : BOOLEAN, reason : Reasons]
    /\ token.deadline > 0 => token.deadline > started
    /\ reply \in {"none", "request_timeout", "high_load", "service_unavailable",
                  "bad_request", "cancelled", "answered", "abandoned"}
    /\ {replaced, watcher, stranger} \subseteq BOOLEAN
    /\ client \in {"open", "half", "gone"} /\ connection \in {"alive", "destroyed"}
    /\ fd \in {"own", "free", "reused"}

Init ==
    /\ config \in Configs /\ settings = Settings(config)
    /\ handler \in Handlers
    /\ phase = "parsed" /\ pool = "none" /\ itsAdminQuery = FALSE
    /\ now = 0 /\ started = 0 /\ token = NoToken /\ replaced = FALSE /\ reply = "none"
    /\ watcher = FALSE /\ client = "open" /\ connection = "alive" /\ fd = "own"
    /\ stranger = FALSE

-----------------------------------------------------------------------------
(* The choice of a pool.                                                   *)

\* The busy replies are sent at once.
Refuse(status) == phase' = "settled" /\ reply' = status

handleParsedRequest ==
    /\ phase = "parsed"
    /\ itsAdminQuery' = (/\ ~handler.catchNoMatch /\ handler.admin
                         /\ settings.adminThreads > 0)
    /\ \E isLoadHigh \in BOOLEAN :
          IF isLoadHigh /\ ~itsAdminQuery' THEN Refuse("high_load")
          ELSE phase' = "chosen" /\ UNCHANGED reply
    /\ UNCHANGED <<setup, pool, now, started, token, replaced, watcher, outside>>

PoolOf_ByFlags ==
    CASE handler.catchNoMatch -> "fast"
      [] ~handler.catchNoMatch /\ itsAdminQuery -> "admin"
      [] OTHER -> IF handler.fast THEN "fast" ELSE "slow"
PoolOf ==
    CASE handler.catchNoMatch -> "fast"
      [] ~handler.catchNoMatch /\ itsAdminQuery -> "admin"
      [] OTHER -> IF settings.slowThreads = 0 \/ handler.fast THEN "fast" ELSE "slow"

scheduleRequest ==
    /\ phase = "chosen"
    /\ pool' = PoolOf
    /\ \/ phase' = "queued" /\ UNCHANGED reply
       \/ Refuse(IF handler.catchNoMatch THEN "service_unavailable" ELSE "high_load")
    /\ UNCHANGED <<setup, itsAdminQuery, now, started, token, replaced, watcher, outside>>

\* The timer runs until a pool thread takes the request up.  A request that it finds before
\* that gets a 408, and its socket is closed.
handleTimer ==
    /\ phase \in {"parsed", "chosen", "queued"} /\ fd = "own"
    /\ reply' = "request_timeout" /\ fd' = "free"
    /\ UNCHANGED <<setup, phase, pool, itsAdminQuery, now, started, token, replaced, watcher,
                   client, connection, stranger>>

Threads(p) ==
    CASE p = "admin" -> settings.adminThreads
      [] p = "slow"  -> settings.slowThreads
      [] OTHER       -> settings.fastThreads

-----------------------------------------------------------------------------
(* The call.                                                               *)

\* The frontend's proxying and the admin pool's requests are not limited.
Limit ==
    IF ~itsAdminQuery /\ ~handler.catchNoMatch
    THEN getRequestTimeout(settings, handler.plugin) ELSE 0

createCancellationToken_OneOrTheOther(at) ==
    LET probe == getCancelOnDisconnect(settings, handler.plugin)
    IN  [deadline |-> IF Limit > 0 /\ ~probe THEN at + Limit ELSE 0,
         probe |-> probe, reason |-> "none"]
createCancellationToken_ZeroIsALimit(at) ==
    [deadline |-> at + Limit, probe |-> getCancelOnDisconnect(settings, handler.plugin),
     reason   |-> "none"]
createCancellationToken(at) ==
    [deadline |-> IF Limit > 0 THEN at + Limit ELSE 0,
     probe    |-> getCancelOnDisconnect(settings, handler.plugin),
     reason   |-> "none"]

\* A pool thread takes the request up; HandlerView gives the watcher the token.
handleCompletedRead ==
    /\ phase = "queued" /\ Threads(pool) > 0 /\ fd = "own"
    /\ phase' = "handling"
    /\ started' = now /\ token' = createCancellationToken(now)
    /\ watcher' = TRUE
    /\ UNCHANGED <<setup, pool, itsAdminQuery, now, replaced, reply, outside>>

\* socket().cancel() throws on a socket that the timer has closed, and the plugin is not
\* called.
handleCompletedRead_Closed ==
    /\ phase = "queued" /\ Threads(pool) > 0 /\ fd # "own"
    /\ phase' = "settled"
    /\ UNCHANGED <<setup, pool, itsAdminQuery, now, started, token, replaced, reply, watcher,
                   outside>>

\* poll() also says that a descriptor is not one (POLLNVAL).
clientHasDisconnected ==
    CASE fd = "own"    -> client # "open"
      [] fd = "free"   -> TRUE
      [] OTHER         -> stranger

probe_NoWeakPointer == token.probe /\ clientHasDisconnected
\* The probe looks at the descriptor only while the connection exists.
probe == token.probe /\ connection = "alive" /\ clientHasDisconnected

\* Fmi::check_cancelled: the first reason found stays.
Ask ==
    token' = IF token.reason # "none" THEN token
             ELSE [token EXCEPT !.reason =
                      CASE token.deadline > 0 /\ now >= token.deadline -> "TimedOut"
                        [] ~(token.deadline > 0 /\ now >= token.deadline) /\ probe
                               -> "Disconnected"
                        [] OTHER -> "none"]

pluginAsks ==
    /\ phase = "handling" /\ Ask
    /\ UNCHANGED <<setup, phase, pool, itsAdminQuery, now, started, replaced, reply,
                   watcher, outside>>

watcherAsks ==
    /\ watcher /\ Ask
    /\ UNCHANGED <<setup, phase, pool, itsAdminQuery, now, started, replaced, reply,
                   watcher, outside>>

\* It lets go some time after the call.
watcherLetsGo ==
    /\ watcher /\ phase \in {"returned", "settled"} /\ watcher' = FALSE
    /\ UNCHANGED <<setup, phase, pool, itsAdminQuery, now, started, token, replaced, reply,
                   outside>>

\* HandlerView::handle returns, by itself or because the token has interrupted the plugin;
\* it may also refuse the client's address.
handlerReturns ==
    /\ phase = "handling" /\ phase' = "returned"
    /\ replaced' = (token.reason # "none")
    /\ \/ UNCHANGED reply
       \/ token.reason = "none" /\ reply' = "bad_request"
    /\ UNCHANGED <<setup, pool, itsAdminQuery, now, started, token, watcher, outside>>

afterHandle_AnyReason ==
    /\ phase = "returned" /\ phase' = "settled"
    /\ reply' = CASE token.reason # "none" -> "abandoned"
                  [] token.reason = "none" /\ reply = "bad_request" -> reply
                  [] OTHER -> "answered"
    /\ UNCHANGED <<setup, pool, itsAdminQuery, now, started, token, replaced, watcher,
                   outside>>
\* The rest of handleCompletedRead: nobody is waiting for the response of a client that has
\* left; any other reason found by now is only logged.
afterHandle ==
    /\ phase = "returned" /\ phase' = "settled"
    /\ reply' = CASE token.reason = "Disconnected" -> "abandoned"
                  [] token.reason # "Disconnected" /\ reply = "bad_request" -> reply
                  [] OTHER -> IF replaced THEN "cancelled" ELSE "answered"
    /\ UNCHANGED <<setup, pool, itsAdminQuery, now, started, token, replaced, watcher,
                   outside>>

\* A reply that does not leave the connection open closes the socket: the descriptor is free
\* while pool and io threads still hold the connection.
closeSocket ==
    /\ phase = "settled" /\ reply # "abandoned" /\ connection = "alive" /\ fd = "own"
    /\ fd' = "free"
    /\ UNCHANGED <<setup, phase, pool, itsAdminQuery, now, started, token, replaced, reply,
                   watcher, client, connection, stranger>>

\* The last reference is dropped, and the socket closed if it is still open.
destroy ==
    /\ phase = "settled" /\ connection = "alive"
    /\ connection' = "destroyed" /\ fd' = IF fd = "own" THEN "free" ELSE fd
    /\ UNCHANGED <<setup, phase, pool, itsAdminQuery, now, started, token, replaced, reply,
                   watcher, client, stranger>>

-----------------------------------------------------------------------------
(* The environment.                                                        *)

clientCloses ==
    /\ client' \in CASE client = "open" -> {"half", "gone"} [] client = "half" -> {"gone"}
                     [] OTHER -> {}
    /\ UNCHANGED <<setup, phase, pool, itsAdminQuery, now, started, token, replaced, reply,
                   watcher, connection, fd, stranger>>

strangerConnects ==
    /\ fd = "free" /\ fd' = "reused"
    /\ UNCHANGED <<setup, phase, pool, itsAdminQuery, now, started, token, replaced, reply,
                   watcher, client, connection, stranger>>

strangerLeaves ==
    /\ fd = "reused" /\ ~stranger /\ stranger' = TRUE
    /\ UNCHANGED <<setup, phase, pool, itsAdminQuery, now, started, token, replaced, reply,
                   watcher, client, connection, fd>>

tick ==
    /\ now < MaxTime /\ now' = now + 1
    /\ UNCHANGED <<setup, phase, pool, itsAdminQuery, started, token, replaced, reply,
                   watcher, outside>>

\* A request in a queue may wait for as long as its pool makes it.
Waiting == phase \in {"queued", "settled"} /\ UNCHANGED vars

Server ==
    \/ handleParsedRequest \/ scheduleRequest
    \/ handleCompletedRead \/ handleCompletedRead_Closed \/ afterHandle

Next ==
    \/ Server \/ handleTimer \/ closeSocket \/ destroy
    \/ pluginAsks \/ handlerReturns \/ watcherAsks \/ watcherLetsGo
    \/ clientCloses \/ strangerConnects \/ strangerLeaves \/ tick \/ Waiting

Spec == Init /\ [][Next]_vars

\* Pool threads run and time passes.  A plugin need not end by itself: it asks the token
\* now and then and returns when that interrupts it.
FairSpec ==
    /\ Spec
    /\ WF_vars(Server) /\ WF_vars(tick) /\ WF_vars(pluginAsks)
    /\ WF_vars(token.reason # "none" /\ handlerReturns)

-----------------------------------------------------------------------------
(* Properties.                                                             *)

\* The time limit the documentation gives a plugin: its own if one is set, 0 lifting the
\* common one, else the common one.  A negative limit is as good as none.
OwnValues == {config.plugins[i].request_timeout :
                 i \in {j \in 1 .. Len(config.plugins) :
                           Lower(config.plugins[j].name) = Lower(handler.plugin)}}
DocumentedLimits ==
    LET own    == {v \in UNION OwnValues : v >= 0}
        common == {v \in config.request_timeout : v >= 0}
    IN  IF own # {} THEN own ELSE IF common # {} THEN common ELSE {0}

DocumentedCancel ==
    LET own == UNION {config.plugins[i].cancel_on_disconnect :
                         i \in {j \in 1 .. Len(config.plugins) :
                                   Lower(config.plugins[j].name) = Lower(handler.plugin)}}
    IN  IF own # {} THEN TRUE \in own ELSE TRUE \in config.cancel_on_disconnect

\* A request is cancelled for time only after the limit set for its own plugin, in its own
\* thread's time, and never the frontend's proxying or a request of the admin pool.
CancelledOnlyPastLimit ==
    token.reason = "TimedOut" =>
        /\ ~itsAdminQuery /\ ~handler.catchNoMatch
        /\ \E limit \in DocumentedLimits : limit > 0 /\ now - started >= limit

\* As long as a request is with its plugin or its reply is being chosen, a token finds a
\* client gone only if it is this request's client that has closed, and only where the
\* configuration asks for it.
DisconnectIsOwnClients ==
    token.reason = "Disconnected" =>
        /\ DocumentedCancel
        /\ phase \in {"handling", "returned"} => client # "open"

\* Only a request whose client has closed is left without a reply; an answer that was
\* complete before the limit was noticed is sent as it is.
AbandonedOnlyIfLeft ==
    /\ reply = "abandoned" => client # "open"
    /\ reply = "cancelled" => token.reason = "TimedOut" /\ replaced

\* A late probe may take the socket that its own connection has closed after the reply, or
\* the one that now has the number, for its client's, but never once the connection is gone:
\* the weak pointer of createCancellationToken.
FoundGone == token.reason # "Disconnected" /\ token'.reason = "Disconnected"
FoundGoneRightly ==
    FoundGone => client # "open" \/ (phase = "settled" /\ connection = "alive" /\ fd # "own")

\* Whatever becomes of a request has a reason of its own, whoever asks its token and when:
\* handleCompletedRead and createCancellationToken.
EndsForOwnReason ==
    /\ [](TypeOK /\ CancelledOnlyPastLimit /\ DisconnectIsOwnClients /\ AbandonedOnlyIfLeft)
    /\ [][FoundGoneRightly]_vars

\* What is wrong in type or sign leaves the default of a setting in force, and does not lift
\* a limit.  A plugin's limit, of which the default is none, is one that its own sections
\* give, however their name is spelled, and the common one only if none of them gives any.
LimitsAsConfigured ==
    /\ settings.itsKeepAliveTimeout > 0 /\ settings.numThreads > 0
    /\ settings.itsMaxKeepAliveRequests \in config.keepalive_maxrequests \cup {1000}
    /\ settings.itsMaxHeaderSize \in config.maxheadersize \cup {16384}
    /\ {settings.itsMaxKeepAliveRequests, settings.itsMaxHeaderSize,
        settings.itsMaxConnections, settings.itsRequestTimeout} \subseteq Nat
    /\ settings.itsMaxConnections = 0 => 0 \in config.maxconnections
    /\ getRequestTimeout(settings, handler.plugin) \in DocumentedLimits

\* A queued request is taken up: handled, or dropped because the timer has closed its socket
\* in the meantime.  A pool without threads is passed over for another one, except the fast
\* pool, which scheduleRequest does not ask for its size.
QueuedIsHandled ==
    (phase = "queued" /\ ~(pool = "fast" /\ settings.fastThreads = 0))
    ~> (phase = "handling" \/ (phase = "settled" /\ reply = "request_timeout"))

\* A plugin that asks the token but never ends by itself is stopped by its limit, whether
\* or not the client is watched too, and its request settled.
LimitIsSet ==
    (phase = "handling" /\ ~itsAdminQuery /\ ~handler.catchNoMatch
         /\ \E limit \in DocumentedLimits : limit \in 1 .. MaxTime - started)
    ~> phase = "settled"

-----------------------------------------------------------------------------
(* What the documentation says and the code does not keep.                 *)

\* "Admin requests are not limited" (developer guide): also without an admin pool.
AdminIsNotLimited == token.reason = "TimedOut" => ~handler.admin

\* "A pool with zero threads is skipped" (developer guide): also the fast pool.
EmptyPoolIsSkipped == phase = "queued" => Threads(pool) > 0

\* "Probe only while the connection exists, a closed descriptor may already have been reused
\* for another connection" (createCancellationToken): a probe looks at its own socket.
ProbeSeesOwnSocket == [][FoundGone => fd = "own"]_vars

=============================================================================
