--------------------------- MODULE PluginCallProofs ---------------------------
(***************************************************************************)
(* Theorems about PluginCall, for every set of configuration files and of  *)
(* handler views, every way of writing a plugin's name, and every length   *)
(* of a run.                                                               *)
(*                                                                         *)
(* The argument: a token is made once, from the settings of its own        *)
(* plugin (TokenInv); while the request is with its plugin, its descriptor *)
(* is its own, whatever the timer did before and the reply does after      *)
(* (PhaseInv); so what is found there was true when it was found           *)
(* (ReasonInv), and stays true, because time does not go back and a client *)
(* that has closed does not come back.                                     *)
(***************************************************************************)
EXTENDS PluginCall, WellFoundedInduction, TLAPS

-----------------------------------------------------------------------------
(* Settings.                                                               *)

Less == {p \in Nat \X Nat : p[1] < p[2]}

\* A set of naturals with an element has a least one.
LEMMA LeastNumber ==
    ASSUME NEW S \in SUBSET Nat, S # {}
    PROVE  \E m \in S : \A n \in S : m <= n
  <1>1. IsWellFoundedOn(Less, Nat)
    BY NatLessThanWellFounded DEF OpToRel, Less
  <1>2. \E m \in S : \A n \in S : ~(<<n, m>> \in Less)
    BY <1>1, WFMin
  <1>3. \A m, n \in Nat : ~(<<n, m>> \in Less) => m <= n
    BY DEF Less
  <1>4. QED
    BY <1>2, <1>3, Zenon

\* A set of positions with an element has a last one.
LEMMA LastPosition ==
    ASSUME NEW n \in Nat, NEW S \in SUBSET (1 .. n), S # {}
    PROVE  \E i \in S : \A j \in S : j <= i
  <1> DEFINE D == {k \in Nat : \E i \in S : k = n - i}
  <1>1. D \in SUBSET Nat /\ D # {}
    <2>1. PICK i \in S : TRUE
      OBVIOUS
    <2>2. n - i \in Nat
      BY <2>1
    <2>3. n - i \in D
      BY <2>1, <2>2
    <2>4. QED
      BY <2>3
  <1>2. PICK m \in D : \A k \in D : m <= k
    <2> HIDE DEF D
    <2> QED BY <1>1, LeastNumber
  <1>3. PICK i \in S : m = n - i
    OBVIOUS
  <1>4. ASSUME NEW j \in S PROVE j <= i
    <2>1. n - j \in Nat
      OBVIOUS
    <2>2. n - j \in D
      BY <2>1
    <2>3. m <= n - j
      BY <1>2, <2>2
    <2>4. QED
      BY <1>3, <2>3
  <1>5. QED
    BY <1>4

\* What ByPlugin holds for a name was set in a section of that name, and every section of a
\* name that it does not hold was without a valid value.
LEMMA ByPluginHolds ==
    ASSUME NEW sections, NEW values, Len(sections) \in Nat
    PROVE  /\ \A name \in DOMAIN ByPlugin(sections, values) :
                 \E i \in 1 .. Len(sections) :
                     /\ Lower(sections[i].name) = name
                     /\ ByPlugin(sections, values)[name] \in values[i]
           /\ \A i \in 1 .. Len(sections) :
                 Lower(sections[i].name) \notin DOMAIN ByPlugin(sections, values) =>
                     values[i] = {}
  <1> DEFINE Valid == {i \in 1 .. Len(sections) : values[i] # {}}
             Name(i) == Lower(sections[i].name)
             IsLast(i, n) == Name(i) = n /\ \A j \in Valid : Name(j) = n => j <= i
             Last(n) == CHOOSE i \in Valid : IsLast(i, n)
             F == [n \in {Name(i) : i \in Valid} |-> CHOOSE v \in values[Last(n)] : TRUE]
  <1>1. ByPlugin(sections, values) = F
    BY DEF ByPlugin
  <1>2. ASSUME NEW n \in DOMAIN F
        PROVE  Last(n) \in Valid /\ Name(Last(n)) = n
    <2> DEFINE Same == {i \in Valid : Name(i) = n}
    <2>1. Same \in SUBSET (1 .. Len(sections)) /\ Same # {}
      OBVIOUS
    <2>2. PICK i \in Same : \A j \in Same : j <= i
      <3> HIDE DEF Same
      <3> QED BY <2>1, LastPosition
    <2>3. i \in Valid /\ IsLast(i, n)
      BY <2>2
    <2>4. \E k \in Valid : IsLast(k, n)
      BY <2>3
    <2>5. Last(n) \in Valid /\ IsLast(Last(n), n)
      <3> HIDE DEF Valid, IsLast
      <3> QED BY <2>4
    <2>6. QED
      BY <2>5
  <1>3. ASSUME NEW n \in DOMAIN F
        PROVE  \E i \in 1 .. Len(sections) : Name(i) = n /\ F[n] \in values[i]
    <2> DEFINE l == Last(n)
    <2>1. l \in 1 .. Len(sections) /\ values[l] # {} /\ Name(l) = n
      BY <1>2
    <2>2. F[n] = CHOOSE v \in values[l] : TRUE
      OBVIOUS
    <2>3. F[n] \in values[l]
      <3> HIDE DEF F, l
      <3> QED BY <2>1, <2>2
    <2>4. QED
      <3> HIDE DEF F, l, Name
      <3> QED BY <2>1, <2>3
  <1>4. ASSUME NEW i \in 1 .. Len(sections), Name(i) \notin DOMAIN F
        PROVE  values[i] = {}
    BY <1>4
  <1>5. QED
    <2> HIDE DEF F
    <2> QED BY <1>1, <1>3, <1>4, Zenon

\* A value that is taken is acceptable and was given, or is the default.
LEMMA Accepted ==
    ASSUME NEW raw \in SUBSET Int, NEW least \in Int, NEW default
    PROVE  LET v == Accept(raw, least, default)
           IN  \/ v \in raw /\ v \in Int /\ v >= least
               \/ v = default /\ \A w \in raw : ~(w >= least)
  BY DEF Accept

Set == config \in Configs /\ settings = Settings(config)

LEMMA ConfigTyped ==
    ASSUME Set
    PROVE  /\ config.keepalive_timeout \subseteq Int
           /\ config.keepalive_maxrequests \subseteq Int
           /\ config.maxconnections \subseteq Int /\ config.maxheadersize \subseteq Int
           /\ config.request_timeout \subseteq Int /\ config.server_threads \subseteq Int
           /\ config.rlimit \subseteq Nat /\ config.cancel_on_disconnect \subseteq BOOLEAN
           /\ Len(config.plugins) \in Nat
           /\ DOMAIN config.plugins = 1 .. Len(config.plugins)
           /\ \A i \in 1 .. Len(config.plugins) :
                 /\ config.plugins[i].request_timeout \subseteq Int
                 /\ config.plugins[i].cancel_on_disconnect \subseteq BOOLEAN
  <1>1. IsConfig(config)
    BY PluginCallAssumption DEF Set
  <1>2. PICK P : config.plugins \in Seq(P)
    BY <1>1 DEF IsConfig
  <1>3. Len(config.plugins) \in Nat /\ DOMAIN config.plugins = 1 .. Len(config.plugins)
    BY <1>2
  <1>4. ASSUME NEW S, S \in {config.keepalive_timeout, config.keepalive_maxrequests,
                            config.maxconnections, config.maxheadersize,
                            config.request_timeout, config.server_threads,
                            config.logmemoryuse}
        PROVE  S \subseteq Int
    BY <1>1, <1>4, Zenon DEF IsConfig
  <1>5. QED
    BY <1>1, <1>3, <1>4 DEF IsConfig

\* Server::getRequestTimeout gives a limit that the documentation gives.
LEMMA LimitDocumented ==
    ASSUME Set
    PROVE  LET limit == getRequestTimeout(settings, handler.plugin)
           IN  limit \in Nat /\ limit \in DocumentedLimits
  <1> DEFINE limits == [i \in DOMAIN config.plugins |->
                           {v \in config.plugins[i].request_timeout : v >= 0}]
             Held == ByPlugin(config.plugins, limits)
             common == {v \in config.request_timeout : v >= 0}
             own == {v \in UNION OwnValues : v >= 0}
             key == Lower(handler.plugin)
             limit == getRequestTimeout(settings, handler.plugin)
  <1>0. SUFFICES limit \in Nat /\ limit \in DocumentedLimits
    OBVIOUS
  <1>1. /\ settings.itsPluginRequestTimeouts = Held
        /\ settings.itsRequestTimeout = Accept(config.request_timeout, 0, 0)
    BY DEF Set, Settings
  <1>2. /\ config.request_timeout \subseteq Int
        /\ Len(config.plugins) \in Nat /\ DOMAIN config.plugins = 1 .. Len(config.plugins)
        /\ \A i \in 1 .. Len(config.plugins) :
              config.plugins[i].request_timeout \subseteq Int
    BY ConfigTyped
  <1>3. DocumentedLimits = IF own # {} THEN own ELSE IF common # {} THEN common ELSE {0}
    BY DEF DocumentedLimits
  <1>4. limit = IF key \in DOMAIN Held THEN Held[key] ELSE settings.itsRequestTimeout
    <2> HIDE DEF Held
    <2> QED BY <1>1 DEF getRequestTimeout
  <1>5. /\ \A name \in DOMAIN Held :
              \E i \in 1 .. Len(config.plugins) :
                  Lower(config.plugins[i].name) = name /\ Held[name] \in limits[i]
        /\ \A i \in 1 .. Len(config.plugins) :
              Lower(config.plugins[i].name) \notin DOMAIN Held => limits[i] = {}
    <2> HIDE DEF limits
    <2> QED BY <1>2, ByPluginHolds, Zenon
  <1>6. ASSUME NEW i \in 1 .. Len(config.plugins)
        PROVE  limits[i] = {v \in config.plugins[i].request_timeout : v >= 0}
    BY <1>2
  <1>7. CASE key \in DOMAIN Held
    <2>1. PICK i \in 1 .. Len(config.plugins) :
              Lower(config.plugins[i].name) = key /\ Held[key] \in limits[i]
      BY <1>5, <1>7, Zenon
    <2>2. limit \in config.plugins[i].request_timeout /\ limit >= 0
      <3>1. limit \in limits[i]
        <4> HIDE DEF limit, Held, limits
        <4> QED BY <1>4, <1>7, <2>1
      <3> HIDE DEF limit, limits
      <3> QED BY <1>6, <3>1
    <2>3. limit \in own
      <3>1. config.plugins[i].request_timeout \in OwnValues
        BY <2>1 DEF OwnValues
      <3> HIDE DEF limit
      <3> QED BY <2>2, <3>1
    <2>4. limit \in Int
      <3> HIDE DEF limit
      <3> QED BY <1>2, <2>2
    <2>5. QED
      <3> HIDE DEF limit, own, common
      <3> QED BY <1>3, <2>2, <2>3, <2>4
  <1>8. CASE key \notin DOMAIN Held
    <2>1. own = {}
      <3>1. SUFFICES ASSUME NEW i \in 1 .. Len(config.plugins),
                            Lower(config.plugins[i].name) = key,
                            NEW v \in config.plugins[i].request_timeout, v >= 0
                     PROVE  FALSE
        BY DEF OwnValues
      <3>2. limits[i] = {}
        <4> HIDE DEF limits, Held
        <4> QED BY <1>5, <1>8, <3>1
      <3>3. v \in limits[i]
        <4> HIDE DEF limits
        <4> QED BY <1>6, <3>1
      <3>4. QED
        <4> HIDE DEF limits
        <4> QED BY <3>2, <3>3
    <2>2. \/ limit \in config.request_timeout /\ limit \in Int /\ limit >= 0
          \/ limit = 0 /\ \A w \in config.request_timeout : ~(w >= 0)
      <3>1. limit = Accept(config.request_timeout, 0, 0)
        <4> HIDE DEF limit, Held
        <4> QED BY <1>1, <1>4, <1>8
      <3> HIDE DEF limit
      <3> QED BY <1>2, <3>1, Accepted
    <2>3. limit \in common \/ (limit = 0 /\ common = {})
      <3> HIDE DEF limit
      <3> QED BY <2>2
    <2>4. QED
      <3> HIDE DEF limit, own, common
      <3> QED BY <1>3, <2>1, <2>2, <2>3
  <1>9. QED
    <2> HIDE DEF limit, Held
    <2> QED BY <1>7, <1>8

\* What is equal to a membership is a truth value.
LEMMA Membership ==
    ASSUME NEW S, NEW e, NEW x, x = (e \in S)
    PROVE  x \in BOOLEAN /\ (x <=> e \in S)
  <1>1. x \in BOOLEAN
    OBVIOUS
  <1>2. x <=> e \in S
    BY Zenon
  <1>3. QED
    BY <1>1, <1>2

\* Server::getCancelOnDisconnect is set only where the documentation says so.
LEMMA CancelDocumented ==
    ASSUME Set
    PROVE  LET cancel == getCancelOnDisconnect(settings, handler.plugin)
           IN  cancel \in BOOLEAN /\ (cancel => DocumentedCancel)
  <1> DEFINE cancels == [i \in DOMAIN config.plugins |->
                            config.plugins[i].cancel_on_disconnect]
             Held == ByPlugin(config.plugins, cancels)
             Own == {i \in 1 .. Len(config.plugins) :
                        Lower(config.plugins[i].name) = Lower(handler.plugin)}
             own == UNION {config.plugins[i].cancel_on_disconnect : i \in Own}
             key == Lower(handler.plugin)
             cancel == getCancelOnDisconnect(settings, handler.plugin)
  <1>0. SUFFICES cancel \in BOOLEAN /\ (cancel => DocumentedCancel)
    OBVIOUS
  <1>1. /\ settings.itsPluginCancelOnDisconnect = Held
        /\ settings.itsCancelOnDisconnect = (TRUE \in config.cancel_on_disconnect)
    BY DEF Set, Settings
  <1>2. /\ Len(config.plugins) \in Nat /\ DOMAIN config.plugins = 1 .. Len(config.plugins)
        /\ \A i \in 1 .. Len(config.plugins) :
              config.plugins[i].cancel_on_disconnect \subseteq BOOLEAN
    BY ConfigTyped
  <1>3. DocumentedCancel = IF own # {} THEN TRUE \in own
                           ELSE TRUE \in config.cancel_on_disconnect
    BY DEF DocumentedCancel
  <1>4. cancel = IF key \in DOMAIN Held THEN Held[key] ELSE settings.itsCancelOnDisconnect
    <2> HIDE DEF Held
    <2> QED BY <1>1 DEF getCancelOnDisconnect
  <1>5. /\ \A name \in DOMAIN Held :
              \E i \in 1 .. Len(config.plugins) :
                  Lower(config.plugins[i].name) = name /\ Held[name] \in cancels[i]
        /\ \A i \in 1 .. Len(config.plugins) :
              Lower(config.plugins[i].name) \notin DOMAIN Held => cancels[i] = {}
    <2> HIDE DEF cancels
    <2> QED BY <1>2, ByPluginHolds, Zenon
  <1>6. \A i \in 1 .. Len(config.plugins) :
            cancels[i] = config.plugins[i].cancel_on_disconnect
    BY <1>2
  <1>7. CASE key \in DOMAIN Held
    <2>1. PICK i \in 1 .. Len(config.plugins) :
              Lower(config.plugins[i].name) = key /\ Held[key] \in cancels[i]
      BY <1>5, <1>7, Zenon
    <2>2. cancel \in config.plugins[i].cancel_on_disconnect
      <3> HIDE DEF cancel, Held, cancels
      <3> QED BY <1>4, <1>6, <1>7, <2>1
    <2>3. cancel \in own
      <3> HIDE DEF cancel
      <3> QED BY <2>1, <2>2
    <2>4. cancel \in BOOLEAN
      <3> HIDE DEF cancel
      <3> QED BY <1>2, <2>2
    <2>5. cancel => TRUE \in own
      <3>1. cancel => cancel = TRUE
        <4> HIDE DEF cancel
        <4> QED BY <2>4
      <3> HIDE DEF cancel, own
      <3> QED BY <2>3, <3>1
    <2>6. QED
      <3> HIDE DEF cancel, own
      <3> QED BY <1>3, <2>3, <2>4, <2>5
  <1>8. CASE key \notin DOMAIN Held
    <2>1. own = {}
      <3>1. \A i \in Own : config.plugins[i].cancel_on_disconnect = {}
        <4> HIDE DEF cancels, Held
        <4> QED BY <1>5, <1>6, <1>8
      <3> HIDE DEF Own
      <3> QED BY <3>1
    <2>2. cancel = (TRUE \in config.cancel_on_disconnect)
      <3> HIDE DEF cancel, Held
      <3> QED BY <1>1, <1>4, <1>8
    <2>3. cancel \in BOOLEAN /\ (cancel <=> TRUE \in config.cancel_on_disconnect)
      <3> HIDE DEF cancel
      <3> QED BY <2>2, Membership, Zenon
    <2>4. QED
      <3> HIDE DEF cancel, own
      <3> QED BY <1>3, <2>1, <2>3
  <1>9. QED
    <2> HIDE DEF cancel, Held
    <2> QED BY <1>7, <1>8

\* The settings are those given, where they make sense, or the defaults.
LEMMA SettingsAccepted == Set => LimitsAsConfigured
  <1> SUFFICES ASSUME Set PROVE LimitsAsConfigured
    OBVIOUS
  <1>1. /\ settings.itsKeepAliveTimeout = Accept(config.keepalive_timeout, 1, 30)
        /\ settings.itsMaxKeepAliveRequests = Accept(config.keepalive_maxrequests, 0, 1000)
        /\ settings.itsMaxConnections =
              Accept(config.maxconnections, 0, defaultMaxConnections(config.rlimit))
        /\ settings.itsMaxHeaderSize = Accept(config.maxheadersize, 0, 16384)
        /\ settings.itsRequestTimeout = Accept(config.request_timeout, 0, 0)
        /\ settings.numThreads = Accept(config.server_threads, 1, 6)
    BY DEF Set, Settings, get_server_threads
  <1>2. settings.itsKeepAliveTimeout > 0 /\ settings.numThreads > 0
    BY <1>1, ConfigTyped DEF Accept
  <1>3. /\ settings.itsMaxKeepAliveRequests \in config.keepalive_maxrequests \cup {1000}
        /\ settings.itsMaxKeepAliveRequests \in Nat
    BY <1>1, ConfigTyped DEF Accept
  <1>4. /\ settings.itsMaxHeaderSize \in config.maxheadersize \cup {16384}
        /\ settings.itsMaxHeaderSize \in Nat
    BY <1>1, ConfigTyped DEF Accept
  <1>5. settings.itsRequestTimeout \in Nat
    BY <1>1, ConfigTyped DEF Accept
  <1>6. defaultMaxConnections(config.rlimit) \in Nat \ {0}
    <2>1. ASSUME config.rlimit # {}
          PROVE  (CHOOSE n \in config.rlimit : TRUE) \in Nat
      BY <2>1, ConfigTyped
    <2>2. \A n \in Nat : (n * 3) \div 4 \in Nat
      OBVIOUS
    <2>3. QED
      BY <2>1, <2>2 DEF defaultMaxConnections
  <1>7. /\ settings.itsMaxConnections \in Nat
        /\ settings.itsMaxConnections = 0 => 0 \in config.maxconnections
    BY <1>1, <1>6, ConfigTyped DEF Accept
  <1>8. getRequestTimeout(settings, handler.plugin) \in DocumentedLimits
    BY LimitDocumented, Zenon
  <1>9. QED
    BY <1>2, <1>3, <1>4, <1>5, <1>7, <1>8 DEF LimitsAsConfigured

-----------------------------------------------------------------------------
(* The invariant.                                                          *)

Called == {"handling", "returned", "settled"}

\* A request has its descriptor from its call until its reply is chosen; before the call
\* there is no token, nobody to ask it, and no reply unless the timer has closed the socket.
PhaseInv ==
    /\ phase \in {"handling", "returned"} => fd = "own"
    /\ phase \notin Called =>
          /\ token = NoToken /\ ~watcher /\ ~replaced
          /\ reply = "none" \/ (reply = "request_timeout" /\ fd # "own")
    /\ phase = "handling" => ~replaced /\ reply = "none"
    /\ phase = "returned" => reply \in {"none", "bad_request"}

\* A token has the limit of its own plugin, and the probe that is configured for it.
TokenInv ==
    /\ token.deadline > 0 =>
          /\ ~itsAdminQuery /\ ~handler.catchNoMatch
          /\ token.deadline - started \in DocumentedLimits
    /\ token.probe => DocumentedCancel

\* The reason a token has was true when it was found, and still is.
ReasonInv ==
    /\ token.reason = "TimedOut" => token.deadline > 0 /\ now >= token.deadline
    /\ DisconnectIsOwnClients
    /\ replaced => token.reason # "none"
    /\ AbandonedOnlyIfLeft

CallInv == TypeOK /\ Set /\ PhaseInv /\ TokenInv /\ ReasonInv

LEMMA InitCall == Init => CallInv
  <1> SUFFICES ASSUME Init PROVE CallInv
    OBVIOUS
  <1>1. TypeOK
    <2>1. NoToken \in [deadline : Nat, probe : BOOLEAN, reason : Reasons]
      BY Zenon DEF NoToken, Reasons
    <2>2. token \in [deadline : Nat, probe : BOOLEAN, reason : Reasons] /\ token.deadline = 0
      BY <2>1 DEF Init, NoToken
    <2>3. QED
      <3>1. config \in Configs /\ handler \in Handlers
        BY DEF Init
      <3>2. now \in 0 .. MaxTime /\ started \in 0 .. now
        BY PluginCallAssumption DEF Init
      <3>3. {replaced, watcher, stranger} \subseteq BOOLEAN
        BY DEF Init
      <3>4. QED
        BY <2>2, <3>1, <3>2, <3>3 DEF Init, TypeOK
  <1>2. Set /\ PhaseInv /\ TokenInv /\ ReasonInv
    BY DEF Init, Set, PhaseInv, TokenInv, ReasonInv, NoToken, Called, DisconnectIsOwnClients,
           AbandonedOnlyIfLeft
  <1>3. QED
    BY <1>1, <1>2 DEF CallInv

\* The token that a pool thread makes.
LEMMA TokenMade ==
    ASSUME CallInv
    PROVE  LET t == createCancellationToken(now)
           IN  /\ t.deadline \in Nat /\ t.probe \in BOOLEAN /\ t.reason = "none"
               /\ t \in [deadline : Nat, probe : BOOLEAN, reason : Reasons]
               /\ t.deadline > 0 =>
                     /\ ~itsAdminQuery /\ ~handler.catchNoMatch /\ t.deadline > now
                     /\ t.deadline - now \in DocumentedLimits
               /\ t.probe => DocumentedCancel
  <1> DEFINE t == createCancellationToken(now)
             own == getRequestTimeout(settings, handler.plugin)
             cancel == getCancelOnDisconnect(settings, handler.plugin)
  <1>1. own \in Nat /\ own \in DocumentedLimits
    <2>1. Set
      BY DEF CallInv
    <2>2. QED
      BY <2>1, LimitDocumented, Zenon
  <1>2. cancel \in BOOLEAN /\ (cancel => DocumentedCancel)
    <2>1. Set
      BY DEF CallInv
    <2>2. QED
      BY <2>1, CancelDocumented, Zenon
  <1>3. now \in Nat
    BY PluginCallAssumption DEF CallInv, TypeOK
  <1>4. t = [deadline |-> IF Limit > 0 THEN now + Limit ELSE 0, probe |-> cancel,
             reason |-> "none"]
    BY Zenon DEF createCancellationToken
  <1>5. Limit = IF ~itsAdminQuery /\ ~handler.catchNoMatch THEN own ELSE 0
    BY Zenon DEF Limit
  <1>6. Limit \in Nat
    <2> HIDE DEF own
    <2> QED BY <1>1, <1>5
  <1>7. t.deadline = (IF Limit > 0 THEN now + Limit ELSE 0) /\ t.probe = cancel
        /\ t.reason = "none"
    <2> HIDE DEF t, cancel
    <2> QED BY <1>4
  <1>8. t.deadline \in Nat /\ t.probe \in BOOLEAN
    <2> HIDE DEF t, cancel
    <2> QED BY <1>2, <1>3, <1>6, <1>7
  <1>9. t \in [deadline : Nat, probe : BOOLEAN, reason : Reasons]
    <2>1. t = [deadline |-> t.deadline, probe |-> t.probe, reason |-> "none"]
      <3> HIDE DEF t, cancel
      <3> QED BY <1>4
    <2>2. "none" \in Reasons
      BY DEF Reasons
    <2>3. QED
      <3>1. \A d, p, r : d \in Nat /\ p \in BOOLEAN /\ r \in Reasons =>
                [deadline |-> d, probe |-> p, reason |-> r]
                    \in [deadline : Nat, probe : BOOLEAN, reason : Reasons]
        BY Zenon
      <3> HIDE DEF t, cancel
      <3> QED BY <1>8, <2>1, <2>2, <3>1
  <1>10. t.deadline > 0 =>
            /\ ~itsAdminQuery /\ ~handler.catchNoMatch /\ t.deadline > now
            /\ t.deadline - now \in DocumentedLimits
    <2>1. t.deadline > 0 => t.deadline = now + Limit /\ Limit > 0
      <3> HIDE DEF t
      <3> QED BY <1>7
    <2>2. Limit > 0 => ~itsAdminQuery /\ ~handler.catchNoMatch /\ Limit = own
      <3> HIDE DEF own
      <3> QED BY <1>5
    <2>3. QED
      <3> HIDE DEF t, own
      <3>1. t.deadline > 0 => t.deadline - now = own /\ t.deadline > now
        BY <1>3, <1>6, <2>1, <2>2
      <3>2. QED
        BY <1>1, <1>6, <2>1, <2>2, <3>1
  <1>11. t.probe => DocumentedCancel
    <2> HIDE DEF t, cancel
    <2> QED BY <1>2, <1>7
  <1>12. QED
    BY <1>7, <1>8, <1>9, <1>10, <1>11, Zenon

\* Neither configuration nor handler changes, nor what is documented about them.
LEMMA SetStays ==
    ASSUME UNCHANGED setup
    PROVE  /\ Set => Set'
           /\ DocumentedLimits' = DocumentedLimits /\ (DocumentedCancel' <=> DocumentedCancel)
           /\ config' = config /\ handler' = handler
  BY DEF setup, Set, DocumentedLimits, DocumentedCancel, OwnValues

\* Ask leaves what the token was made of, and keeps the first reason found.
LEMMA Asked ==
    ASSUME TypeOK, Ask
    PROVE  /\ token' \in [deadline : Nat, probe : BOOLEAN, reason : Reasons]
           /\ token'.deadline = token.deadline /\ token'.probe = token.probe
           /\ \/ token'.reason = token.reason
              \/ /\ token.reason = "none" /\ token'.reason = "TimedOut"
                 /\ token.deadline > 0 /\ now >= token.deadline
              \/ token.reason = "none" /\ token'.reason = "Disconnected" /\ probe
  <1>1. /\ token \in [deadline : Nat, probe : BOOLEAN, reason : Reasons]
        /\ token.deadline \in Nat /\ token.probe \in BOOLEAN /\ token.reason \in Reasons
    BY DEF TypeOK
  <1>2. \E r \in Reasons :
            /\ token' = [token EXCEPT !.reason = r]
            /\ \/ r = token.reason
               \/ /\ token.reason = "none" /\ r = "TimedOut"
                  /\ token.deadline > 0 /\ now >= token.deadline
               \/ token.reason = "none" /\ r = "Disconnected" /\ probe
    <2>1. CASE token.reason # "none"
      <3>1. token = [token EXCEPT !.reason = token.reason]
        BY <1>1
      <3>2. token' = token
        BY <2>1 DEF Ask
      <3>3. QED
        BY <1>1, <3>1, <3>2
    <2>2. CASE token.reason = "none"
      <3>1. token' = [token EXCEPT !.reason =
                         CASE token.deadline > 0 /\ now >= token.deadline -> "TimedOut"
                           [] ~(token.deadline > 0 /\ now >= token.deadline) /\ probe
                                  -> "Disconnected"
                           [] OTHER -> "none"]
        BY <2>2 DEF Ask
      <3>2. {"none", "TimedOut", "Disconnected"} \subseteq Reasons
        BY DEF Reasons
      <3>3. CASE token.deadline > 0 /\ now >= token.deadline
        BY <2>2, <3>1, <3>2, <3>3
      <3>4. CASE ~(token.deadline > 0 /\ now >= token.deadline) /\ probe
        BY <2>2, <3>1, <3>2, <3>4
      <3>5. CASE ~(token.deadline > 0 /\ now >= token.deadline) /\ ~probe
        BY <2>2, <3>1, <3>2, <3>5
      <3>6. QED
        BY <3>3, <3>4, <3>5
    <2>3. QED
      BY <2>1, <2>2
  <1>3. PICK r \in Reasons :
            /\ token' = [token EXCEPT !.reason = r]
            /\ \/ r = token.reason
               \/ /\ token.reason = "none" /\ r = "TimedOut"
                  /\ token.deadline > 0 /\ now >= token.deadline
               \/ token.reason = "none" /\ r = "Disconnected" /\ probe
    BY <1>2
  <1>4. token'.deadline = token.deadline /\ token'.probe = token.probe /\ token'.reason = r
    BY <1>1, <1>3
  <1>5. token' \in [deadline : Nat, probe : BOOLEAN, reason : Reasons]
    BY <1>1, <1>3, Zenon
  <1>6. QED
    BY <1>3, <1>4, <1>5

\* A request that is refused or dropped was not called.
LEMMA ChooseStep ==
    ASSUME CallInv, handleParsedRequest \/ scheduleRequest \/ handleCompletedRead_Closed
    PROVE  CallInv'
  <1> USE DEF CallInv
  <1>1. /\ UNCHANGED <<setup, now, started, token, replaced, watcher, outside>>
        /\ phase \notin Called /\ token = NoToken
        /\ phase' \in {"chosen", "queued", "settled"}
        /\ \/ UNCHANGED reply
           \/ phase' = "settled" /\ reply' \in {"high_load", "service_unavailable"}
    BY DEF handleParsedRequest, scheduleRequest, handleCompletedRead_Closed, Refuse, PhaseInv,
           Called
  <1>2. pool' \in {"none", "admin", "slow", "fast"} /\ itsAdminQuery' \in BOOLEAN
    BY PluginCallAssumption
    DEF TypeOK, handleParsedRequest, scheduleRequest, handleCompletedRead_Closed, PoolOf
  <1>3. TypeOK'
    BY <1>1, <1>2 DEF TypeOK, setup, outside
  <1>4. PhaseInv'
    BY <1>1 DEF PhaseInv, Called, outside
  <1>5. TokenInv' /\ ReasonInv'
    BY <1>1, SetStays
    DEF TokenInv, ReasonInv, NoToken, PhaseInv, DisconnectIsOwnClients, AbandonedOnlyIfLeft,
        outside
  <1>6. QED
    BY <1>1, <1>3, <1>4, <1>5, SetStays

\* The timer closes the socket of a request that has not been called.
LEMMA TimerStep ==
    ASSUME CallInv, handleTimer
    PROVE  CallInv'
  <1> USE DEF CallInv
  <1>1. /\ UNCHANGED <<setup, phase, pool, itsAdminQuery, now, started, token, replaced,
                       watcher, client, connection, stranger>>
        /\ phase \notin Called /\ token = NoToken
        /\ reply' = "request_timeout" /\ fd' = "free"
    BY DEF handleTimer, PhaseInv, Called
  <1>2. TypeOK'
    BY <1>1 DEF TypeOK, setup
  <1>3. PhaseInv'
    BY <1>1 DEF PhaseInv, Called
  <1>4. TokenInv' /\ ReasonInv'
    BY <1>1, SetStays
    DEF TokenInv, ReasonInv, NoToken, PhaseInv, DisconnectIsOwnClients, AbandonedOnlyIfLeft
  <1>5. QED
    BY <1>1, <1>2, <1>3, <1>4, SetStays

\* The token of the call has no reason yet.
LEMMA CallStep ==
    ASSUME CallInv, handleCompletedRead
    PROVE  CallInv'
  <1> DEFINE t == createCancellationToken(now)
  <1>1. /\ UNCHANGED <<setup, pool, itsAdminQuery, now, replaced, reply, outside>>
        /\ phase = "queued" /\ fd = "own"
        /\ phase' = "handling" /\ started' = now /\ watcher' = TRUE
        /\ token' = t
    BY DEF handleCompletedRead
  <1>2. /\ t \in [deadline : Nat, probe : BOOLEAN, reason : Reasons] /\ t.reason = "none"
        /\ t.deadline > 0 =>
              /\ ~itsAdminQuery /\ ~handler.catchNoMatch /\ t.deadline > now
              /\ t.deadline - now \in DocumentedLimits
        /\ t.probe => DocumentedCancel
    BY TokenMade, Zenon
  <1> HIDE DEF t
  <1>3. TypeOK'
    BY <1>1, <1>2 DEF CallInv, TypeOK, setup, outside
  <1>4. PhaseInv'
    BY <1>1 DEF CallInv, PhaseInv, Called, outside
  <1>5. TokenInv'
    BY <1>1, <1>2, SetStays DEF TokenInv
  <1>6. ReasonInv'
    BY <1>1, <1>2
    DEF CallInv, ReasonInv, PhaseInv, Called, DisconnectIsOwnClients, AbandonedOnlyIfLeft
  <1>7. QED
    BY <1>1, <1>3, <1>4, <1>5, <1>6, SetStays DEF CallInv

\* What the token finds before the reply is chosen is true now: its own descriptor is looked
\* at.
LEMMA AskStep ==
    ASSUME CallInv, pluginAsks \/ watcherAsks
    PROVE  CallInv'
  <1>1. /\ UNCHANGED <<setup, phase, pool, itsAdminQuery, now, started, replaced, reply,
                       watcher, outside>>
        /\ Ask /\ phase \in Called
    BY DEF pluginAsks, watcherAsks, Called, CallInv, PhaseInv
  <1>2. /\ token' \in [deadline : Nat, probe : BOOLEAN, reason : Reasons]
        /\ token'.deadline = token.deadline /\ token'.probe = token.probe
        /\ \/ token'.reason = token.reason
           \/ /\ token.reason = "none" /\ token'.reason = "TimedOut"
              /\ token.deadline > 0 /\ now >= token.deadline
           \/ token.reason = "none" /\ token'.reason = "Disconnected" /\ probe
    BY <1>1, Asked DEF CallInv
  <1>3. TypeOK'
    BY <1>1, <1>2 DEF CallInv, TypeOK, setup, outside
  <1>4. PhaseInv'
    BY <1>1 DEF CallInv, PhaseInv, outside, Called
  <1>5. TokenInv'
    BY <1>1, <1>2, SetStays DEF CallInv, TokenInv
  <1>6. /\ probe => DocumentedCancel
        /\ probe /\ phase \in {"handling", "returned"} => client # "open"
    BY DEF probe, clientHasDisconnected, CallInv, PhaseInv, TokenInv
  <1>7. ReasonInv'
    BY <1>1, <1>2, <1>6, SetStays
    DEF CallInv, ReasonInv, DisconnectIsOwnClients, AbandonedOnlyIfLeft, outside
  <1>8. QED
    BY <1>1, <1>3, <1>4, <1>5, <1>7, SetStays DEF CallInv

\* The plugin's return and the choice of the reply.
LEMMA ReturnStep ==
    ASSUME CallInv, handlerReturns \/ afterHandle
    PROVE  CallInv'
  <1>1. /\ UNCHANGED <<setup, pool, itsAdminQuery, now, started, token, watcher, outside>>
        /\ phase \in Called /\ phase' \in {"returned", "settled"}
    BY DEF handlerReturns, afterHandle, Called
  <1>2. CASE handlerReturns
    <2>1. /\ phase' = "returned" /\ reply = "none" /\ reply' \in {"none", "bad_request"}
          /\ replaced' \in BOOLEAN /\ (replaced' => token.reason # "none")
      <3>1. replaced' = (token.reason # "none")
        BY <1>2 DEF handlerReturns
      <3>2. replaced' \in BOOLEAN /\ (replaced' => token.reason # "none")
        <4>1. CASE token.reason = "none"
          BY <3>1, <4>1
        <4>2. CASE token.reason # "none"
          BY <3>1, <4>2
        <4>3. QED
          BY <4>1, <4>2
      <3>3. QED
        BY <1>2, <3>2 DEF handlerReturns, CallInv, PhaseInv
    <2>2. TypeOK'
      BY <1>1, <2>1 DEF CallInv, TypeOK, setup, outside
    <2>3. PhaseInv' /\ TokenInv'
      BY <1>1, <1>2, <2>1, SetStays
      DEF handlerReturns, CallInv, PhaseInv, TokenInv, outside, Called
    <2>4. ReasonInv'
      BY <1>1, <1>2, <2>1, SetStays
      DEF handlerReturns, CallInv, ReasonInv, DisconnectIsOwnClients, AbandonedOnlyIfLeft,
          outside
    <2>5. QED
      BY <1>1, <2>2, <2>3, <2>4, SetStays DEF CallInv
  <1>3. CASE afterHandle
    <2>1. /\ phase = "returned" /\ phase' = "settled" /\ replaced' = replaced
          /\ \/ token.reason = "Disconnected" /\ reply' = "abandoned"
             \/ reply' = "bad_request" \/ reply' = "answered"
             \/ token.reason # "Disconnected" /\ replaced /\ reply' = "cancelled"
      BY <1>3 DEF afterHandle, CallInv, PhaseInv
    <2>2. TypeOK'
      BY <1>1, <2>1 DEF CallInv, TypeOK, setup, outside
    <2>3. PhaseInv' /\ TokenInv'
      BY <1>1, <2>1, SetStays DEF CallInv, PhaseInv, TokenInv, outside, Called
    <2>4. token.reason \in Reasons
      BY DEF CallInv, TypeOK
    <2>5. ReasonInv'
      BY <1>1, <2>1, <2>4, SetStays
      DEF CallInv, ReasonInv, DisconnectIsOwnClients, AbandonedOnlyIfLeft, outside, Reasons
    <2>6. QED
      BY <1>1, <2>2, <2>3, <2>5, SetStays DEF CallInv
  <1>4. QED
    BY <1>2, <1>3

\* What the watcher, the environment and the end of the connection change.
LEMMA OutsideStep ==
    ASSUME CallInv,
           \/ watcherLetsGo \/ closeSocket \/ destroy \/ clientCloses \/ strangerConnects
           \/ strangerLeaves \/ tick \/ UNCHANGED vars
    PROVE  CallInv'
  <1>1. /\ UNCHANGED <<setup, phase, pool, itsAdminQuery, started, token, replaced, reply>>
        /\ now' = now \/ (now < MaxTime /\ now' = now + 1)
        /\ watcher' = watcher \/ watcher' = FALSE
        /\ stranger' = stranger \/ stranger' = TRUE
        /\ client' = client \/ client' \in {"half", "gone"}
        /\ connection' \in {connection, "destroyed"}
        /\ \/ fd' = fd
           \/ phase = "settled" /\ fd' = "free"
           \/ fd = "free" /\ fd' = "reused"
    BY DEF watcherLetsGo, closeSocket, destroy, clientCloses, strangerConnects,
           strangerLeaves, tick, vars,
           setup, outside
  <1>2. now' \in 0 .. MaxTime /\ now' >= now /\ started \in 0 .. now'
    BY <1>1, PluginCallAssumption DEF CallInv, TypeOK
  <1>3. TypeOK'
    <2>1. watcher' \in BOOLEAN /\ stranger' \in BOOLEAN /\ replaced' \in BOOLEAN
      BY <1>1 DEF CallInv, TypeOK
    <2>2. /\ client' \in {"open", "half", "gone"} /\ connection' \in {"alive", "destroyed"}
          /\ fd' \in {"own", "free", "reused"}
      BY <1>1 DEF CallInv, TypeOK
    <2>3. QED
      BY <1>1, <1>2, <2>1, <2>2 DEF CallInv, TypeOK, setup
  <1>4. PhaseInv'
    BY <1>1 DEF CallInv, PhaseInv, Called
  <1>5. TokenInv'
    BY <1>1, SetStays DEF CallInv, TokenInv
  <1>6. ReasonInv'
    <2>1. token.deadline \in Nat /\ now \in Nat /\ now' \in Nat
      BY <1>2, PluginCallAssumption DEF CallInv, TypeOK
    <2>2. QED
      BY <1>1, <1>2, <2>1, SetStays
      DEF CallInv, ReasonInv, DisconnectIsOwnClients, AbandonedOnlyIfLeft
  <1>7. QED
    BY <1>1, <1>3, <1>4, <1>5, <1>6, SetStays DEF CallInv

LEMMA StepCall == CallInv /\ [Next]_vars => CallInv'
  <1> SUFFICES ASSUME CallInv, [Next]_vars PROVE CallInv'
    OBVIOUS
  <1>1. CASE handleParsedRequest \/ scheduleRequest \/ handleCompletedRead_Closed
    BY <1>1, ChooseStep
  <1>2. CASE handleCompletedRead
    BY <1>2, CallStep
  <1>3. CASE pluginAsks \/ watcherAsks
    BY <1>3, AskStep
  <1>4. CASE handlerReturns \/ afterHandle
    BY <1>4, ReturnStep
  <1>5. CASE \/ watcherLetsGo \/ closeSocket \/ destroy \/ clientCloses
             \/ strangerConnects \/ strangerLeaves \/ tick \/ UNCHANGED vars
    BY <1>5, OutsideStep
  <1>6. CASE Waiting
    BY <1>6, OutsideStep DEF Waiting
  <1>7. CASE handleTimer
    BY <1>7, TimerStep
  <1>8. QED
    BY <1>1, <1>2, <1>3, <1>4, <1>5, <1>6, <1>7 DEF Next, Server

\* A token that finds a client gone looks at its own socket, or at one that its connection
\* has closed after the reply.
LEMMA FindStep == CallInv /\ [Next]_vars => [FoundGoneRightly]_vars
  <1> SUFFICES ASSUME CallInv, Next, FoundGone
               PROVE  client # "open" \/ (phase = "settled" /\ connection = "alive"
                                              /\ fd # "own")
    BY DEF FoundGoneRightly, FoundGone, vars
  <1>1. token.reason # "Disconnected" /\ token'.reason = "Disconnected"
    BY DEF FoundGone
  <1>2. CASE pluginAsks \/ watcherAsks
    <2>1. Ask /\ phase \in Called /\ TypeOK
      BY <1>2 DEF pluginAsks, watcherAsks, Called, CallInv, PhaseInv
    <2>2. probe
      BY <1>1, <2>1, Asked
    <2>3. connection = "alive" /\ (fd = "own" => client # "open")
      BY <2>2 DEF probe, clientHasDisconnected
    <2>4. fd # "own" => phase = "settled"
      BY <2>1 DEF CallInv, PhaseInv, Called
    <2>5. QED
      BY <2>3, <2>4
  <1>3. CASE handleCompletedRead
    <2>1. createCancellationToken(now).reason = "none"
      BY TokenMade, Zenon
    <2>2. token' = createCancellationToken(now)
      BY <1>3 DEF handleCompletedRead
    <2>3. QED
      BY <1>1, <2>1, <2>2
  <1>4. CASE token' = token
    BY <1>1, <1>4
  <1>5. QED
    BY <1>2, <1>3, <1>4
    DEF Next, Server, handleParsedRequest, scheduleRequest, handleCompletedRead_Closed,
        handlerReturns, afterHandle, handleTimer, closeSocket, destroy, watcherLetsGo,
        clientCloses, strangerConnects, strangerLeaves, tick, Waiting, vars

-----------------------------------------------------------------------------
(* The theorems.                                                           *)

\* The inductive invariant holds in every behaviour.
THEOREM Invariance == Spec => []CallInv
  <1>1. QED
    BY InitCall, StepCall, PTL DEF Spec

\* Every variable keeps its type, and a limit never ends before the call begins.
THEOREM TypeCorrectness == Spec => []TypeOK
  <1>1. CallInv => TypeOK
    BY DEF CallInv
  <1>2. QED
    BY <1>1, Invariance, PTL

\* createCancellationToken and handleCompletedRead: a request is cut off only past its own
\* plugin's limit or because its own client has closed, and is left without a reply only
\* then, although the timer and the reply close the socket under a connection that lives on;
\* no token looks at the descriptor once the connection is gone.
THEOREM EndsRight == Spec => EndsForOwnReason
  <1>1. CallInv => TypeOK /\ CancelledOnlyPastLimit /\ DisconnectIsOwnClients
                     /\ AbandonedOnlyIfLeft
    <2>1. SUFFICES ASSUME CallInv PROVE CancelledOnlyPastLimit
      BY DEF CallInv, ReasonInv
    <2>2. SUFFICES ASSUME token.reason = "TimedOut" PROVE CancelledOnlyPastLimit
      BY DEF CancelledOnlyPastLimit
    <2>3. /\ token.deadline > 0 /\ now >= token.deadline
          /\ ~itsAdminQuery /\ ~handler.catchNoMatch
          /\ token.deadline - started \in DocumentedLimits
      <3>1. token.deadline > 0 /\ now >= token.deadline
        BY <2>1, <2>2 DEF CallInv, ReasonInv
      <3>2. QED
        BY <2>1, <3>1 DEF CallInv, TokenInv
    <2>4. /\ token.deadline - started > 0 /\ now - started >= token.deadline - started
      BY <2>1, <2>3, PluginCallAssumption DEF CallInv, TypeOK
    <2>5. QED
      BY <2>3, <2>4 DEF CancelledOnlyPastLimit
  <1>2. QED
    BY <1>1, FindStep, Invariance, PTL DEF Spec, EndsForOwnReason

\* Server::Server and getRequestTimeout: whatever is written in the file, what has no meaning
\* leaves the default of a setting, and the limit of a plugin is one that its own sections
\* give, however they are spelled and repeated, else the common one.
THEOREM LimitsTaken == Spec => []LimitsAsConfigured
  <1>1. CallInv => LimitsAsConfigured
    BY SettingsAccepted DEF CallInv
  <1>2. QED
    BY <1>1, Invariance, PTL

=============================================================================
