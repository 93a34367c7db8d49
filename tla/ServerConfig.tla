------------------------------ MODULE ServerConfig ------------------------------
(***************************************************************************)
(* The settings of the server: the constructor and the getters of          *)
(* source/Server.cpp, get_server_threads of main/smartmetd.cpp.            *)
(*                                                                         *)
(* A raw setting is the set of its values in the configuration file: empty *)
(* when it is missing, or of a type that the lookup does not take, else    *)
(* with one element.  The plugins are a sequence of their sections, in the *)
(* order of the file; names that differ in case are different sections.    *)
(***************************************************************************)
EXTENDS Integers, Sequences

CONSTANTS Lower(_)      \* Fmi::ascii_tolower_copy

\* A configuration file as libconfig reads it.
IsConfig(c) ==
    /\ UNION {c.keepalive_timeout, c.keepalive_maxrequests, c.maxconnections,
              c.maxheadersize, c.request_timeout, c.server_threads, c.logmemoryuse}
          \subseteq Int
    /\ c.rlimit \subseteq Nat /\ c.cancel_on_disconnect \subseteq BOOLEAN
    /\ c.plugins \in Seq({c.plugins[i] : i \in DOMAIN c.plugins})
    /\ \A i \in DOMAIN c.plugins : /\ c.plugins[i].request_timeout \subseteq Int
                                   /\ c.plugins[i].cancel_on_disconnect \subseteq BOOLEAN
    /\ {c.adminpool, c.slowpool, c.fastpool} \subseteq Nat

\* The value given if it is acceptable, else the default.
Accept_Unchecked(raw, least, default) == IF raw = {} THEN default ELSE CHOOSE v \in raw : TRUE
Accept(raw, least, default) ==
    IF \E v \in raw : v >= least THEN CHOOSE v \in raw : v >= least ELSE default

defaultMaxConnections(rlimit) ==
    IF rlimit = {} THEN 4000
    ELSE LET part == ((CHOOSE n \in rlimit : TRUE) * 3) \div 4 IN IF part > 64 THEN part ELSE 64

get_server_threads(config) == Accept(config.server_threads, 1, 6)

\* The lookup of an unsigned setting makes 0 of a negative value.
logMemoryPeriod(config) == Accept(config.logmemoryuse, 0, 0)

\* A plugin's valid settings by its name in lower case: a later section of the same name
\* replaces an earlier one.
ByPlugin(sections, values) ==
    LET Valid == {i \in 1 .. Len(sections) : values[i] # {}}
        Name(i) == Lower(sections[i].name)
        Last(n) == CHOOSE i \in Valid : /\ Name(i) = n
                                        /\ \A j \in Valid : Name(j) = n => j <= i
    IN  [n \in {Name(i) : i \in Valid} |->
            CHOOSE v \in values[Last(n)] : TRUE]

\* Server::Server
Settings(config) ==
    LET Sections == DOMAIN config.plugins
        limits  == [i \in Sections |-> {v \in config.plugins[i].request_timeout : v >= 0}]
        cancels == [i \in Sections |-> config.plugins[i].cancel_on_disconnect]
    IN
    [itsKeepAliveTimeout     |-> Accept(config.keepalive_timeout, 1, 30),
     itsMaxKeepAliveRequests |-> Accept(config.keepalive_maxrequests, 0, 1000),
     itsMaxConnections       |-> Accept(config.maxconnections, 0,
                                        defaultMaxConnections(config.rlimit)),
     itsMaxHeaderSize        |-> Accept(config.maxheadersize, 0, 16384),
     itsRequestTimeout       |-> Accept(config.request_timeout, 0, 0),
     itsCancelOnDisconnect   |-> TRUE \in config.cancel_on_disconnect,
     itsPluginRequestTimeouts    |-> ByPlugin(config.plugins, limits),
     itsPluginCancelOnDisconnect |-> ByPlugin(config.plugins, cancels),
     adminThreads |-> config.adminpool, slowThreads |-> config.slowpool,
     fastThreads  |-> config.fastpool,
     numThreads   |-> get_server_threads(config),
     itsMemoryLogPeriod |-> logMemoryPeriod(config)]

getRequestTimeout_ZeroFallsThrough(s, plugin) ==
    LET limits == s.itsPluginRequestTimeouts
    IN  IF Lower(plugin) \in DOMAIN limits /\ limits[Lower(plugin)] > 0
        THEN limits[Lower(plugin)] ELSE s.itsRequestTimeout
getRequestTimeout(s, plugin) ==
    IF Lower(plugin) \in DOMAIN s.itsPluginRequestTimeouts
    THEN s.itsPluginRequestTimeouts[Lower(plugin)] ELSE s.itsRequestTimeout

getCancelOnDisconnect(s, plugin) ==
    IF Lower(plugin) \in DOMAIN s.itsPluginCancelOnDisconnect
    THEN s.itsPluginCancelOnDisconnect[Lower(plugin)] ELSE s.itsCancelOnDisconnect

=============================================================================
