----------------------------- MODULE MCPluginCall ------------------------------
(* PluginCall for TLC: every kind of handler, and configuration files that   *)
(* differ in the limits, their plugin sections and the sizes of the pools.   *)
EXTENDS PluginCall

MCLower(name) == IF name = "EDR" THEN "edr" ELSE name

View(plugin, catchNoMatch, admin, fast) ==
    [plugin |-> plugin, catchNoMatch |-> catchNoMatch, admin |-> admin, fast |-> fast]

MCHandlers == {View("EDR", FALSE, FALSE, FALSE), View("edr", FALSE, FALSE, TRUE),
               View("admin", FALSE, TRUE, FALSE), View("frontend", TRUE, FALSE, FALSE)}

Section(name, limit, cancel) ==
    [name |-> name, request_timeout |-> limit, cancel_on_disconnect |-> cancel]

Plain == [keepalive_timeout |-> {}, keepalive_maxrequests |-> {}, maxconnections |-> {},
          rlimit |-> {1024}, maxheadersize |-> {}, request_timeout |-> {},
          cancel_on_disconnect |-> {}, plugins |-> << >>, server_threads |-> {},
          logmemoryuse |-> {}, adminpool |-> 1, slowpool |-> 1, fastpool |-> 1]

Wrong == [Plain EXCEPT !.keepalive_timeout = {0}, !.keepalive_maxrequests = {-1},
                       !.maxconnections = {-1}, !.rlimit = {20}, !.maxheadersize = {-1},
                       !.request_timeout = {-1}, !.server_threads = {0},
                       !.logmemoryuse = {-1}]
Lifted == [Plain EXCEPT !.keepalive_timeout = {5}, !.keepalive_maxrequests = {0},
                        !.maxconnections = {0}, !.rlimit = {}, !.maxheadersize = {0},
                        !.server_threads = {2}, !.logmemoryuse = {1}]

PluginSections ==
    {<< >>,
     <<Section("edr", {1}, {TRUE})>>,
     <<Section("EDR", {0}, {FALSE})>>,
     <<Section("edr", {-1}, {}), Section("frontend", {1}, {TRUE})>>,
     <<Section("edr", {}, {TRUE}), Section("EDR", {2}, {})>>}

MCConfigs ==
    {Wrong, Lifted}
    \cup {[Plain EXCEPT !.request_timeout = limit, !.cancel_on_disconnect = cancel,
                        !.plugins = sections, !.adminpool = threads, !.slowpool = threads] :
             limit \in {{}, {2}}, cancel \in {{}, {TRUE}},
             sections \in PluginSections, threads \in {0, 1}}
    \cup {[Plain EXCEPT !.request_timeout = {2}, !.adminpool = threads, !.slowpool = threads,
                        !.fastpool = 0] : threads \in {0, 1}}
=============================================================================
