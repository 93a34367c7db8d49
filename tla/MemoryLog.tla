------------------------------- MODULE MemoryLog -------------------------------
(***************************************************************************)
(* The periodic log of the memory use, source/Server.cpp: its settings,    *)
(* the timer, and the line that an io thread writes when it expires.  The  *)
(* kernel's status file and the statistics of jemalloc are external, and   *)
(* either may fail to be read at any time.                                 *)
(***************************************************************************)
EXTENDS Integers, SequencesExt, ShutdownRequest

CONSTANTS
    Settings,       \* pairs of logmemoryuse and logmemoryfields, each at most one value
    StatusFiles,    \* what /proc/self/status may hold: sequences of <<key, value>>
    Statistics,     \* what jemalloc may report: functions from statistics to amounts
    Failed          \* an amount that could not be read

ASSUME MemoryLogAssumption ==
    /\ \A s \in Settings : /\ DOMAIN s = {"logmemoryuse", "logmemoryfields"}
                          /\ \A f \in s.logmemoryfields : f \in Seq({f[i] : i \in DOMAIN f})
    /\ \A f \in StatusFiles : f \in Seq({f[i] : i \in DOMAIN f})
    /\ \A s \in Statistics : /\ {"stats.allocated", "stats.active"} \subseteq DOMAIN s
                            /\ \A n \in DOMAIN s : s[n] \in Nat \cup {Failed}
    /\ Failed \notin Nat

VARIABLES
    settings,
    handler,            \* "idle", "running" or "read": handleMemoryLogTimer in an io thread
    timer,              \* "off", "set" or "expired": itsMemoryLogTimer
    stopped,            \* itsIoService is stopped
    status, statistics, \* what can be read now; empty when it cannot
    line                \* the line that is written, empty when there is none

system == <<status, statistics>>
logVars == <<settings, handler, timer, itsShutdownRequested, stopped, system, line>>

itsMemoryLogPeriod ==
    IF settings.logmemoryuse = {} THEN 0 ELSE CHOOSE p \in settings.logmemoryuse : TRUE
itsMemoryLogFields ==
    IF settings.logmemoryfields = {} THEN <<"RssAnon", "RssFile">>
    ELSE CHOOSE f \in settings.logmemoryfields : TRUE

None == <<>>
Line(fields, jemalloc) == [fields |-> fields, jemalloc |-> jemalloc]

-----------------------------------------------------------------------------
(* The line.                                                               *)

\* The last line of the file with that key, and nothing for a field that it lacks.
valueOf(key) ==
    LET At == {i \in 1 .. Len(status) : status[i][1] = key}
    IN  IF At = {} THEN {} ELSE {status[CHOOSE i \in At : \A j \in At : j <= i][2]}

jemallocStat(name) ==
    IF name \in DOMAIN statistics /\ statistics[name] # Failed THEN statistics[name] ELSE 0

\* In thousandths, rounded down.
fragmentation_Unguarded(allocated, active) ==
    IF active = 0 THEN {} ELSE {(1000 * (active - allocated)) \div active}
fragmentation(allocated, active) ==
    IF active > 0 /\ active >= allocated
    THEN {(1000 * (active - allocated)) \div active} ELSE {}

appendJemallocStats_AllocatedUnchecked ==
    IF statistics = None THEN {}
    ELSE LET allocated == jemallocStat("stats.allocated")
             active    == jemallocStat("stats.active")
         IN  {[allocated |-> allocated, active |-> active,
               fragmentation |-> fragmentation(allocated, active)]}
\* jemalloc may be absent, or built without statistics.  The other amounts of the line
\* (resident, mapped, retained) are read and written as the active one.
appendJemallocStats ==
    IF statistics = None \/ statistics["stats.allocated"] = Failed THEN {}
    ELSE LET allocated == jemallocStat("stats.allocated")
             active    == jemallocStat("stats.active")
         IN  {[allocated |-> allocated, active |-> active,
               fragmentation |-> fragmentation(allocated, active)]}

fieldsOfFile == [i \in 1 .. Cardinality({k \in 1 .. Len(status) :
                                            status[k][1] \in ToSet(itsMemoryLogFields)}) |->
                    {SelectSeq(status, LAMBDA e : e[1] \in ToSet(itsMemoryLogFields))[i][2]}]
loggedFields == [i \in 1 .. Len(itsMemoryLogFields) |-> valueOf(itsMemoryLogFields[i])]

\* Nothing is written when the status file cannot be opened.
readAndLogMemoryUsage_FieldsOnly == line' = [fields |-> loggedFields]
readAndLogMemoryUsage ==
    line' = IF status = None THEN None ELSE Line(loggedFields, appendJemallocStats)

-----------------------------------------------------------------------------

LogTypeOK ==
    /\ settings \in Settings
    /\ handler \in {"idle", "running", "read"} /\ timer \in {"off", "set", "expired"}
    /\ itsShutdownRequested \in BOOLEAN /\ stopped \in BOOLEAN
    /\ status \in StatusFiles \cup {None} /\ statistics \in Statistics \cup {None}
    /\ line = None \/ DOMAIN line = {"fields", "jemalloc"}

\* The constructor of Server sets the timer the first time.
LogInit ==
    /\ settings \in Settings
    /\ handler = "idle" /\ line = None
    /\ timer = IF itsMemoryLogPeriod > 0 THEN "set" ELSE "off"
    /\ itsShutdownRequested = FALSE /\ stopped = FALSE
    /\ status \in StatusFiles \cup {None} /\ statistics \in Statistics \cup {None}

expire ==
    /\ timer = "set" /\ timer' = "expired"
    /\ UNCHANGED <<settings, handler, itsShutdownRequested, stopped, system, line>>

\* The handler runs unless the io_context is stopped.
enterHandler ==
    /\ ~stopped /\ timer = "expired" /\ handler = "idle"
    /\ timer' = "off"
    /\ handler' = IF itsShutdownRequested THEN "idle" ELSE "running"
    /\ UNCHANGED <<settings, itsShutdownRequested, stopped, system, line>>

\* An exception while the line is written is swallowed.
writeLine ==
    /\ handler = "running" /\ handler' = "read"
    /\ readAndLogMemoryUsage \/ line' = None
    /\ UNCHANGED <<settings, timer, itsShutdownRequested, stopped, system>>

scheduleMemoryLogging_IfWritten == IF line = None THEN "off" ELSE "set"
scheduleMemoryLogging == "set"

leaveHandler ==
    /\ handler = "read" /\ handler' = "idle"
    /\ timer' = scheduleMemoryLogging /\ line' = None
    /\ UNCHANGED <<settings, itsShutdownRequested, stopped, system>>

\* Server::shutdownServer raises the flag, AsyncServer::shutdown then stops the io_context.
shutdownWhileLogging ==
    /\ requestShutdown
    /\ UNCHANGED <<settings, handler, timer, stopped, system, line>>

stopIO ==
    /\ itsShutdownRequested /\ ~stopped /\ stopped' = TRUE
    /\ UNCHANGED <<settings, handler, timer, itsShutdownRequested, system, line>>

systemChanges ==
    /\ status' \in StatusFiles \cup {None} /\ statistics' \in Statistics \cup {None}
    /\ UNCHANGED <<settings, handler, timer, itsShutdownRequested, stopped, line>>

LogNext == \/ expire \/ enterHandler \/ writeLine \/ leaveHandler
           \/ shutdownWhileLogging \/ stopIO \/ systemChanges

\* The timer expires, and the io threads run.
LogFairness ==
    /\ WF_logVars(expire) /\ WF_logVars(enterHandler)
    /\ WF_logVars(writeLine) /\ WF_logVars(leaveHandler)
LogSpec == LogInit /\ [][LogNext]_logVars /\ LogFairness

-----------------------------------------------------------------------------

\* The fields are logged as they are configured, in that order, each with the last value
\* that one and the same status file has for it, or without one where the file has none:
\* readAndLogMemoryUsage, whatever the file holds.
Gives(file, key, value) ==
    LET At == {i \in 1 .. Len(file) : file[i][1] = key}
    IN  IF At = {} THEN value = {}
        ELSE \E i \in At : value = {file[i][2]} /\ \A j \in At : j <= i
FieldsAsConfigured ==
    line # None =>
        /\ Len(line.fields) = Len(itsMemoryLogFields)
        /\ \E file \in StatusFiles : \A i \in DOMAIN line.fields :
               Gives(file, itsMemoryLogFields[i], line.fields[i])

\* The amounts of a line are of one and the same reading.  What was allocated has been read;
\* the 0 of another amount may also stand for one that could not be: appendJemallocStats
\* does not look at what jemallocStat returns for it.
AmountsAsRead ==
    line # None =>
        \A j \in line.jemalloc : \E s \in Statistics :
            /\ s["stats.allocated"] = j.allocated /\ j.allocated \in Nat
            /\ \/ s["stats.active"] = j.active /\ j.active \in Nat
               \/ s["stats.active"] = Failed /\ j.active = 0

\* The fragmentation is a share of an active memory that has been read and is not 0, also
\* when one of the amounts could not be read: the guard of appendJemallocStats.
FragmentationIsAShare ==
    line # None =>
        \A j \in line.jemalloc : \A f \in j.fragmentation : f \in 0 .. 1000 /\ j.active > 0

\* The line says what was read, field by field and amount by amount, up to the 0 that
\* stands for a statistic that could not be: readAndLogMemoryUsage and appendJemallocStats.
LineSaysWhatWasRead ==
    LogTypeOK /\ FieldsAsConfigured /\ AmountsAsRead /\ FragmentationIsAShare

\* One line that fails does not end the log: as long as the server runs, the handler is
\* entered again and again.
LoggingGoesOn ==
    [](itsMemoryLogPeriod > 0) => []<>(handler = "running" \/ itsShutdownRequested)

=============================================================================
