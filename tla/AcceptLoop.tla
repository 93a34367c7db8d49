------------------------------ MODULE AcceptLoop ------------------------------
(***************************************************************************)
(* The accept loop and the connection limit: startAccept and handleAccept  *)
(* of source/AsyncServer.cpp, registerConnection and the destructor of     *)
(* source/Connection.cpp.                                                  *)
(*                                                                         *)
(* One async_accept is outstanding at a time, so the loop is sequential;   *)
(* the connections end on other threads at any moment in between.  A       *)
(* connection object is shared: itsNewConnection holds the one being       *)
(* accepted, the handlers and timers of a started one hold it until the    *)
(* last of them is gone.  Objects are taken from Connections and reused    *)
(* after their destruction, so the number of connections served is not     *)
(* bounded.                                                                *)
(***************************************************************************)
EXTENDS Naturals, FiniteSets, ShutdownRequest

CONSTANTS
    Connections,      \* connection objects
    itsMaxConnections \* 0 = unlimited

ASSUME AcceptAssumption ==
    /\ IsFiniteSet(Connections)
    /\ itsMaxConnections \in Nat
    /\ itsMaxConnections > 0 => Cardinality(Connections) > itsMaxConnections + 1

VARIABLES
    pc,                         \* the step of the accept loop
    itsNewConnection,           \* the object the loop holds
    state,                      \* of each object
    itsConnectionCount,
    itsConnectionLimitReported,
    reports                     \* log lines since a connection was last let in

loopVars == <<pc, itsNewConnection, state, itsConnectionCount, itsConnectionLimitReported,
              itsShutdownRequested, reports>>

\* "lingering": the socket is closed, a pending timer still holds the object.
States == {"unused", "new", "refused", "open", "lingering"}
Live   == {c \in Connections : state[c] \in {"open", "lingering"}}

LoopTypeOK ==
    /\ pc \in {"startAccept", "listening", "check", "refuse", "start", "stopped"}
    /\ itsNewConnection \in Connections
    /\ state \in [Connections -> States]
    /\ itsConnectionCount \in Nat /\ reports \in Nat
    /\ itsConnectionLimitReported \in BOOLEAN /\ itsShutdownRequested \in BOOLEAN

\* The constructor has called startAccept.
LoopInit ==
    /\ itsNewConnection \in Connections
    /\ state = [c \in Connections |-> IF c = itsNewConnection THEN "new" ELSE "unused"]
    /\ pc = "listening"
    /\ itsConnectionCount = 0
    /\ itsConnectionLimitReported = FALSE
    /\ itsShutdownRequested = FALSE
    /\ reports = 0

\* What ~Connection leaves of the count: only a registered connection is taken out.
destructor_AlwaysCounted(c) == itsConnectionCount' = itsConnectionCount - 1
destructor(c) ==
    itsConnectionCount' = IF c \in Live THEN itsConnectionCount - 1 ELSE itsConnectionCount

\* A new object for the next connection; assigning it drops the loop's reference to
\* the one before, which is destroyed unless it was started.
startAccept ==
    /\ pc = "startAccept"
    /\ IF itsShutdownRequested
       THEN pc' = "stopped" /\ UNCHANGED <<itsNewConnection, state, itsConnectionCount>>
       ELSE /\ pc' = "listening"
            /\ \E c \in Connections :
                  /\ state[c] = "unused"
                  /\ itsNewConnection' = c
                  /\ IF itsNewConnection \in Live
                     THEN /\ state' = [state EXCEPT ![c] = "new"]
                          /\ UNCHANGED itsConnectionCount
                     ELSE /\ state' = [state EXCEPT ![c] = "new",
                                                    ![itsNewConnection] = "unused"]
                          /\ destructor(itsNewConnection)
    /\ UNCHANGED <<itsConnectionLimitReported, itsShutdownRequested, reports>>

\* handleAccept is called, with a socket or with an error.
handleAccept ==
    /\ pc = "listening"
    /\ IF itsShutdownRequested THEN pc' = "stopped" ELSE pc' \in {"startAccept", "check"}
    /\ UNCHANGED <<itsNewConnection, state, itsConnectionCount, itsConnectionLimitReported,
                   itsShutdownRequested, reports>>

LimitReached_OneMore == itsMaxConnections > 0 /\ itsConnectionCount > itsMaxConnections
LimitReached_OneFewer ==
    itsMaxConnections > 0 /\ itsConnectionCount + 1 >= itsMaxConnections
LimitReached == itsMaxConnections > 0 /\ itsConnectionCount >= itsMaxConnections

checkLimit ==
    /\ pc = "check"
    /\ pc' = IF LimitReached THEN "refuse" ELSE "start"
    /\ UNCHANGED <<itsNewConnection, state, itsConnectionCount, itsConnectionLimitReported,
                   itsShutdownRequested, reports>>

refuse_ReportAlways ==
    /\ pc = "refuse" /\ pc' = "startAccept"
    /\ reports' = reports + 1
    /\ itsConnectionLimitReported' = TRUE
    /\ state' = [state EXCEPT ![itsNewConnection] = "refused"]
    /\ UNCHANGED <<itsNewConnection, itsConnectionCount, itsShutdownRequested>>
\* Logged if it was not yet, and answered with the framed 503 of rejectConnection.
refuse ==
    /\ pc = "refuse" /\ pc' = "startAccept"
    /\ reports' = IF itsConnectionLimitReported THEN reports ELSE reports + 1
    /\ itsConnectionLimitReported' = TRUE
    /\ state' = [state EXCEPT ![itsNewConnection] = "refused"]
    /\ UNCHANGED <<itsNewConnection, itsConnectionCount, itsShutdownRequested>>

start ==
    /\ pc = "start" /\ pc' = "startAccept"
    /\ itsConnectionLimitReported' = FALSE
    /\ itsConnectionCount' = itsConnectionCount + 1
    /\ state' = [state EXCEPT ![itsNewConnection] = "open"]
    /\ reports' = 0
    /\ UNCHANGED <<itsNewConnection, itsShutdownRequested>>

\* The reader's stock reply closes the socket while the request timer is pending.
closeSocket(c) ==
    /\ state[c] = "open"
    /\ state' = [state EXCEPT ![c] = "lingering"]
    /\ UNCHANGED <<pc, itsNewConnection, itsConnectionCount, itsConnectionLimitReported,
                   itsShutdownRequested, reports>>

\* The last reference to a started connection goes.
destroy(c) ==
    /\ c \in Live /\ c # itsNewConnection
    /\ state' = [state EXCEPT ![c] = "unused"]
    /\ destructor(c)
    /\ UNCHANGED <<pc, itsNewConnection, itsConnectionLimitReported, itsShutdownRequested,
                   reports>>

shutdownWhileAccepting ==
    /\ requestShutdown
    /\ UNCHANGED <<pc, itsNewConnection, state, itsConnectionCount,
                   itsConnectionLimitReported, reports>>

\* The loop has ended; the objects go with the io_context.
Stopped == pc = "stopped" /\ UNCHANGED loopVars

LoopNext ==
    \/ startAccept \/ handleAccept \/ checkLimit \/ refuse \/ start
    \/ \E c \in Connections : closeSocket(c) \/ destroy(c)
    \/ shutdownWhileAccepting
    \/ Stopped

LoopSpec == LoopInit /\ [][LoopNext]_loopVars

-----------------------------------------------------------------------------
(* Properties.                                                             *)

\* The count is that of the connection objects alive after start: no refused, failed
\* or never accepted connection enters it or leaves it, so the unsigned counter does
\* not wrap and no slot is lost.
CountIsExact == itsConnectionCount = Cardinality(Live)

\* The limit bounds the connections being served at every moment, although others are
\* destroyed between the test and the registration.
LimitKept == itsMaxConnections > 0 => Cardinality(Live) <= itsMaxConnections

\* "logged once per episode" (developer guide): one line from the first refusal until
\* a connection is let in again, and none without a refusal.
LoggedOncePerEpisode == reports <= 1 /\ (itsConnectionLimitReported <=> reports = 1)

\* A client is turned away only if, when handleAccept looked, every slot was taken by a
\* started connection that is still alive; each started connection takes one slot and
\* gives it back once, on whatever thread it is destroyed.
Slots == INSTANCE ConnectionSlots
             WITH limit <- itsMaxConnections, taken <- Live,
                  turningAway <- itsConnectionLimitReported \/ pc = "refuse"
SlotsArePromised == Slots!SlotSpec

=============================================================================
