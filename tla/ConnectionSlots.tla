---------------------------- MODULE ConnectionSlots ----------------------------
(***************************************************************************)
(* What the accept loop promises, without loop, counter or threads: a      *)
(* client gets a slot of its own while there is one, gives it back once,   *)
(* and is turned away only when all are taken.  AcceptLoop implements it.  *)
(***************************************************************************)
EXTENDS Naturals, FiniteSets

CONSTANTS
    Connections,
    limit        \* maxconnections, 0 = unlimited

VARIABLES
    taken,       \* the connections that hold a slot
    turningAway  \* somebody was turned away after the last one was let in

slotVars == <<taken, turningAway>>

SlotInit == taken = {} /\ turningAway = FALSE

Full == limit > 0 /\ Cardinality(taken) >= limit

LetIn(c) ==
    /\ c \notin taken /\ ~Full
    /\ taken' = taken \cup {c} /\ turningAway' = FALSE

GiveBack(c) ==
    /\ c \in taken
    /\ taken' = taken \ {c} /\ UNCHANGED turningAway

TurnAway == Full /\ turningAway' = TRUE /\ UNCHANGED taken

SlotNext == TurnAway \/ \E c \in Connections : LetIn(c) \/ GiveBack(c)

SlotSpec == SlotInit /\ [][SlotNext]_slotVars

=============================================================================
