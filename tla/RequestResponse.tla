--------------------------- MODULE RequestResponse ---------------------------
(***************************************************************************)
(* What a persistent connection promises its client, without any of the    *)
(* machinery: requests are taken one at a time, every request taken is     *)
(* answered at most once before the next one is taken, and the refusal of  *)
(* something that never became a request is the last thing sent.           *)
(*                                                                         *)
(*   accepted   requests parsed and counted (itsRequestCount)              *)
(*   answered   final responses written by the request's own handler.  The *)
(*              408 of the timeout handler belongs to no request and is    *)
(*              not counted                                                *)
(***************************************************************************)
EXTENDS Naturals

CONSTANT Limit  \* requests one connection may serve, 0 = no limit

VARIABLES accepted, answered

vars == <<accepted, answered>>

Init == accepted = 0 /\ answered = 0

\* Only when nothing is in flight, and never past the limit.
Accept ==
    /\ answered = accepted
    /\ Limit > 0 => accepted < Limit
    /\ accepted' = accepted + 1
    /\ UNCHANGED answered

\* The one request in flight gets its one answer.
Answer ==
    /\ answered < accepted
    /\ answered' = answered + 1
    /\ UNCHANGED accepted

\* 400, 413, 417, 431 or the shutdown notice: sent instead of taking a request.
\* Afterwards answered > accepted, and no action is enabled again.
Refuse ==
    /\ answered = accepted
    /\ answered' = answered + 1
    /\ UNCHANGED accepted

Next == Accept \/ Answer \/ Refuse

Spec == Init /\ [][Next]_vars
=============================================================================
