---------------------------- MODULE MCRequestInput ----------------------------
(* RequestInput for TLC: two or three messages on one connection, of every  *)
(* kind the limits and the Expect header tell apart.                        *)
EXTENDS RequestInput

Message(version, expect, head, body) ==
    [version |-> version, expect |-> expect, head |-> head, body |-> body,
     malformed |-> FALSE]

Small    == Message("1.1", "", 2, 0)
Post     == Message("1.1", "", 2, 3)
HeldBack == Message("1.1", "100-continue", 2, 2)
HeldOld  == Message("1.0", "100-continue", 2, 1)
Other    == Message("1.1", "other", 1, 2)
LongHead == Message("1.1", "", 6, 0)
Large    == Message("1.1", "", 2, 5)
Broken   == [Message("1.1", "", 2, 1) EXCEPT !.malformed = TRUE]
HeldBroken == [HeldBack EXCEPT !.malformed = TRUE]

Kinds == {Small, Post, HeldBack, HeldOld, Other, LongHead, Large, Broken, HeldBroken}

\* Every pair of kinds, and three in a row of those that leave the connection open.
MCScripts == {<<a, b>> : a, b \in Kinds}
                 \cup {<<a, b, c>> : a, b, c \in {Post, HeldBack}}
=============================================================================
