-------------------------- MODULE RequestInputProofs --------------------------
(***************************************************************************)
(* Theorems about RequestInput, for every set of scripts, every size of a  *)
(* read and every limit.                                                   *)
(*                                                                         *)
(* The argument: what is consumed is always a whole number of messages     *)
(* (PlaceInv), the count that is tested is what is in the buffer           *)
(* (CountInv), and of the replies to the message the server is at only an  *)
(* interim one exists while the connection goes on (RepliesInv).           *)
(***************************************************************************)
EXTENDS RequestInput, WellFoundedInduction, TLAPS

-----------------------------------------------------------------------------
(* Induction, in a form without an operator to instantiate.                *)

Less == {p \in Nat \X Nat : p[1] < p[2]}

\* A set of naturals with an element has a least one.
LEMMA LeastNumber ==
    ASSUME NEW S \in SUBSET Nat, S # {}
    PROVE  \E m \in S : \A n \in S : m <= n
  <1>1. IsWellFoundedOn(Less, Nat)
    BY NatLessThanWellFounded DEF OpToRel, Less
  <1>2. \E m \in S : \A n \in S : ~(<<n, m>> \in Less)
    BY <1>1, WFMin
  <1>3. \A m, n \in Nat : ~(<<n, m>> \in Less) => m <= n
    BY DEF Less
  <1>4. QED
    BY <1>2, <1>3, Zenon

\* A set with 0 and the successors of its elements is that of all naturals.
LEMMA SetInduction ==
    ASSUME NEW S \in SUBSET Nat, 0 \in S, \A n \in S : n + 1 \in S
    PROVE  S = Nat
  <1>1. SUFFICES ASSUME Nat \ S # {} PROVE FALSE
    OBVIOUS
  <1>2. PICK m \in Nat \ S : \A n \in Nat \ S : m <= n
    BY <1>1, LeastNumber
  <1>3. m - 1 \in Nat /\ m - 1 \in S
    BY <1>2
  <1>4. (m - 1) + 1 \in S
    BY <1>3
  <1>5. QED
    BY <1>2, <1>4

-----------------------------------------------------------------------------
(* Where messages start.                                                   *)

\* F gives the starts of the first m messages.
Starts(F, m) == F = [i \in 0 .. m |-> IF i = 0 THEN 0 ELSE F[i - 1] + Size(script[i])]

LEMMA StartsApply ==
    ASSUME NEW m \in Nat, NEW F, Starts(F, m)
    PROVE  F[0] = 0 /\ \A i \in 1 .. m : F[i] = F[i - 1] + Size(script[i])
  <1>. DEFINE body == [i \in 0 .. m |-> IF i = 0 THEN 0 ELSE F[i - 1] + Size(script[i])]
  <1>1. body[0] = 0 /\ \A i \in 1 .. m : body[i] = F[i - 1] + Size(script[i])
    OBVIOUS
  <1>2. F = body
    BY DEF Starts
  <1>3. QED
    BY <1>1, <1>2, Zenon

\* The recursion of StartOf has a solution, whatever the script.
LEMMA StartsExist == \A m \in Nat : \E F : Starts(F, m)
  <1>. DEFINE S == {m \in Nat : \E F : Starts(F, m)}
  <1>1. 0 \in S
    <2>1. Starts([i \in 0 .. 0 |-> 0], 0)
      BY DEF Starts
    <2>2. QED
      BY <2>1
  <1>2. ASSUME NEW m \in S PROVE m + 1 \in S
    <2>1. PICK F : Starts(F, m)
      OBVIOUS
    <2>. DEFINE G == [i \in 0 .. m + 1 |->
                        IF i = m + 1 THEN F[m] + Size(script[m + 1]) ELSE F[i]]
    <2>2. G[0] = 0 /\ \A i \in 1 .. m + 1 : G[i] = G[i - 1] + Size(script[i])
      BY <2>1, StartsApply
    <2>3. Starts(G, m + 1)
      <3>. DEFINE body == [i \in 0 .. m + 1 |->
                             IF i = 0 THEN 0 ELSE G[i - 1] + Size(script[i])]
      <3>1. \A i \in 0 .. m + 1 : G[i] = body[i]
        <4>1. \A i \in 0 .. m + 1 : i = 0 \/ i \in 1 .. m + 1
          OBVIOUS
        <4>2. body[0] = 0 /\ \A i \in 1 .. m + 1 : body[i] = G[i - 1] + Size(script[i])
          <5>. HIDE DEF G
          <5>. QED OBVIOUS
        <4>3. QED
          BY <2>2, <4>1, <4>2, Zenon
      <3>2. G = body
        BY <3>1
      <3>3. QED
        BY <3>2 DEF Starts
    <2>4. QED
      BY <2>3
  <1>3. S = Nat
    <2>. HIDE DEF S
    <2>1. S \in SUBSET Nat
      BY DEF S
    <2>2. QED
      BY <1>1, <1>2, <2>1, SetInduction
  <1>4. QED
    BY <1>3

\* The first message starts at 0, and each other one where the one before it ends.
LEMMA StartOfNext ==
    ASSUME script \in Seq(MessageType)
    PROVE  StartOf(0) = 0
           /\ \A k \in 1 .. Len(script) : StartOf(k) = StartOf(k - 1) + Size(script[k])
  <1>. DEFINE U == CHOOSE F : Starts(F, Len(script))
  <1>1. Len(script) \in Nat
    OBVIOUS
  <1>2. Starts(U, Len(script))
    BY <1>1, StartsExist, Zenon
  <1>3. \A k : StartOf(k) = U[k]
    BY DEF StartOf, Starts
  <1>4. QED
    <2>. HIDE DEF U
    <2>. QED BY <1>1, <1>2, <1>3, StartsApply
\* Messages have a head, so starts are in order.
LEMMA StartOfOrder ==
    ASSUME script \in Seq(MessageType)
    PROVE  \A k \in 0 .. Len(script) :
               StartOf(k) \in Nat /\ StartOf(k) <= StartOf(Len(script))
  <1>1. \A k \in 1 .. Len(script) : Size(script[k]) \in Nat \ {0}
    <2>1. \A m \in MessageType : Size(m) \in Nat \ {0}
      <3>1. \A m \in MessageType : m.head \in Nat \ {0} /\ m.body \in Nat
        BY DEF MessageType
      <3>2. QED
        BY <3>1 DEF Size
    <2>2. \A k \in 1 .. Len(script) : script[k] \in MessageType
      OBVIOUS
    <2>3. QED
      BY <2>1, <2>2
  <1>. DEFINE Defined == {k \in Nat : k <= Len(script) => StartOf(k) \in Nat}
              Before  == {k \in Nat : k <= Len(script) =>
                             StartOf(Len(script) - k) <= StartOf(Len(script))}
  <1>2. Defined = Nat
    <2>1. 0 \in Defined /\ \A k \in Defined : k + 1 \in Defined
      BY <1>1, StartOfNext
    <2>. HIDE DEF Defined
    <2>2. Defined \in SUBSET Nat
      BY DEF Defined
    <2>3. QED
      BY <2>1, <2>2, SetInduction
  <1>3. Before = Nat
    <2>1. 0 \in Before
      BY <1>2
    <2>2. ASSUME NEW k \in Before PROVE k + 1 \in Before
      <3>1. CASE k + 1 <= Len(script)
        <4>1. /\ Len(script) - k \in 1 .. Len(script)
              /\ Len(script) - (k + 1) = (Len(script) - k) - 1
          BY <3>1
        <4>2. StartOf(Len(script) - k) =
                  StartOf(Len(script) - (k + 1)) + Size(script[Len(script) - k])
          BY <4>1, StartOfNext
        <4>3. StartOf(Len(script) - (k + 1)) <= StartOf(Len(script) - k)
          BY <1>1, <1>2, <3>1, <4>1, <4>2
        <4>4. StartOf(Len(script) - k) <= StartOf(Len(script))
          BY <3>1
        <4>5. QED
          BY <1>2, <3>1, <4>1, <4>3, <4>4
      <3>2. QED
        BY <3>1
    <2>. HIDE DEF Before
    <2>3. Before \in SUBSET Nat
      BY DEF Before
    <2>4. QED
      BY <2>1, <2>2, <2>3, SetInduction
  <1>4. ASSUME NEW k \in 0 .. Len(script)
        PROVE  StartOf(k) \in Nat /\ StartOf(k) <= StartOf(Len(script))
    <2>1. /\ Len(script) - k \in Nat /\ Len(script) - k <= Len(script)
          /\ Len(script) - (Len(script) - k) = k
      OBVIOUS
    <2>2. Len(script) - k \in Before
      <3>. HIDE DEF Before
      <3>. QED BY <1>3, <2>1
    <2>3. QED
      BY <1>2, <2>1, <2>2
  <1>5. QED
    BY <1>4
-----------------------------------------------------------------------------
(* The inductive invariant.                                                *)

\* What is consumed is the messages parsed, and something more is in the buffer
\* wherever the code goes on to look for a message.
PlaceInv ==
    /\ consumed = StartOf(IF pc = "answer" THEN served + 1 ELSE served)
    /\ pc = "answer" => served < Len(script)
    /\ pc \in {"parse", "expect", "posted"} => consumed < received

\* The count that is tested is that of the buffer, and has been tested.
CountInv ==
    /\ pc # "closed" => itsReceivedBytes = Buffered
    /\ pc \in {"read", "parse", "expect"} => ~TooLarge(Buffered)

\* An unfinished head that is waited for has been measured.
HeaderInv ==
    (pc \in {"read", "expect"} /\ itsMaxHeaderSize > 0 /\ ~Exhausted
         /\ Buffered < Current.head) => Buffered <= itsMaxHeaderSize

\* A 413 ends the connection.
RefusalInv ==
    (\E i \in DOMAIN replies : replies[i].code = "413")
        => pc = "closed" /\ sent - consumed > itsMaxRequestSize

\* While the connection goes on, the message the server is at has been answered with an
\* interim response at most, which is remembered.
RepliesInv ==
    \A i \in DOMAIN replies :
        /\ replies[i].to <= served + 1
        /\ replies[i].to = served + 1 /\ pc # "closed"
               => replies[i].code = "100" /\ itsExpectHandled

InputInv ==
    /\ TypeOK /\ PlaceInv /\ CountInv /\ HeaderInv /\ RefusalInv
    /\ RepliesInv /\ InterimIsExpected

-----------------------------------------------------------------------------
\* Where messages start depends on the script alone, which never changes.
LEMMA StartOfStays ==
    ASSUME script' = script
    PROVE  \A k : StartOf(k)' = StartOf(k)
  BY DEF StartOf, Size

\* What the invariant says of the message the server is at.
LEMMA Places ==
    ASSUME TypeOK, PlaceInv
    PROVE  /\ script \in Seq(MessageType) /\ Len(script) \in Nat
           /\ \A k \in 0 .. Len(script) : StartOf(k) \in Nat
           /\ \A k \in 1 .. Len(script) :
                  /\ script[k].head \in Nat \ {0} /\ script[k].body \in Nat
                  /\ StartOf(k) = StartOf(k - 1) + script[k].head + script[k].body
                  /\ StartOf(k) <= StartOf(Len(script))
           /\ {sent, received, consumed, served} \subseteq Nat
           /\ consumed <= received /\ received <= sent
           /\ consumed < sent => served + 1 \in 1 .. Len(script)
  <1>1. script \in Seq(MessageType) /\ Len(script) \in Nat
    BY InputAssumption DEF TypeOK
  <1>2. /\ \A k \in 0 .. Len(script) : StartOf(k) \in Nat
        /\ \A k \in 1 .. Len(script) : StartOf(k) <= StartOf(Len(script))
    BY <1>1, StartOfOrder
  <1>3. ASSUME NEW k \in 1 .. Len(script)
        PROVE  /\ script[k].head \in Nat \ {0} /\ script[k].body \in Nat
               /\ StartOf(k) = StartOf(k - 1) + script[k].head + script[k].body
    <2>1. script[k] \in MessageType
      BY <1>1
    <2>2. script[k].head \in Nat \ {0} /\ script[k].body \in Nat
      BY <2>1 DEF MessageType
    <2>3. StartOf(k) = StartOf(k - 1) + Size(script[k])
      BY <1>1, StartOfNext
    <2>4. StartOf(k - 1) \in Nat
      BY <1>2
    <2>5. QED
      BY <2>2, <2>3, <2>4 DEF Size
  <1>4. /\ {sent, received, consumed, served} \subseteq Nat
        /\ consumed <= received /\ received <= sent
        /\ sent <= StartOf(Len(script)) /\ served <= Len(script)
    BY <1>1, <1>2 DEF TypeOK
  <1>5. consumed < sent => served + 1 \in 1 .. Len(script)
    <2>1. CASE pc = "answer"
      BY <1>1, <1>4, <2>1 DEF PlaceInv
    <2>2. CASE pc # "answer" /\ served = Len(script)
      BY <1>2, <1>4, <2>2 DEF PlaceInv
    <2>3. CASE served # Len(script)
      BY <1>1, <1>4, <2>3
    <2>4. QED
      BY <2>1, <2>2, <2>3
  <1>6. QED
    BY <1>1, <1>2, <1>3, <1>4, <1>5

LEMMA InitInput == Init => InputInv
  <1>. SUFFICES ASSUME Init PROVE InputInv
    OBVIOUS
  <1>1. script \in Seq(MessageType) /\ Len(script) \in Nat
    BY InputAssumption DEF Init
  <1>2. StartOf(0) = 0 /\ StartOf(Len(script)) \in Nat
    BY <1>1, StartOfNext, StartOfOrder
  <1>3. TypeOK
    <2>1. replies \in Seq([to : 1 .. Len(script), code : Codes])
      BY DEF Init
    <2>2. /\ sent \in 0 .. StartOf(Len(script)) /\ received \in 0 .. sent
          /\ consumed \in 0 .. received /\ served \in 0 .. Len(script)
          /\ itsReceivedBytes \in Nat
      BY <1>1, <1>2 DEF Init
    <2>3. QED
      BY <2>1, <2>2 DEF Init, TypeOK
  <1>4. QED
    BY <1>1, <1>2, <1>3, InputAssumption
       DEF Init, InputInv, PlaceInv, CountInv, HeaderInv, RefusalInv, RepliesInv,
           InterimIsExpected, Buffered, TooLarge, Exhausted

LEMMA TypeStep == InputInv /\ [Next]_vars => TypeOK'
  <1>. SUFFICES ASSUME InputInv, [Next]_vars PROVE TypeOK'
    OBVIOUS
  <1>0. TypeOK /\ PlaceInv /\ CountInv
    BY DEF InputInv
  <1>1. script' = script
    BY DEF Next, Server, vars, ClientSends, ClientGoesAhead, handleRead, handlePosted,
           parseOneRequest, parseFails, handleIncompleteRequest, handleExpectContinue,
           finishResponse, ConnectionEnds, Done
  <1>2. \A k : StartOf(k)' = StartOf(k)
    BY <1>1, StartOfStays
  <1>. USE <1>1, <1>2, Places, <1>0
  <1>3. \A code \in Codes : Reply(code) /\ consumed < sent =>
            replies' \in Seq([to : 1 .. Len(script'), code : Codes])
    BY DEF TypeOK, Reply, Codes
  <1>4. CASE ClientSends
    BY <1>4 DEF ClientSends, TypeOK
  <1>5. CASE ClientGoesAhead
    <2>1. PICK k \in 1 .. Len(script) : Holding(k)
      BY <1>5 DEF ClientGoesAhead, Withholding
    <2>2. /\ script[k].head \in Nat /\ script[k].body \in Nat /\ StartOf(k - 1) \in Nat
          /\ StartOf(k) = StartOf(k - 1) + script[k].head + script[k].body
          /\ StartOf(k) <= StartOf(Len(script)) /\ StartOf(Len(script)) \in Nat
      OBVIOUS
    <2>3. sent = StartOf(k - 1) + script[k].head /\ script[k].body > 0
      BY <2>1 DEF Holding
    <2>4. sent + 1 <= StartOf(Len(script))
      BY ONLY <2>2, <2>3
    <2>5. QED
      BY <1>5, <2>4 DEF ClientGoesAhead, TypeOK
  <1>6. CASE handleRead
    <2>1. consumed < sent /\ "413" \in Codes
      BY <1>6 DEF handleRead, Codes
    <2>2. replies' \in Seq([to : 1 .. Len(script'), code : Codes])
      BY <1>3, <1>6, <2>1 DEF handleRead, TypeOK
    <2>3. received' \in 0 .. sent /\ received <= received' /\ itsReceivedBytes' \in Nat
      BY <1>6, InputAssumption DEF handleRead, TypeOK
    <2>4. QED
      BY <1>6, <2>2, <2>3 DEF handleRead, TypeOK
  <1>7. CASE handlePosted
    <2>1. consumed < sent /\ "413" \in Codes
      BY <1>7 DEF handlePosted, PlaceInv, Codes
    <2>2. QED
      BY <1>3, <1>7, <2>1 DEF handlePosted, TypeOK
  <1>8. CASE parseOneRequest
    <2>1. consumed < received
      BY <1>8 DEF parseOneRequest, PlaceInv
    <2>2. Size(Current) \in Nat
      BY <2>1 DEF Current, Size
    <2>3. /\ consumed' = consumed + Size(Current) /\ received - consumed >= Size(Current)
          /\ itsReceivedBytes' = received - consumed'
      BY <1>8 DEF parseOneRequest, Complete, Buffered
    <2>4. consumed' \in 0 .. received /\ itsReceivedBytes' \in Nat
      BY <2>2, <2>3
    <2>5. QED
      BY <1>8, <2>4 DEF parseOneRequest, TypeOK
  <1>9. CASE handleIncompleteRequest
    <2>1. consumed < sent /\ "431" \in Codes
      BY <1>9 DEF handleIncompleteRequest, PlaceInv, Codes
    <2>2. QED
      BY <1>3, <1>9, <2>1 DEF handleIncompleteRequest, TypeOK
  <1>10. CASE handleExpectContinue
    <2>1. consumed < sent /\ {"100", "417"} \subseteq Codes
      BY <1>10 DEF handleExpectContinue, PlaceInv, Codes
    <2>2. replies' \in Seq([to : 1 .. Len(script'), code : Codes])
      BY <1>3, <1>10, <2>1 DEF handleExpectContinue, TypeOK
    <2>3. QED
      BY <1>10, <2>2 DEF handleExpectContinue, HeadComplete, TypeOK
  <1>11. CASE finishResponse
    <2>1. served + 1 \in 1 .. Len(script) /\ "200" \in Codes
      BY <1>11 DEF finishResponse, PlaceInv, Codes
    <2>2. replies' \in Seq([to : 1 .. Len(script'), code : Codes])
      BY <1>11, <2>1 DEF finishResponse, TypeOK, Reply
    <2>3. served' \in 0 .. Len(script') /\ pc' \in {"posted", "read"}
      BY <1>11, <2>1 DEF finishResponse
    <2>4. QED
      BY <1>11, <2>2, <2>3 DEF finishResponse, TypeOK
  <1>12. CASE ConnectionEnds
    BY <1>12 DEF ConnectionEnds, TypeOK
  <1>13. CASE parseFails
    <2>1. consumed < sent /\ "400" \in Codes
      BY <1>13 DEF parseFails, PlaceInv, Codes
    <2>2. replies' \in Seq([to : 1 .. Len(script'), code : Codes])
      BY <1>3, <1>13, <2>1 DEF parseFails
    <2>3. QED
      BY <1>13, <2>2 DEF parseFails, TypeOK
  <1>14. CASE UNCHANGED vars
    BY <1>14 DEF vars, TypeOK
  <1>15. QED
    BY <1>4, <1>5, <1>6, <1>7, <1>8, <1>9, <1>10, <1>11, <1>12, <1>13, <1>14
       DEF Next, Server, Done

\* Only parseOneRequest and finishResponse move on to another message.
LEMMA PlaceStep == InputInv /\ [Next]_vars => PlaceInv'
  <1>. SUFFICES ASSUME InputInv, [Next]_vars PROVE PlaceInv'
    OBVIOUS
  <1>0. TypeOK /\ PlaceInv /\ CountInv
    BY DEF InputInv
  <1>1. script' = script
    BY DEF Next, Server, vars, ClientSends, ClientGoesAhead, handleRead, handlePosted,
           parseOneRequest, parseFails, handleIncompleteRequest, handleExpectContinue,
           finishResponse, ConnectionEnds, Done
  <1>2. \A k : StartOf(k)' = StartOf(k)
    BY <1>1, StartOfStays
  <1>3. /\ {sent, received, consumed, served} \subseteq Nat /\ Len(script) \in Nat
        /\ consumed < sent => served + 1 \in 1 .. Len(script)
        /\ consumed <= received /\ received <= sent
    BY <1>0, Places
  <1>. USE <1>0, <1>1, <1>2, <1>3
  <1>4. CASE ClientSends \/ ClientGoesAhead
    BY <1>4 DEF ClientSends, ClientGoesAhead, PlaceInv
  <1>5. CASE handleRead
    <2>1. pc = "read" /\ pc' \in {"closed", "parse"} /\ consumed' = consumed /\ served' = served
      BY <1>5 DEF handleRead
    <2>2. pc' = "parse" => consumed < received'
      BY <1>5, InputAssumption DEF handleRead
    <2>3. QED
      BY <2>1, <2>2 DEF PlaceInv
  <1>6. CASE handlePosted \/ handleIncompleteRequest \/ parseFails
    BY <1>6 DEF handlePosted, handleIncompleteRequest, parseFails, PlaceInv
  <1>7. CASE handleExpectContinue
    <2>1. pc = "expect" /\ pc' \in {"closed", "read"} /\ consumed' = consumed /\ served' = served
      BY <1>7 DEF handleExpectContinue
    <2>2. QED
      BY <2>1 DEF PlaceInv
  <1>8. CASE parseOneRequest
    <2>1. /\ pc = "parse" /\ pc' = "answer" /\ served' = served
          /\ consumed' = consumed + Size(Current)
      BY <1>8 DEF parseOneRequest
    <2>2. served + 1 \in 1 .. Len(script) /\ consumed = StartOf(served)
      BY <2>1 DEF PlaceInv
    <2>3. /\ script[served + 1].head \in Nat /\ script[served + 1].body \in Nat
          /\ StartOf(served + 1) = StartOf((served + 1) - 1) + script[served + 1].head
                                       + script[served + 1].body
      BY <2>2, Places
    <2>4. (served + 1) - 1 = served
      OBVIOUS
    <2>5. StartOf(served + 1) = consumed'
      BY <2>1, <2>2, <2>3, <2>4 DEF Size, Current
    <2>6. QED
      BY <2>1, <2>2, <2>5 DEF PlaceInv
  <1>9. CASE finishResponse
    <2>1. /\ pc = "answer" /\ pc' = (IF Buffered > 0 THEN "posted" ELSE "read")
          /\ served' = served + 1 /\ consumed' = consumed /\ received' = received
      BY <1>9 DEF finishResponse
    <2>2. QED
      BY <2>1 DEF PlaceInv, Buffered
  <1>10. CASE ConnectionEnds
    BY <1>10 DEF ConnectionEnds, PlaceInv
  <1>11. CASE UNCHANGED vars
    BY <1>11 DEF vars, PlaceInv
  <1>12. QED
    BY <1>4, <1>5, <1>6, <1>7, <1>8, <1>9, <1>10, <1>11 DEF Next, Server, Done

\* The tests of handleRead, made before the bytes are appended, hold for the buffer.
LEMMA CountStep == InputInv /\ [Next]_vars => CountInv' /\ HeaderInv'
  <1>. SUFFICES ASSUME InputInv, [Next]_vars PROVE CountInv' /\ HeaderInv'
    OBVIOUS
  <1>0. TypeOK /\ PlaceInv /\ CountInv /\ HeaderInv
    BY DEF InputInv
  <1>1. script' = script
    BY DEF Next, Server, vars, ClientSends, ClientGoesAhead, handleRead, handlePosted,
           parseOneRequest, parseFails, handleIncompleteRequest, handleExpectContinue,
           finishResponse, ConnectionEnds, Done
  <1>2. /\ {sent, received, consumed, served} \subseteq Nat /\ consumed <= received
        /\ itsMaxRequestSize \in Nat /\ itsMaxHeaderSize \in Nat
    BY <1>0, Places, InputAssumption
  <1>. USE <1>0, <1>1, <1>2
  <1>3. CASE ClientSends \/ ClientGoesAhead \/ ConnectionEnds \/ UNCHANGED vars
    BY <1>3 DEF ClientSends, ClientGoesAhead, ConnectionEnds, vars, CountInv, HeaderInv,
                Buffered, TooLarge, Exhausted, Current
  <1>4. CASE handleRead
    <2>1. PICK n \in Nat :
              /\ itsReceivedBytes' = itsReceivedBytes + n /\ consumed' = consumed
              /\ \/ pc' = "closed"
                 \/ /\ pc' = "parse" /\ received' = received + n
                    /\ ~TooLarge(itsReceivedBytes + n)
      BY <1>4, InputAssumption DEF handleRead
    <2>2. pc = "read"
      BY <1>4 DEF handleRead
    <2>3. itsReceivedBytes = received - consumed
      BY <2>2 DEF CountInv, Buffered
    <2>4. pc' = "parse" => itsReceivedBytes' = Buffered' /\ ~TooLarge(Buffered)'
      BY <2>1, <2>3 DEF Buffered, TooLarge
    <2>5. QED
      BY <2>1, <2>4 DEF CountInv, HeaderInv
  <1>5. CASE handlePosted
    <2>1. /\ pc = "posted" /\ UNCHANGED <<received, consumed, itsReceivedBytes>>
          /\ pc' = "closed" \/ (pc' = "parse" /\ ~TooLarge(itsReceivedBytes))
      BY <1>5 DEF handlePosted
    <2>2. QED
      BY <2>1 DEF CountInv, HeaderInv, Buffered, TooLarge
  <1>6. CASE parseOneRequest
    <2>1. pc' = "answer" /\ received' = received /\ itsReceivedBytes' = received - consumed'
      BY <1>6 DEF parseOneRequest
    <2>2. QED
      BY <2>1 DEF CountInv, HeaderInv, Buffered
  <1>7. CASE handleIncompleteRequest
    <2>1. /\ pc = "parse" /\ UNCHANGED <<received, consumed, served, itsReceivedBytes>>
          /\ pc' = "closed" \/ (pc' = "expect" /\ ~HeaderTooLarge)
      BY <1>7 DEF handleIncompleteRequest
    <2>2. CountInv'
      BY <2>1 DEF CountInv, Buffered, TooLarge
    <2>3. HeaderInv'
      <3>1. served + 1 \in 1 .. Len(script)
        BY <2>1, Places DEF PlaceInv
      <3>2. Current.head \in Nat
        BY <3>1, Places DEF Current
      <3>3. QED
        BY <2>1, <3>2 DEF HeaderInv, HeaderTooLarge, HeadComplete, Buffered, Current, Exhausted
    <2>4. QED
      BY <2>2, <2>3
  <1>8. CASE handleExpectContinue
    <2>1. /\ pc = "expect" /\ UNCHANGED <<received, consumed, served, itsReceivedBytes>>
          /\ pc' \in {"closed", "read"}
      BY <1>8 DEF handleExpectContinue
    <2>2. QED
      BY <2>1 DEF CountInv, HeaderInv, Buffered, TooLarge, Current, Exhausted
  <1>9. CASE finishResponse
    <2>1. /\ pc = "answer" /\ UNCHANGED <<received, consumed, itsReceivedBytes>>
          /\ pc' = (IF Buffered > 0 THEN "posted" ELSE "read")
      BY <1>9 DEF finishResponse
    <2>2. pc' = "read" => Buffered' = 0
      BY <2>1 DEF Buffered
    <2>3. QED
      BY <2>1, <2>2 DEF CountInv, HeaderInv, Buffered, TooLarge
  <1>10. CASE parseFails
    BY <1>10 DEF parseFails, CountInv, HeaderInv
  <1>11. QED
    BY <1>3, <1>4, <1>5, <1>6, <1>7, <1>8, <1>9, <1>10 DEF Next, Server, Done

\* One reply to the message the server is at is added to the others.
LEMMA ReplyAdds ==
    ASSUME InputInv, NEW code, Reply(code)
    PROVE  /\ Len(replies) \in Nat /\ DOMAIN replies = 1 .. Len(replies)
           /\ DOMAIN replies' = 1 .. Len(replies) + 1
           /\ \A i \in 1 .. Len(replies) : replies'[i] = replies[i]
           /\ replies'[Len(replies) + 1].to = served + 1
           /\ replies'[Len(replies) + 1].code = code
           /\ \A i \in 1 .. Len(replies) :
                  replies[i].to \in 1 .. Len(script) /\ replies[i].code \in Codes
  <1>1. replies \in Seq([to : 1 .. Len(script), code : Codes])
    BY DEF InputInv, TypeOK
  <1>2. replies' = Append(replies, [to |-> served + 1, code |-> code])
    BY DEF Reply
  <1>3. \A i \in 1 .. Len(replies) : replies[i] \in [to : 1 .. Len(script), code : Codes]
    <2>1. \A T, s : s \in Seq(T) => \A i \in 1 .. Len(s) : s[i] \in T
      OBVIOUS
    <2>2. QED
      BY <1>1, <2>1, Zenon
  <1>4. QED
    BY <1>1, <1>2, <1>3

\* A final reply comes after the interim one and changes nothing about it.
LEMMA FinalReply ==
    ASSUME InputInv, NEW code, Reply(code), code # "100", script' = script
    PROVE  InterimIsExpected'
  <1>. USE ReplyAdds
  <1>1. InterimIsExpected
    BY DEF InputInv
  <1>2. SUFFICES ASSUME NEW i \in DOMAIN replies', replies'[i].code = "100"
                 PROVE  /\ script[replies'[i].to].version = "1.1"
                        /\ script[replies'[i].to].expect = "100-continue"
                        /\ \A j \in DOMAIN replies' :
                              /\ replies'[j].to = replies'[i].to => i <= j
                              /\ replies'[j] = replies'[i] => i = j
    BY Zenon DEF InterimIsExpected
  <1>3. i \in DOMAIN replies /\ replies'[i] = replies[i] /\ i <= Len(replies) + 1
    BY <1>2
  <1>4. /\ script[replies'[i].to].version = "1.1"
        /\ script[replies'[i].to].expect = "100-continue"
    BY <1>1, <1>2, <1>3 DEF InterimIsExpected
  <1>5. ASSUME NEW j \in DOMAIN replies'
        PROVE  /\ replies'[j].to = replies'[i].to => i <= j
               /\ replies'[j] = replies'[i] => i = j
    <2>1. CASE j \in DOMAIN replies
      BY <1>1, <1>2, <1>3, <2>1 DEF InterimIsExpected
    <2>2. CASE j = Len(replies) + 1
      BY <1>2, <1>3, <2>2
    <2>3. QED
      BY <2>1, <2>2
  <1>6. QED
    BY <1>4, <1>5

LEMMA ReplyStep ==
    InputInv /\ [Next]_vars => RefusalInv' /\ RepliesInv' /\ InterimIsExpected'
  <1>. SUFFICES ASSUME InputInv, [Next]_vars
                PROVE  RefusalInv' /\ RepliesInv' /\ InterimIsExpected'
    OBVIOUS
  <1>0. TypeOK /\ PlaceInv /\ CountInv /\ RefusalInv /\ RepliesInv /\ InterimIsExpected
    BY DEF InputInv
  <1>1. script' = script
    BY DEF Next, Server, vars, ClientSends, ClientGoesAhead, handleRead, handlePosted,
           parseOneRequest, parseFails, handleIncompleteRequest, handleExpectContinue,
           finishResponse, ConnectionEnds, Done
  <1>2. /\ {sent, received, consumed, served} \subseteq Nat
        /\ consumed <= received /\ received <= sent
        /\ itsMaxRequestSize \in Nat /\ SocketBuffer \in Nat /\ itsReceivedBytes \in Nat
    BY <1>0, Places, InputAssumption DEF TypeOK
  <1>. USE <1>0, <1>1, <1>2
  \* Nothing is replied.
  <1>3. ASSUME replies' = replies, served' = served,
               pc = "closed" => pc' = "closed",
               itsExpectHandled => itsExpectHandled',
               sent' - consumed' >= sent - consumed \/ pc # "closed",
               {sent', consumed'} \subseteq Nat
        PROVE  RefusalInv' /\ RepliesInv' /\ InterimIsExpected'
    BY <1>3 DEF RefusalInv, RepliesInv, InterimIsExpected
  \* A reply is the last thing the connection does.
  <1>4. ASSUME NEW code \in Codes \ {"100"}, Reply(code), pc # "closed", pc' = "closed",
               served' = served,
               code = "413" => sent' - consumed' > itsMaxRequestSize
        PROVE  RefusalInv' /\ RepliesInv' /\ InterimIsExpected'
    <2>1. InterimIsExpected'
      BY <1>4, FinalReply
    <2>2. RepliesInv'
      BY <1>4, ReplyAdds DEF RepliesInv
    <2>3. \A i \in DOMAIN replies : replies[i].code # "413"
      BY <1>4 DEF RefusalInv
    <2>4. RefusalInv'
      BY <1>4, <2>3, ReplyAdds DEF RefusalInv
    <2>5. QED
      BY <2>1, <2>2, <2>4
  <1>5. CASE ClientSends \/ ClientGoesAhead
    BY <1>3, <1>5 DEF ClientSends, ClientGoesAhead
  <1>6. CASE handleRead
    <2>1. PICK n \in 1 .. (IF sent - received < SocketBuffer THEN sent - received
                                                             ELSE SocketBuffer) :
              IF TooLarge(itsReceivedBytes + n)
              THEN pc' = "closed" /\ Reply("413") /\ UNCHANGED received
              ELSE pc' = "parse" /\ received' = received + n /\ UNCHANGED replies
      BY <1>6 DEF handleRead
    <2>2. /\ pc = "read" /\ itsReceivedBytes = received - consumed
          /\ UNCHANGED <<sent, consumed, served, itsExpectHandled>>
      BY <1>6 DEF handleRead, CountInv, Buffered
    <2>3. CASE TooLarge(itsReceivedBytes + n)
      <3>1. sent' - consumed' > itsMaxRequestSize
        BY <2>1, <2>2, <2>3 DEF TooLarge
      <3>2. QED
        BY <1>4, <2>1, <2>2, <2>3, <3>1 DEF Codes
    <2>4. CASE ~TooLarge(itsReceivedBytes + n)
      BY <1>3, <2>1, <2>2, <2>4
    <2>5. QED
      BY <2>3, <2>4
  <1>7. CASE handlePosted
    <2>1. /\ pc = "posted" /\ itsReceivedBytes = received - consumed
          /\ UNCHANGED <<sent, consumed, served, itsExpectHandled>>
      BY <1>7 DEF handlePosted, CountInv, Buffered
    <2>2. CASE TooLarge(itsReceivedBytes)
      <3>1. sent' - consumed' > itsMaxRequestSize
        BY <2>1, <2>2 DEF TooLarge
      <3>2. QED
        BY <1>4, <1>7, <2>1, <2>2, <3>1 DEF handlePosted, Codes
    <2>3. CASE ~TooLarge(itsReceivedBytes)
      BY <1>3, <1>7, <2>1, <2>3 DEF handlePosted
    <2>4. QED
      BY <2>2, <2>3
  <1>8. CASE parseOneRequest
    <2>1. consumed' \in Nat
      BY TypeStep DEF TypeOK
    <2>2. QED
      BY <1>3, <1>8, <2>1 DEF parseOneRequest
  <1>9. CASE handleIncompleteRequest
    <2>1. CASE HeaderTooLarge
      BY <1>4, <1>9, <2>1 DEF handleIncompleteRequest, Codes
    <2>2. CASE ~HeaderTooLarge
      BY <1>3, <1>9, <2>2 DEF handleIncompleteRequest
    <2>3. QED
      BY <2>1, <2>2
  <1>10. CASE handleExpectContinue
    <2>. DEFINE due == HeadComplete /\ ~itsExpectHandled /\ Current.version = "1.1"
    <2>1. /\ pc = "expect" /\ UNCHANGED <<sent, consumed, served>>
          /\ itsExpectHandled' = (itsExpectHandled \/ HeadComplete)
          /\ pc' = IF due /\ Current.expect = "other" THEN "closed" ELSE "read"
      BY <1>10 DEF handleExpectContinue
    <2>2. \/ due /\ Current.expect = "100-continue" /\ Reply("100")
          \/ due /\ Current.expect = "other" /\ Reply("417")
          \/ ~(due /\ Current.expect = "other") /\ UNCHANGED replies
      BY <1>10, Zenon DEF handleExpectContinue
    <2>3. CASE due /\ Current.expect = "100-continue" /\ Reply("100")
      <3>1. \A i \in DOMAIN replies : replies[i].to # served + 1 /\ replies[i].code # "413"
        BY <2>1, <2>3 DEF RepliesInv, RefusalInv
      <3>2. pc' = "read" /\ itsExpectHandled'
        BY <2>1, <2>3
      <3>3. ASSUME NEW i \in DOMAIN replies'
            PROVE  /\ replies'[i].to <= served' + 1 /\ replies'[i].code # "413"
                   /\ replies'[i].to = served' + 1 => replies'[i].code = "100"
        <4>1. CASE i \in DOMAIN replies
          BY <2>1, <2>3, <3>1, <4>1, ReplyAdds DEF RepliesInv
        <4>2. CASE i = Len(replies) + 1
          BY <2>1, <2>3, <4>2, ReplyAdds
        <4>3. QED
          BY <2>3, <4>1, <4>2, ReplyAdds
      <3>4. /\ script[served + 1].version = "1.1"
            /\ script[served + 1].expect = "100-continue"
        BY <2>3 DEF Current
      <3>5. RepliesInv' /\ RefusalInv'
        BY <3>2, <3>3 DEF RepliesInv, RefusalInv
      <3>6. SUFFICES ASSUME NEW i \in DOMAIN replies', replies'[i].code = "100"
                     PROVE  /\ script[replies'[i].to].version = "1.1"
                            /\ script[replies'[i].to].expect = "100-continue"
                            /\ \A j \in DOMAIN replies' :
                                  /\ replies'[j].to = replies'[i].to => i <= j
                                  /\ replies'[j] = replies'[i] => i = j
        BY <3>5, Zenon DEF InterimIsExpected
      <3>7. \A k \in DOMAIN replies' : k \in DOMAIN replies \/ k = Len(replies) + 1
        BY <2>3, ReplyAdds
      <3>8. CASE i \in DOMAIN replies
        <4>1. /\ replies'[i] = replies[i] /\ replies'[i].to # served + 1
              /\ i <= Len(replies) + 1
          BY <2>3, <3>1, <3>8, ReplyAdds
        <4>2. QED
          BY <2>3, <3>6, <3>7, <3>8, <4>1, ReplyAdds DEF InterimIsExpected
      <3>9. CASE i = Len(replies) + 1
        <4>1. replies'[i].to = served + 1
          BY <2>3, <3>9, ReplyAdds
        <4>2. \A j \in DOMAIN replies : replies'[j].to # served + 1
          BY <2>3, <3>1, ReplyAdds
        <4>3. QED
          BY <2>3, <3>4, <3>7, <3>9, <4>1, <4>2, ReplyAdds
      <3>10. QED
        BY <3>7, <3>8, <3>9
    <2>4. CASE due /\ Current.expect = "other" /\ Reply("417")
      BY <1>4, <2>1, <2>4 DEF Codes
    <2>5. CASE ~(due /\ Current.expect = "other") /\ UNCHANGED replies
      BY <1>3, <2>1, <2>5
    <2>6. QED
      BY <2>2, <2>3, <2>4, <2>5
  <1>11. CASE finishResponse
    <2>1. /\ pc = "answer" /\ pc' # "closed" /\ served' = served + 1 /\ Reply("200")
      BY <1>11 DEF finishResponse
    <2>2. InterimIsExpected'
      BY <2>1, FinalReply
    <2>3. ASSUME NEW i \in DOMAIN replies'
          PROVE  replies'[i].to <= served + 1 /\ replies'[i].code # "413"
      <3>1. CASE i \in DOMAIN replies
        BY <2>1, <3>1, ReplyAdds DEF RepliesInv, RefusalInv
      <3>2. CASE i = Len(replies) + 1
        BY <2>1, <3>2, ReplyAdds
      <3>3. QED
        BY <2>1, <3>1, <3>2, ReplyAdds
    <2>4. ASSUME NEW i \in DOMAIN replies'
          PROVE  replies'[i].to <= served' + 1 /\ replies'[i].to # served' + 1
      <3>1. replies'[i].to \in Nat
        <4>1. CASE i \in DOMAIN replies
          BY <2>1, <4>1, ReplyAdds
        <4>2. CASE i = Len(replies) + 1
          BY <2>1, <4>2, ReplyAdds
        <4>3. QED
          BY <2>1, <4>1, <4>2, ReplyAdds
      <3>2. QED
        BY <2>1, <2>3, <3>1
    <2>5. QED
      BY <2>2, <2>3, <2>4 DEF RepliesInv, RefusalInv
  <1>12. CASE ConnectionEnds
    BY <1>3, <1>12 DEF ConnectionEnds
  <1>13. CASE parseFails
    BY <1>4, <1>13 DEF parseFails, Codes
  <1>14. CASE UNCHANGED vars
    BY <1>3, <1>14 DEF vars
  <1>15. QED
    BY <1>5, <1>6, <1>7, <1>8, <1>9, <1>10, <1>11, <1>12, <1>13, <1>14
       DEF Next, Server, Done

-----------------------------------------------------------------------------

\* The inductive invariant holds in every behaviour.
THEOREM Invariance == Spec => []InputInv
  <1>1. InputInv /\ [Next]_vars => InputInv'
    BY TypeStep, PlaceStep, CountStep, ReplyStep DEF InputInv
  <1>2. QED
    BY InitInput, <1>1, PTL DEF Spec

\* Every variable keeps its type; positions stay in order, in every script.
THEOREM TypeCorrectness == Spec => []TypeOK
  BY Invariance, PTL DEF InputInv

\* handleRead and handleIncompleteRequest bound the buffer by both limits, and a 413 goes
\* only to a client that has sent more than maxrequestsize beyond the last request parsed,
\* however the bytes are split into reads.
THEOREM LimitsAreKept == Spec => []LimitsHold
  <1>1. ASSUME InputInv PROVE LimitsHold
    <2>1. /\ received \in Nat /\ consumed \in Nat /\ itsMaxRequestSize \in Nat
      BY <1>1, Places, InputAssumption DEF InputInv
    <2>2. BufferedIsBounded
      BY <1>1, <2>1
         DEF InputInv, BufferedIsBounded, CountInv, HeaderInv, TooLarge, Buffered
    <2>3. QED
      BY <1>1, <2>2 DEF InputInv, LimitsHold, OnlyExcessIsRefused, RefusalInv
  <1>2. QED
    BY Invariance, <1>1, PTL

\* handleExpectContinue writes 100 Continue only to an HTTP/1.1 request that expects it,
\* once, and before that request's final response.
THEOREM InterimExpected == Spec => []InterimIsExpected
  BY Invariance, PTL DEF InputInv

=============================================================================
