--------------------------- MODULE ReplyPathsProofs ---------------------------
(***************************************************************************)
(* Theorems about ReplyPaths, for bodies of every length.                  *)
(*                                                                         *)
(* The argument: at every step that writes, what the client's reader will  *)
(* be when it has read everything handed over so far is known, however     *)
(* much of it has been taken yet (ReaderInv).  Reading is a fold; the      *)
(* first part of the module says what it does with whole bodies.           *)
(***************************************************************************)
EXTENDS ReplyPaths, Integers, WellFoundedInduction, SequenceTheorems, TLAPS

-----------------------------------------------------------------------------
(* Induction, in a form without an operator to instantiate.                *)

Less == {p \in Nat \X Nat : p[1] < p[2]}

\* A set of naturals with an element has a least one.
LEMMA LeastNumber ==
    ASSUME NEW S \in SUBSET Nat, S # {}
    PROVE  \E m \in S : \A n \in S : m <= n
  <1>1. IsWellFoundedOn(Less, Nat)
    BY NatLessThanWellFounded DEF OpToRel, Less
  <1>2. \E m \in S : \A n \in S : ~(<<n, m>> \in Less)
    BY <1>1, WFMin
  <1>3. \A m, n \in Nat : ~(<<n, m>> \in Less) => m <= n
    BY DEF Less
  <1>4. QED
    BY <1>2, <1>3, Zenon

\* A set with 0 and the successors of its elements is that of all naturals.
LEMMA SetInduction ==
    ASSUME NEW S \in SUBSET Nat, 0 \in S, \A n \in S : n + 1 \in S
    PROVE  S = Nat
  <1>1. SUFFICES ASSUME Nat \ S # {} PROVE FALSE
    OBVIOUS
  <1>2. PICK m \in Nat \ S : \A n \in Nat \ S : m <= n
    BY <1>1, LeastNumber
  <1>3. m - 1 \in Nat /\ m - 1 \in S
    BY <1>2
  <1>4. (m - 1) + 1 \in S
    BY <1>3
  <1>5. QED
    BY <1>2, <1>4

-----------------------------------------------------------------------------
(* Reading: a fold over the tokens, one after another.  What a reader does *)
(* depends on whether the response has a body and on the version; these    *)
(* are arguments here, so that the lemmas are about constants.             *)

AfterHeadOf(none, v11, c, h) ==
    LET d == [c EXCEPT !.persistent = h.persistent]
    IN  IF none THEN Complete(d)
        ELSE CASE h.framing = "chunked" /\ v11          -> [d EXCEPT !.mode = "chunks"]
               [] h.framing = "length" /\ h.length = 0  -> Complete(d)
               [] h.framing = "length" /\ h.length > 0  -> [d EXCEPT !.mode = "length",
                                                                     !.left = h.length]
               [] OTHER                                 -> [d EXCEPT !.mode = "close"]

FeedOf(none, v11, c, token) ==
    CASE c.mode = "boundary" /\ token.type = "head" -> AfterHeadOf(none, v11, c, token)
      [] c.mode = "length" /\ c.left = 1            -> Complete(Consume(c))
      [] c.mode = "length" /\ c.left > 1            -> Consume(c)
      [] c.mode = "chunks" /\ c.left > 0            -> Consume(c)
      [] c.mode = "chunks" /\ c.left = 0 /\ token.type = "chunk" ->
             IF token.length = 0 THEN Complete(c) ELSE [c EXCEPT !.left = token.length]
      [] c.mode = "close"                           -> [c EXCEPT !.body = @ + 1]
      [] OTHER                                      -> Lost(c)

Reader(none, v11, c, s) == FoldLeft(LAMBDA d, t : FeedOf(none, v11, d, t), c, s)

None == request.head \/ ~itsResponse.hasBody

\* The client's reader is that one.
LEMMA ReadIsReader ==
    \A s : Read(s) = Reader(None, request.v11, client, s)
  BY DEF Read, Reader, FoldLeft, MapThenFoldSet, Feed, FeedOf, AfterHead, AfterHeadOf, None

\* F gives what the reader is after each subset of the first m tokens, taken in order.
Readings(F, none, v11, c, s, m) ==
    F = [x \in SUBSET (1 .. m) |->
            IF x = {} THEN c ELSE FeedOf(none, v11, F[x \ {Max(x)}], s[Max(x)])]

LEMMA ReaderIsReading ==
    ASSUME NEW none, NEW v11, NEW c, NEW s, DOMAIN s = 1 .. Len(s)
    PROVE  Reader(none, v11, c, s)
              = (CHOOSE F : Readings(F, none, v11, c, s, Len(s)))[1 .. Len(s)]
  BY DEF Reader, Readings, FoldLeft, MapThenFoldSet, Max

LEMMA MaxOfInterval ==
    ASSUME NEW m \in Nat, NEW x \in SUBSET (1 .. m), m \in x
    PROVE  Max(x) = m
  <1>1. \A y \in x : m >= y
    OBVIOUS
  <1>2. \A z \in x : (\A y \in x : z >= y) => z = m
    <2>1. \A z \in x : z \in 1 .. m
      OBVIOUS
    <2>2. QED
      BY <2>1
  <1>3. QED
    BY <1>1, <1>2 DEF Max

LEMMA ReadingApply ==
    ASSUME NEW none, NEW v11, NEW c, NEW s, NEW m \in Nat, NEW F,
           Readings(F, none, v11, c, s, m),
           NEW x \in SUBSET (1 .. m)
    PROVE  /\ x = {} => F[x] = c
           /\ x # {} => F[x] = FeedOf(none, v11, F[x \ {Max(x)}], s[Max(x)])
  <1>. DEFINE body == [y \in SUBSET (1 .. m) |->
                         IF y = {} THEN c ELSE FeedOf(none, v11, F[y \ {Max(y)}], s[Max(y)])]
  <1>1. body[x] = IF x = {} THEN c ELSE FeedOf(none, v11, F[x \ {Max(x)}], s[Max(x)])
    BY Zenon
  <1>2. F = body
    BY Zenon DEF Readings
  <1>3. QED
    BY <1>1, <1>2, Zenon

\* Such a reading exists, for any number of tokens.
LEMMA ReadingsExist ==
    ASSUME NEW none, NEW v11, NEW c, NEW s
    PROVE  \A m \in Nat : \E F : Readings(F, none, v11, c, s, m)
  <1>. DEFINE S == {m \in Nat : \E F : Readings(F, none, v11, c, s, m)}
  <1>1. 0 \in S
    <2>. DEFINE F == [x \in SUBSET (1 .. 0) |-> c]
    <2>1. F = [x \in SUBSET (1 .. 0) |->
                  IF x = {} THEN c ELSE FeedOf(none, v11, F[x \ {Max(x)}], s[Max(x)])]
      OBVIOUS
    <2>2. Readings(F, none, v11, c, s, 0)
      BY <2>1 DEF Readings
    <2>3. QED
      BY <2>2
  <1>2. ASSUME NEW m \in S PROVE m + 1 \in S
    <2>1. PICK F : Readings(F, none, v11, c, s, m)
      OBVIOUS
    <2>. DEFINE G == [x \in SUBSET (1 .. m + 1) |->
                        IF m + 1 \in x THEN FeedOf(none, v11, F[x \ {m + 1}], s[m + 1]) ELSE F[x]]
                rest(x) == x \ {Max(x)}
    <2>2. ASSUME NEW x \in SUBSET (1 .. m + 1)
          PROVE  G[x] = IF x = {} THEN c ELSE FeedOf(none, v11, G[rest(x)], s[Max(x)])
      <3>0. rest(x) \in SUBSET (1 .. m + 1)
        OBVIOUS
      <3>1. CASE m + 1 \in x
        <4>1. Max(x) = m + 1
          BY <3>1, MaxOfInterval
        <4>2. G[x] = FeedOf(none, v11, F[x \ {m + 1}], s[m + 1])
          BY <3>1
        <4>3. G[rest(x)] = F[x \ {m + 1}]
          BY <3>0, <4>1
        <4>4. QED
          BY <3>1, <4>1, <4>2, <4>3, Zenon
      <3>2. CASE m + 1 \notin x
        <4>1. x \in SUBSET (1 .. m) /\ m + 1 \notin rest(x)
          BY <3>2
        <4>2. G[x] = F[x] /\ G[rest(x)] = F[rest(x)]
          BY <3>0, <3>2, <4>1
        <4>3. /\ x = {} => F[x] = c
              /\ x # {} => F[x] = FeedOf(none, v11, F[rest(x)], s[Max(x)])
          BY <2>1, <4>1, ReadingApply
        <4>4. QED
          BY <4>2, <4>3, Zenon
      <3>3. QED
        BY <3>1, <3>2
    <2>3. G = [x \in SUBSET (1 .. m + 1) |->
                  IF x = {} THEN c ELSE FeedOf(none, v11, G[x \ {Max(x)}], s[Max(x)])]
      <3>. DEFINE body == [x \in SUBSET (1 .. m + 1) |->
                             IF x = {} THEN c ELSE FeedOf(none, v11, G[x \ {Max(x)}], s[Max(x)])]
      <3>1. \A x \in SUBSET (1 .. m + 1) : G[x] = body[x]
        <4>. HIDE DEF G
        <4>. QED BY <2>2, Zenon
      <3>2. DOMAIN G = SUBSET (1 .. m + 1) /\ DOMAIN body = SUBSET (1 .. m + 1)
        OBVIOUS
      <3>3. G = body
        BY <3>1, <3>2
      <3>4. QED
        BY <3>3
    <2>4. Readings(G, none, v11, c, s, m + 1)
      BY <2>3, Zenon DEF Readings
    <2>5. QED
      BY <2>4
  <1>3. S = Nat
    <2>. HIDE DEF S
    <2>1. S \in SUBSET Nat
      BY DEF S
    <2>2. QED
      BY <1>1, <1>2, <2>1, SetInduction
  <1>4. QED
    BY <1>3

\* at gives what the reader is after each of the first tokens.
Along(at, none, v11, c, s) ==
    at[0] = c /\ \A k \in 1 .. Len(s) : at[k] = FeedOf(none, v11, at[k - 1], s[k])

\* F does the same on the prefixes, which are the subsets 1 .. k.
AlongPrefixes(F, none, v11, c, s, n) ==
    /\ F[1 .. 0] = c
    /\ \A k \in 1 .. n : F[1 .. k] = FeedOf(none, v11, F[1 .. (k - 1)], s[k])

LEMMA ReadingAlong ==
    ASSUME NEW none, NEW v11, NEW c, NEW s, NEW n \in Nat, NEW F,
           Readings(F, none, v11, c, s, n)
    PROVE  AlongPrefixes(F, none, v11, c, s, n)
  <1>2. F[1 .. 0] = c
    <2>0. PICK x : x = 1 .. 0
      OBVIOUS
    <2>1. x = {} /\ x \in SUBSET (1 .. n) /\ 0 \in 0 .. n
      BY <2>0
    <2>2. F[x] = c
      BY <2>1, ReadingApply DEF Readings
    <2>3. QED
      BY <2>0, <2>1, <2>2
  <1>3. ASSUME NEW k \in 1 .. n
        PROVE  F[1 .. k] = FeedOf(none, v11, F[1 .. (k - 1)], s[k])
    <2>0. PICK x : x = 1 .. k
      OBVIOUS
    <2>1. /\ x \in SUBSET (1 .. n) /\ x # {} /\ k \in x /\ k \in Nat
          /\ x \in SUBSET (1 .. k)
          /\ k \in 0 .. n /\ k - 1 \in 0 .. n
      BY <2>0, SMT
    <2>5. x \ {k} = 1 .. (k - 1)
      BY <2>0, <2>1
    <2>2. Max(x) = k
      BY <2>1, MaxOfInterval
    <2>3. F[x] = FeedOf(none, v11, F[x \ {Max(x)}], s[Max(x)])
      BY <2>1, ReadingApply DEF Readings
    <2>4. QED
      BY <2>0, <2>1, <2>2, <2>3, <2>5, Zenon
  <1>4. QED
    BY <1>2, <1>3, Zenon DEF AlongPrefixes

LEMMA ReaderAlong ==
    ASSUME NEW T, NEW none, NEW v11, NEW c, NEW s \in Seq(T)
    PROVE  \E at : Along(at, none, v11, c, s) /\ Reader(none, v11, c, s) = at[Len(s)]
  <1>1. Len(s) \in Nat /\ DOMAIN s = 1 .. Len(s)
    OBVIOUS
  <1>2. PICK n \in Nat : n = Len(s)
    BY <1>1
  <1>3. PICK F : F = CHOOSE G : Readings(G, none, v11, c, s, n)
    OBVIOUS
  <1>4. Readings(F, none, v11, c, s, n)
    BY <1>3, ReadingsExist, Zenon
  <1>5. Reader(none, v11, c, s) = F[1 .. n]
    BY <1>1, <1>2, <1>3, ReaderIsReading, Zenon
  <1>a. PICK at : at = [k \in 0 .. n |-> F[1 .. k]]
    OBVIOUS
  <1>6. Along(at, none, v11, c, s)
    <2>0. AlongPrefixes(F, none, v11, c, s, n)
      BY <1>4, ReadingAlong, Zenon
    <2>1. /\ F[1 .. 0] = c
          /\ \A k \in 1 .. n : F[1 .. k] = FeedOf(none, v11, F[1 .. (k - 1)], s[k])
      BY <2>0, Zenon DEF AlongPrefixes
    <2>2. at[0] = c /\ \A k \in 1 .. n : at[k] = FeedOf(none, v11, at[k - 1], s[k])
      <3>1. \A k \in 0 .. n : at[k] = F[1 .. k]
        BY <1>a
      <3>2. 0 \in 0 .. n /\ \A k \in 1 .. n : k \in 0 .. n /\ k - 1 \in 0 .. n
        OBVIOUS
      <3>3. QED
        BY <2>1, <3>1, <3>2, Zenon
    <2>3. QED
      BY <1>2, <2>2, Zenon DEF Along
  <1>7. at[n] = F[1 .. n]
    BY <1>a
  <1>8. QED
    BY <1>2, <1>5, <1>6, <1>7

\* What holds of the reader before the first token, and after a token when it held
\* before it, holds after the last one: Q gives the readers allowed after each token.
LEMMA ReaderPasses ==
    ASSUME NEW T, NEW none, NEW v11, NEW c, NEW s \in Seq(T), NEW Q,
           c \in Q[0],
           \A k \in 1 .. Len(s) : \A d \in Q[k - 1] : FeedOf(none, v11, d, s[k]) \in Q[k]
    PROVE  Reader(none, v11, c, s) \in Q[Len(s)]
  <1>1. PICK at : Along(at, none, v11, c, s) /\ Reader(none, v11, c, s) = at[Len(s)]
    BY ReaderAlong
  <1>2. PICK n \in Nat : n = Len(s)
    OBVIOUS
  <1>. DEFINE S == {k \in Nat : k <= n => at[k] \in Q[k]}
  <1>3. 0 \in S
    BY <1>1 DEF Along
  <1>4. ASSUME NEW k \in S PROVE k + 1 \in S
    <2>1. SUFFICES ASSUME k + 1 <= n PROVE at[k + 1] \in Q[k + 1]
      OBVIOUS
    <2>2. k + 1 \in 1 .. Len(s) /\ (k + 1) - 1 = k /\ at[k] \in Q[k]
      BY <1>2, <2>1
    <2>3. at[k + 1] = FeedOf(none, v11, at[k], s[k + 1])
      BY <1>1, <2>2 DEF Along
    <2>4. QED
      BY <2>2, <2>3
  <1>5. n \in S
    <2>. HIDE DEF S
    <2>1. S \in SUBSET Nat
      BY DEF S
    <2>2. S = Nat
      BY <1>3, <1>4, <2>1, SetInduction
    <2>3. QED
      BY <2>2
  <1>6. QED
    BY <1>1, <1>2, <1>5

\* A reader reads the tokens of a concatenation in order.
LEMMA ReaderOfConcat ==
    ASSUME NEW T, NEW none, NEW v11, NEW c, NEW s \in Seq(T), NEW t \in Seq(T)
    PROVE  Reader(none, v11, c, s \o t) = Reader(none, v11, Reader(none, v11, c, s), t)
  <1>1. PICK at : Along(at, none, v11, c, s) /\ Reader(none, v11, c, s) = at[Len(s)]
    BY ReaderAlong
  <1>2. PICK on : /\ Along(on, none, v11, at[Len(s)], t)
                  /\ Reader(none, v11, at[Len(s)], t) = on[Len(t)]
    BY ReaderAlong
  <1>3. PICK n \in Nat, m \in Nat : n = Len(s) /\ m = Len(t)
    OBVIOUS
  <1>4. s \o t \in Seq(T) /\ Len(s \o t) = n + m
    BY <1>3
  <1>. DEFINE Q == [k \in 0 .. n + m |-> IF k <= n THEN {at[k]} ELSE {on[k - n]}]
  <1>5. c \in Q[0]
    BY <1>1 DEF Along
  <1>6. ASSUME NEW k \in 1 .. n + m, NEW d \in Q[k - 1]
        PROVE  FeedOf(none, v11, d, (s \o t)[k]) \in Q[k]
    <2>1. CASE k <= n
      <3>1. d = at[k - 1] /\ Q[k] = {at[k]} /\ (s \o t)[k] = s[k] /\ k \in 1 .. Len(s)
        BY <1>3, <2>1
      <3>2. at[k] = FeedOf(none, v11, at[k - 1], s[k])
        BY <1>1, <3>1 DEF Along
      <3>3. QED
        BY <3>1, <3>2
    <2>2. CASE k > n
      <3>1. PICK j \in 1 .. m : k = n + j
        <4>1. k - n \in 1 .. m /\ k = n + (k - n)
          BY <2>2
        <4>2. QED
          BY <4>1
      <3>2. Q[k] = {on[j]} /\ (s \o t)[k] = t[j] /\ j \in 1 .. Len(t)
        BY <1>3, <2>2, <3>1
      <3>3. d = on[j - 1]
        <4>1. CASE j = 1
          <5>1. d = at[n]
            BY <3>1, <4>1
          <5>2. on[0] = at[n]
            BY <1>2, <1>3 DEF Along
          <5>3. QED
            BY <4>1, <5>1, <5>2
        <4>2. CASE j > 1
          <5>1. k - 1 \in 0 .. n + m /\ ~(k - 1 <= n) /\ (k - 1) - n = j - 1
            BY <3>1, <4>2
          <5>2. QED
            BY <5>1
        <4>3. QED
          BY <3>1, <4>1, <4>2
      <3>4. on[j] = FeedOf(none, v11, on[j - 1], t[j])
        BY <1>2, <3>2 DEF Along
      <3>5. QED
        BY <3>2, <3>3, <3>4
    <2>3. k <= n \/ k > n
      OBVIOUS
    <2>4. QED
      BY <2>1, <2>2, <2>3, Zenon
  <1>7. Reader(none, v11, c, s \o t) \in Q[n + m]
    <2>. HIDE DEF Q
    <2>. QED BY <1>4, <1>5, <1>6, ReaderPasses
  <1>8. Q[n + m] = {on[m]}
    <2>1. CASE m = 0
      BY <1>2, <1>3, <2>1 DEF Along
    <2>2. CASE m > 0
      BY <2>2
    <2>3. m = 0 \/ m > 0
      OBVIOUS
    <2>4. QED
      BY <2>1, <2>2, <2>3, Zenon
  <1>9. QED
    BY <1>1, <1>2, <1>3, <1>7, <1>8

\* Nothing read, and one token.
LEMMA ReaderOfFew ==
    ASSUME NEW T, NEW none, NEW v11, NEW c
    PROVE  /\ Reader(none, v11, c, <<>>) = c
           /\ \A t \in T : Reader(none, v11, c, <<t>>) = FeedOf(none, v11, c, t)
  <1>1. Reader(none, v11, c, <<>>) = c
    <2>1. PICK s : s = <<>>
      OBVIOUS
    <2>0. s \in Seq(T)
      BY <2>1
    <2>2. Len(s) = 0
      BY <2>1
    <2>3. PICK at : Along(at, none, v11, c, s) /\ Reader(none, v11, c, s) = at[Len(s)]
      BY <2>0, ReaderAlong
    <2>4. QED
      BY <2>1, <2>2, <2>3 DEF Along
  <1>2. ASSUME NEW t \in T PROVE Reader(none, v11, c, <<t>>) = FeedOf(none, v11, c, t)
    <2>1. PICK s : s = <<t>>
      OBVIOUS
    <2>0. s \in Seq(T)
      BY <2>1
    <2>2. Len(s) = 1 /\ s[1] = t
      BY <2>1
    <2>3. PICK at : Along(at, none, v11, c, s) /\ Reader(none, v11, c, s) = at[Len(s)]
      BY <2>0, ReaderAlong
    <2>4. at[1] = FeedOf(none, v11, at[1 - 1], s[1]) /\ at[0] = c
      BY <2>2, <2>3 DEF Along
    <2>5. QED
      BY <2>1, <2>2, <2>3, <2>4
  <1>3. QED
    BY <1>1, <1>2

-----------------------------------------------------------------------------
(* What the tokens of a response do to a reader.                           *)

Token == [type : {"head", "byte", "chunk"}, framing : {"", "none", "length", "chunked"},
          length : Lengths, persistent : BOOLEAN]

ClientType == [mode : Modes, left : Lengths, body : Nat, messages : Nat,
               persistent : BOOLEAN]

\* The reader's next state is one of these.
LEMMA FeedCases ==
    ASSUME NEW none, NEW v11, NEW c, NEW t
    PROVE  \/ c.mode = "boundary" /\ t.type = "head"
                 /\ FeedOf(none, v11, c, t) = AfterHeadOf(none, v11, c, t)
           \/ c.mode = "length" /\ c.left = 1
                 /\ FeedOf(none, v11, c, t) = Complete(Consume(c))
           \/ c.mode = "length" /\ c.left > 1 /\ FeedOf(none, v11, c, t) = Consume(c)
           \/ c.mode = "chunks" /\ c.left > 0 /\ FeedOf(none, v11, c, t) = Consume(c)
           \/ c.mode = "chunks" /\ c.left = 0 /\ t.type = "chunk"
                 /\ FeedOf(none, v11, c, t) = IF t.length = 0 THEN Complete(c)
                                              ELSE [c EXCEPT !.left = t.length]
           \/ c.mode = "close" /\ FeedOf(none, v11, c, t) = [c EXCEPT !.body = @ + 1]
           \/ FeedOf(none, v11, c, t) = Lost(c)
  BY DEF FeedOf

Announced(c, h) == [c EXCEPT !.persistent = h.persistent]

\* A token keeps the type, never takes a completed message back, and only a header
\* section says anything of persistence.
LEMMA FeedKeeps ==
    ASSUME NEW none, NEW v11, NEW c \in ClientType, NEW t \in Token
    PROVE  /\ FeedOf(none, v11, c, t) \in ClientType
           /\ FeedOf(none, v11, c, t).messages >= c.messages
           /\ t.type # "head" => FeedOf(none, v11, c, t).persistent = c.persistent
  <1>. DEFINE e == FeedOf(none, v11, c, t)
              Kept(x) == x \in ClientType /\ x.messages >= c.messages
                            /\ x.persistent = c.persistent
  <1>1. Lengths \subseteq Nat /\ 0 \in Lengths /\ \A n \in Lengths : n > 0 => n - 1 \in Lengths
    BY ReplyAssumption DEF Lengths
  <1>a. "boundary" \in Modes /\ "chunks" \in Modes /\ "length" \in Modes /\ "close" \in Modes
          /\ "lost" \in Modes
    BY DEF Modes
  <1>b. /\ c.body \in Nat /\ c.body + 1 \in Nat /\ c.messages \in Nat /\ c.left \in Lengths
    BY DEF ClientType
  <1>c. t.length \in Lengths /\ t.persistent \in BOOLEAN
    BY DEF Token
  <1>2. ASSUME NEW x \in ClientType
        PROVE  Complete(x) \in ClientType /\ Complete(x).messages >= x.messages
                  /\ Complete(x).persistent = x.persistent
    <2>1. x.messages + 1 \in Nat
      BY DEF ClientType
    <2>2. Complete(x) \in ClientType
      BY <1>1, <1>a, <2>1, Zenon DEF ClientType, Complete
    <2>3. Complete(x).messages >= x.messages /\ Complete(x).persistent = x.persistent
      BY DEF ClientType, Complete
    <2>4. QED
      BY <2>2, <2>3
  <1>3. ASSUME c.left > 0
        PROVE  Kept(Consume(c))
    <2>1. c.left - 1 \in Lengths
      BY <1>1, <1>3, <1>b
    <2>2. Consume(c) \in ClientType
      BY <1>b, <2>1, Zenon DEF ClientType, Consume
    <2>3. Consume(c).messages >= c.messages /\ Consume(c).persistent = c.persistent
      BY DEF ClientType, Consume
    <2>4. QED
      BY <2>2, <2>3
  <1>4. Kept(Lost(c))
    <2>1. Lost(c) \in ClientType
      BY <1>1, <1>a, Zenon DEF ClientType, Lost
    <2>2. Lost(c).messages >= c.messages /\ Lost(c).persistent = c.persistent
      BY DEF ClientType, Lost
    <2>3. QED
      BY <2>1, <2>2
  <1>5. CASE t.type = "head" /\ e = AfterHeadOf(none, v11, c, t)
    <2>. DEFINE d == Announced(c, t)
    <2>2. d \in ClientType /\ d.messages = c.messages
      <3>1. d \in ClientType
        BY <1>c, Zenon DEF ClientType, Announced
      <3>2. QED
        BY <3>1 DEF ClientType, Announced
    <2>. DEFINE Good(x) == x \in ClientType /\ x.messages >= c.messages
    <2>3. Good(Complete(d))
      BY <1>2, <2>2
    <2>4. Good([d EXCEPT !.mode = "chunks"]) /\ Good([d EXCEPT !.mode = "close"])
      BY <1>a, <1>b, <2>2 DEF ClientType
    <2>5. Good([d EXCEPT !.mode = "length", !.left = t.length])
      <3>1. [d EXCEPT !.mode = "length", !.left = t.length] \in ClientType
        BY <1>a, <1>c, <2>2, Zenon DEF ClientType
      <3>2. QED
        BY <1>b, <2>2, <3>1 DEF ClientType
    <2>6. \/ e = Complete(d) \/ e = [d EXCEPT !.mode = "chunks"]
          \/ e = [d EXCEPT !.mode = "length", !.left = t.length]
          \/ e = [d EXCEPT !.mode = "close"]
      <3>1. e = AfterHeadOf(none, v11, c, t)
        BY <1>5
      <3>2. \/ AfterHeadOf(none, v11, c, t) = Complete(d)
            \/ AfterHeadOf(none, v11, c, t) = [d EXCEPT !.mode = "chunks"]
            \/ AfterHeadOf(none, v11, c, t) = [d EXCEPT !.mode = "length", !.left = t.length]
            \/ AfterHeadOf(none, v11, c, t) = [d EXCEPT !.mode = "close"]
        BY DEF AfterHeadOf, Announced
      <3>3. QED
        BY <3>1, <3>2, Zenon
    <2>. HIDE DEF Good
    <2>7. Good(e)
      BY <2>3, <2>4, <2>5, <2>6, Zenon
    <2>8. QED
      BY <1>5, <2>7 DEF Good
  <1>6. CASE \/ c.left = 1 /\ e = Complete(Consume(c))
             \/ c.left > 0 /\ e = Consume(c)
             \/ e = Complete(c)
             \/ e = [c EXCEPT !.left = t.length]
             \/ e = [c EXCEPT !.body = @ + 1]
             \/ e = Lost(c)
    <2>1. Kept([c EXCEPT !.left = t.length]) /\ Kept([c EXCEPT !.body = @ + 1])
      <3>1. [c EXCEPT !.left = t.length] \in ClientType
        BY <1>c, Zenon DEF ClientType
      <3>2. [c EXCEPT !.body = @ + 1] \in ClientType
        BY <1>b, Zenon DEF ClientType
      <3>3. QED
        BY <3>1, <3>2 DEF ClientType
    <2>2. Kept(Complete(c))
      BY <1>2
    <2>3. c.left > 0 => Kept(Complete(Consume(c)))
      <3>1. ASSUME NEW x, Kept(x) PROVE Kept(Complete(x))
        <4>1. x.messages \in Nat /\ Complete(x).messages \in Nat
          BY <1>2, <3>1 DEF ClientType
        <4>2. QED
          BY <1>2, <1>b, <3>1, <4>1
      <3>2. QED
        BY <1>3, <3>1
    <2>6. c.left = 1 => c.left > 0
      OBVIOUS
    <2>. HIDE DEF Kept
    <2>4. Kept(e)
      BY <1>3, <1>4, <1>6, <2>1, <2>2, <2>3, <2>6, Zenon
    <2>5. QED
      BY <2>4 DEF Kept
  <1>7. QED
    <2>1. \/ t.type = "head" /\ e = AfterHeadOf(none, v11, c, t)
          \/ c.left = 1 /\ e = Complete(Consume(c))
          \/ c.left > 0 /\ e = Consume(c)
          \/ e = Complete(c)
          \/ e = [c EXCEPT !.left = t.length]
          \/ e = [c EXCEPT !.body = @ + 1]
          \/ e = Lost(c)
      <3>1. c.left > 1 => c.left > 0
        BY <1>b DEF Lengths
      <3>. HIDE DEF e
      <3>2. QED
        BY <3>1, FeedCases DEF e
    <2>. HIDE DEF e
    <2>2. QED
      BY <1>5, <1>6, <2>1, Zenon

LEMMA ReaderKeeps ==
    ASSUME NEW none, NEW v11, NEW c \in ClientType, NEW s \in Seq(Token)
    PROVE  /\ Reader(none, v11, c, s) \in ClientType
           /\ Reader(none, v11, c, s).messages >= c.messages
           /\ (\A k \in 1 .. Len(s) : s[k].type # "head")
                 => Reader(none, v11, c, s).persistent = c.persistent
  <1>. DEFINE Headless == \A k \in 1 .. Len(s) : s[k].type # "head"
              Kept == {d \in ClientType : /\ d.messages >= c.messages
                                          /\ Headless => d.persistent = c.persistent}
              Q == [k \in 0 .. Len(s) |-> Kept]
  <1>1. Len(s) \in Nat /\ \A k \in 1 .. Len(s) : s[k] \in Token /\ Q[k] = Kept /\ Q[k - 1] = Kept
    OBVIOUS
  <1>2. c \in Q[0]
    BY <1>1 DEF ClientType
  <1>3. ASSUME NEW k \in 1 .. Len(s), NEW d \in Q[k - 1]
        PROVE  FeedOf(none, v11, d, s[k]) \in Q[k]
    <2>. DEFINE e == FeedOf(none, v11, d, s[k])
    <2>1. d \in Kept /\ s[k] \in Token
      BY <1>1
    <2>2. /\ e \in ClientType /\ e.messages >= d.messages
          /\ s[k].type # "head" => e.persistent = d.persistent
      BY <2>1, FeedKeeps
    <2>. HIDE DEF e, Headless
    <2>3. Headless => s[k].type # "head"
      BY DEF Headless
    <2>4. e.messages >= c.messages
      BY <2>1, <2>2 DEF ClientType
    <2>5. e \in Kept
      BY <2>1, <2>2, <2>3, <2>4, Zenon
    <2>6. QED
      BY <1>1, <2>5, Zenon DEF e
  <1>. HIDE DEF Q
  <1>4. Reader(none, v11, c, s) \in Q[Len(s)]
    BY <1>2, <1>3, ReaderPasses
  <1>5. Reader(none, v11, c, s) \in Kept
    BY <1>4 DEF Q
  <1>6. QED
    BY <1>5

\* A byte in a counted body, and in a chunk.
LEMMA FeedByte ==
    ASSUME NEW none, NEW v11, NEW c \in ClientType, c.left > 0,
           c.mode = "length" \/ c.mode = "chunks"
    PROVE  LET e == FeedOf(none, v11, c, Byte)
           IN  /\ e.body = c.body + 1 /\ e.left = c.left - 1
               /\ e.persistent = c.persistent
               /\ c.mode = "length" /\ c.left = 1 =>
                     e.mode = "boundary" /\ e.messages = c.messages + 1
               /\ c.mode = "length" /\ c.left > 1 =>
                     e.mode = "length" /\ e.messages = c.messages
               /\ c.mode = "chunks" => e.mode = "chunks" /\ e.messages = c.messages
  <1>1. c.left \in Nat /\ c.body \in Nat /\ c.messages \in Nat
    BY DEF ClientType, Lengths
  <1>2. ASSUME c.mode = "length", c.left = 1
        PROVE  FeedOf(none, v11, c, Byte) = Complete(Consume(c))
    BY <1>2 DEF FeedOf
  <1>3. ASSUME c.mode = "length", c.left > 1
        PROVE  FeedOf(none, v11, c, Byte) = Consume(c)
    BY <1>1, <1>3 DEF FeedOf
  <1>4. ASSUME c.mode = "chunks"
        PROVE  FeedOf(none, v11, c, Byte) = Consume(c)
    BY <1>1, <1>4 DEF FeedOf
  <1>5. /\ Consume(c).left = c.left - 1 /\ Consume(c).body = c.body + 1
        /\ Consume(c).messages = c.messages /\ Consume(c).mode = c.mode
        /\ Consume(c).persistent = c.persistent
    BY DEF Consume, ClientType
  <1>6. LET e == Complete(Consume(c))
        IN  /\ e.left = 0 /\ e.body = c.body + 1 /\ e.messages = c.messages + 1
            /\ e.mode = "boundary" /\ e.persistent = c.persistent
    BY DEF Consume, Complete, ClientType
  <1>7. QED
    <2>1. CASE c.mode = "length" /\ c.left = 1
      BY <1>1, <1>2, <1>6, <2>1
    <2>2. CASE c.mode = "length" /\ c.left > 1
      BY <1>1, <1>3, <1>5, <2>2
    <2>3. CASE c.mode = "chunks"
      BY <1>1, <1>4, <1>5, <2>3
    <2>4. c.left = 1 \/ c.left > 1
      BY <1>1
    <2>5. QED
      BY <2>1, <2>2, <2>3, <2>4

Framings == {"none", "length", "chunked"}

LEMMA Tokens ==
    /\ Byte \in Token /\ Byte.type = "byte"
    /\ \A n \in Lengths : Chunk(n) \in Token /\ Chunk(n).type = "chunk" /\ Chunk(n).length = n
    /\ \A n \in Lengths, p \in BOOLEAN, f \in Framings :
          /\ HeaderSection(f, n, p) \in Token /\ HeaderSection(f, n, p).type = "head"
          /\ HeaderSection(f, n, p).framing = f /\ HeaderSection(f, n, p).length = n
          /\ HeaderSection(f, n, p).persistent = p
    /\ Lengths \subseteq Nat /\ 0 \in Lengths /\ StockLength \in Lengths
    /\ "none" \in Framings /\ "length" \in Framings /\ "chunked" \in Framings
  BY ReplyAssumption DEF Byte, Chunk, HeaderSection, Token, Lengths, StockLength, Framings

LEMMA ContentTokens ==
    ASSUME NEW n \in Nat
    PROVE  /\ Content(n) \in Seq(Token) /\ Len(Content(n)) = n
           /\ \A k \in 1 .. n : Content(n)[k] = Byte
  BY Tokens DEF Content

\* n bytes, when the reader expects that many at least.
LEMMA ReadContent ==
    ASSUME NEW none, NEW v11, NEW c \in ClientType, NEW n \in Nat, n <= c.left,
           c.mode = "length" \/ c.mode = "chunks", n > 0 \/ c.mode = "chunks"
    PROVE  LET e == Reader(none, v11, c, Content(n))
           IN  /\ e \in ClientType
               /\ e.body = c.body + n /\ e.left = c.left - n
               /\ e.persistent = c.persistent
               /\ c.mode = "length" /\ n = c.left =>
                     e.mode = "boundary" /\ e.messages = c.messages + 1
               /\ c.mode = "length" /\ n < c.left =>
                     e.mode = "length" /\ e.messages = c.messages
               /\ c.mode = "chunks" => e.mode = "chunks" /\ e.messages = c.messages
  <1>. DEFINE s == Content(n)
              After(k) == {d \in ClientType :
                             /\ d.body = c.body + k /\ d.left = c.left - k
                             /\ d.persistent = c.persistent
                             /\ c.mode = "length" /\ k = c.left =>
                                   (k = 0 \/ (d.mode = "boundary" /\ d.messages = c.messages + 1))
                             /\ c.mode = "length" /\ k < c.left =>
                                   d.mode = "length" /\ d.messages = c.messages
                             /\ c.mode = "chunks" =>
                                   d.mode = "chunks" /\ d.messages = c.messages}
              Q == [k \in 0 .. n |-> After(k)]
  <1>1. c.left \in Nat /\ c.body \in Nat /\ c.messages \in Nat
    BY DEF ClientType, Lengths
  <1>2. s \in Seq(Token) /\ Len(s) = n /\ \A k \in 1 .. n : s[k] = Byte
    BY ContentTokens
  <1>. HIDE DEF s
  <1>3. c \in Q[0]
    BY <1>1
  <1>4. ASSUME NEW k \in 1 .. n, NEW d \in Q[k - 1]
        PROVE  FeedOf(none, v11, d, s[k]) \in Q[k]
    <2>. DEFINE e == FeedOf(none, v11, d, Byte)
    <2>1. d \in After(k - 1) /\ Q[k] = After(k) /\ s[k] = Byte /\ k \in Nat /\ k >= 1 /\ k <= c.left
      BY <1>1, <1>2
    <2>2. /\ d \in ClientType /\ d.left > 0 /\ d.mode = c.mode /\ d.messages = c.messages
          /\ d.left = c.left - (k - 1) /\ d.body = c.body + (k - 1)
          /\ d.persistent = c.persistent
      BY <1>1, <2>1
    <2>3. e \in ClientType
      BY <2>2, Tokens, FeedKeeps
    <2>4. /\ e.body = d.body + 1 /\ e.left = d.left - 1
          /\ e.persistent = d.persistent
          /\ d.mode = "length" /\ d.left = 1 =>
                e.mode = "boundary" /\ e.messages = d.messages + 1
          /\ d.mode = "length" /\ d.left > 1 =>
                e.mode = "length" /\ e.messages = d.messages
          /\ d.mode = "chunks" => e.mode = "chunks" /\ e.messages = d.messages
      BY <2>2, FeedByte
    <2>. HIDE DEF e
    <2>5. e \in After(k)
      <3>1. e.body = c.body + k /\ e.left = c.left - k
        BY <1>1, <2>1, <2>2, <2>4
      <3>2. e.persistent = c.persistent
        BY <2>2, <2>4, Zenon
      <3>3. c.mode = "length" /\ k = c.left =>
               e.mode = "boundary" /\ e.messages = c.messages + 1
        BY <1>1, <2>1, <2>2, <2>4
      <3>4. c.mode = "length" /\ k < c.left => e.mode = "length" /\ e.messages = c.messages
        BY <1>1, <2>1, <2>2, <2>4
      <3>5. c.mode = "chunks" => e.mode = "chunks" /\ e.messages = c.messages
        BY <2>2, <2>4
      <3>6. QED
        BY <2>3, <3>1, <3>2, <3>3, <3>4, <3>5, Zenon
    <2>. HIDE DEF After
    <2>6. QED
      BY <2>1, <2>5, Zenon DEF e
  <1>. HIDE DEF Q
  <1>5. Reader(none, v11, c, s) \in Q[n]
    BY <1>2, <1>3, <1>4, ReaderPasses
  <1>6. Reader(none, v11, c, s) \in After(n)
    BY <1>5 DEF Q
  <1>7. QED
    BY <1>1, <1>6 DEF s

\* A header section where one is expected.
LEMMA FeedHead ==
    ASSUME NEW none \in BOOLEAN, NEW v11 \in BOOLEAN, NEW c \in ClientType,
           c.mode = "boundary", NEW h \in Token, h.type = "head"
    PROVE  LET e == FeedOf(none, v11, c, h)
           IN  /\ e \in ClientType /\ e.persistent = h.persistent /\ e.body = c.body
               /\ none \/ (h.framing = "length" /\ h.length = 0) =>
                     e.mode = "boundary" /\ e.messages = c.messages + 1
               /\ ~none /\ h.framing = "length" /\ h.length > 0 =>
                     e.mode = "length" /\ e.left = h.length /\ e.messages = c.messages
               /\ ~none /\ h.framing = "chunked" /\ v11 =>
                     e.mode = "chunks" /\ e.left = c.left /\ e.messages = c.messages
  <1>. DEFINE d == Announced(c, h)
              e == FeedOf(none, v11, c, h)
  <1>1. e \in ClientType
    BY FeedKeeps
  <1>2. /\ d \in ClientType /\ d.persistent = h.persistent /\ d.body = c.body
        /\ d.messages = c.messages /\ d.left = c.left
    <2>1. h.persistent \in BOOLEAN
      BY DEF Token
    <2>2. d \in ClientType
      BY <2>1, Zenon DEF ClientType, Announced
    <2>3. QED
      BY <2>2 DEF ClientType, Announced
  <1>3. e =
        IF none THEN Complete(d)
        ELSE CASE h.framing = "chunked" /\ v11          -> [d EXCEPT !.mode = "chunks"]
               [] h.framing = "length" /\ h.length = 0  -> Complete(d)
               [] h.framing = "length" /\ h.length > 0  -> [d EXCEPT !.mode = "length",
                                                                     !.left = h.length]
               [] OTHER                                 -> [d EXCEPT !.mode = "close"]
    BY DEF FeedOf, AfterHeadOf, Announced
  <1>. HIDE DEF d, e
  <1>4. LET x == Complete(d)
        IN  /\ x.persistent = h.persistent /\ x.body = c.body
            /\ x.mode = "boundary" /\ x.messages = c.messages + 1
    BY <1>2 DEF Complete, ClientType
  <1>5. LET x == [d EXCEPT !.mode = "chunks"]
        IN  /\ x.persistent = h.persistent /\ x.body = c.body
            /\ x.mode = "chunks" /\ x.left = c.left /\ x.messages = c.messages
    BY <1>2 DEF ClientType
  <1>6. LET x == [d EXCEPT !.mode = "length", !.left = h.length]
        IN  /\ x.persistent = h.persistent /\ x.body = c.body
            /\ x.mode = "length" /\ x.left = h.length /\ x.messages = c.messages
    BY <1>2 DEF ClientType
  <1>7. LET x == [d EXCEPT !.mode = "close"]
        IN  x.persistent = h.persistent /\ x.body = c.body
    BY <1>2 DEF ClientType
  <1>8. h.length \in Nat
    BY Tokens DEF Token
  <1>9. QED
    <2>1. CASE none
      BY <1>1, <1>3, <1>4, <2>1 DEF e
    <2>2. CASE ~none /\ h.framing = "chunked" /\ v11
      BY <1>1, <1>3, <1>5, <2>2 DEF e
    <2>3. CASE ~none /\ h.framing = "length" /\ h.length = 0
      BY <1>1, <1>3, <1>4, <2>3 DEF e
    <2>4. CASE ~none /\ h.framing = "length" /\ h.length > 0
      BY <1>1, <1>3, <1>6, <1>8, <2>4 DEF e
    <2>5. CASE ~none /\ ~(h.framing = "chunked" /\ v11) /\ h.framing # "length"
      BY <1>1, <1>3, <1>7, <2>5 DEF e
    <2>6. h.length = 0 \/ h.length > 0
      BY <1>8
    <2>7. QED
      BY <2>1, <2>2, <2>3, <2>4, <2>5, <2>6

\* A chunk's size line where one is expected.
LEMMA FeedChunk ==
    ASSUME NEW none, NEW v11, NEW c \in ClientType, c.mode = "chunks", c.left = 0,
           NEW n \in Lengths
    PROVE  LET e == FeedOf(none, v11, c, Chunk(n))
           IN  /\ e \in ClientType /\ e.persistent = c.persistent /\ e.body = c.body
               /\ n = 0 => e.mode = "boundary" /\ e.messages = c.messages + 1
               /\ n > 0 => e.mode = "chunks" /\ e.left = n /\ e.messages = c.messages
  <1>. DEFINE e == FeedOf(none, v11, c, Chunk(n))
  <1>1. e \in ClientType
    BY FeedKeeps, Tokens
  <1>2. e = IF n = 0 THEN Complete(c) ELSE [c EXCEPT !.left = n]
    BY Tokens DEF FeedOf
  <1>3. LET x == Complete(c)
        IN  /\ x.persistent = c.persistent /\ x.body = c.body
            /\ x.mode = "boundary" /\ x.messages = c.messages + 1
    BY DEF Complete, ClientType
  <1>4. LET x == [c EXCEPT !.left = n]
        IN  /\ x.persistent = c.persistent /\ x.body = c.body
            /\ x.mode = "chunks" /\ x.left = n /\ x.messages = c.messages
    BY DEF ClientType
  <1>. HIDE DEF e
  <1>5. QED
    BY <1>1, <1>2, <1>3, <1>4 DEF e

LEMMA SplitSequence ==
    ASSUME NEW T, NEW s \in Seq(T), NEW a \in Nat, NEW b \in Nat, a + b <= Len(s)
    PROVE  /\ SubSeq(s, a + 1, a + b) \in Seq(T)
           /\ SubSeq(s, a + b + 1, Len(s)) \in Seq(T)
           /\ SubSeq(s, a + 1, Len(s))
                 = SubSeq(s, a + 1, a + b) \o SubSeq(s, a + b + 1, Len(s))
  <1>. DEFINE x == SubSeq(s, a + 1, a + b)
              y == SubSeq(s, a + b + 1, Len(s))
              z == SubSeq(s, a + 1, Len(s))
              n == Len(s)
  <1>1. n \in Nat /\ \A k \in 1 .. n : s[k] \in T
    OBVIOUS
  <1>2. /\ x \in Seq(T) /\ Len(x) = b
        /\ y \in Seq(T) /\ Len(y) = n - (a + b)
        /\ z \in Seq(T) /\ Len(z) = n - a
    OBVIOUS
  <1>3. /\ \A k \in 1 .. b : x[k] = s[a + k]
        /\ \A k \in 1 .. n - (a + b) : y[k] = s[a + b + k]
        /\ \A k \in 1 .. n - a : z[k] = s[a + k]
    BY <1>1
  <1>. HIDE DEF x, y, z
  <1>4. x \o y \in Seq(T) /\ Len(x \o y) = n - a
    <2>1. ASSUME NEW u \in Seq(T), NEW v \in Seq(T)
          PROVE  u \o v \in Seq(T) /\ Len(u \o v) = Len(u) + Len(v)
      OBVIOUS
    <2>2. QED
      BY <1>1, <1>2, <2>1
  <1>5. ASSUME NEW k \in 1 .. n - a PROVE z[k] = (x \o y)[k]
    <2>1. CASE k <= b
      <3>1. (x \o y)[k] = x[k]
        BY <1>1, <1>2, <2>1
      <3>2. QED
        BY <1>1, <1>3, <2>1, <3>1
    <2>2. CASE k > b
      <3>1. (x \o y)[k] = y[k - b]
        BY <1>1, <1>2, <2>2
      <3>2. k - b \in 1 .. n - (a + b) /\ a + b + (k - b) = a + k
        BY <1>1, <2>2
      <3>3. QED
        BY <1>1, <1>3, <3>1, <3>2
    <2>3. k <= b \/ k > b
      BY <1>1
    <2>4. QED
      BY <2>1, <2>2, <2>3, Zenon
  <1>6. z = x \o y
    BY <1>1, <1>2, <1>4, <1>5, SeqEqual
  <1>7. QED
    BY <1>2, <1>6 DEF x, y, z

LEMMA WholeSequence ==
    ASSUME NEW T, NEW s \in Seq(T)
    PROVE  SubSeq(s, 0 + 1, Len(s)) = s /\ SubSeq(s, Len(s) + 1, Len(s)) = <<>>
  OBVIOUS

-----------------------------------------------------------------------------
(* The inductive invariant.                                                *)

TypeInv == TypeOK /\ client \in ClientType
              /\ itsResponseString \in Seq(Token) /\ itsPendingHeaders \in Seq(Token)

StreamStages == {"getNextChunk", "writeStreamReply"}
ChunkStages  == {"getNextChunkedChunk", "writeChunkedReply"}

\* What each handler may assume: of the answer whose path it is on, of persistence, of
\* the bytes counted, and that nothing has been written before the first write.
StageInv ==
    /\ pc \in {"parsed", "start"} => client = Fresh /\ produced = 0
    /\ pc \in {"idle", "parsed", "start"} => itsTotalStreamedBytes = 0
    /\ pc = "parsed" => itsResponse = Unset
    /\ pc \in {"start", "writeRegularReply"} => itsResponse.kind # "stock"
    /\ pc = "writeRegularReply" => request.head \/ itsResponse.kind = "regular"
    /\ pc \in StreamStages =>
          /\ ~request.head /\ itsResponse.kind \in {"stream", "gateway"}
          /\ itsResponse.kind = "gateway" => ~itsKeepAlive
          /\ itsResponse.kind = "stream" => itsDeclaredContentLength = itsResponse.length
    /\ pc \in ChunkStages \cup {"finalizeChunkedReply"} =>
          ~request.head /\ itsResponse.kind = "chunked"
    /\ pc \in StreamStages \cup ChunkStages \cup {"finalizeChunkedReply"} =>
          itsTotalStreamedBytes = produced
    /\ itsKeepAlive /\ itsResponse.kind = "chunked" => request.v11
    /\ pc = "sendStockReply" /\ itsKeepAlive => client = Fresh /\ itsResponse = Unset

FirstHead == IF itsResponse.kind = "chunked"
             THEN HeaderSection("chunked", 0, itsKeepAlive)
             ELSE HeaderSection("length", itsResponse.length, itsKeepAlive)

\* Header sections wait only for the getters, and only when nothing was written yet.
PendingInv ==
    /\ pc \notin Getters \cup {"closed"} => itsPendingHeaders = <<>>
    /\ pc \in Getters /\ itsPendingHeaders # <<>> =>
          /\ client = Fresh /\ produced = 0 /\ itsPendingHeaders = <<FirstHead>>
          /\ itsResponse.kind # "gateway"

\* The log entry and the report to the health hooks are made at the end of a stream.
LogInv ==
    /\ pc \notin {"finalizeChunkedReply", "finishResponse", "idle", "closed"} =>
          streamStatus = "OK" /\ logged = <<>> /\ notified = <<>> /\ ~itsBackendNotified
    /\ pc = "idle" => ~itsBackendNotified
    /\ pc = "finalizeChunkedReply" =>
          /\ streamStatus = "EXIT_OK" /\ logged = <<>>
          /\ IF itsResponse.backend THEN itsBackendNotified /\ notified = <<"EXIT_OK">>
                                    ELSE ~itsBackendNotified /\ notified = <<>>
    /\ pc = "finishResponse" =>
          /\ Streamed /\ streamStatus # "OK" => logged = <<produced>>
          /\ itsResponse.backend =>
                Len(notified) = 1 /\ (streamStatus # "OK" => notified = <<streamStatus>>)
    /\ StreamsAreLogged /\ BackendOutcomeReported

Coming == SubSeq(itsResponseString, itsSentBytes + 1, Len(itsResponseString))

\* What was handed over and is not written yet, and what the client will be when it has
\* read it.
Outstanding == IF pc \in Getters THEN itsPendingHeaders
               ELSE IF pc \in WriteHandlers THEN Coming ELSE <<>>

Eventual == Reader(None, request.v11, client, Outstanding)

AtEnd(c) == c.mode = "boundary" /\ c.messages = 1 /\ c.body = produced

InStream(c) ==
    /\ produced < itsResponse.length =>
          /\ c.mode = "length" /\ c.left = itsResponse.length - produced
          /\ c.body = produced /\ c.messages = 0
    /\ produced = itsResponse.length => AtEnd(c)

InChunks(c) == c.mode = "chunks" /\ c.left = 0 /\ c.body = produced /\ c.messages = 0

\* A chunked response whose body a client can find complete.
Chunked == itsResponse.kind = "chunked" /\ request.v11 /\ ~request.head
              /\ itsResponse.hasBody

\* Where the client will be, for each stage of each reply path.
PersistInv ==
    (pc \in Getters \cup WriteHandlers \cup {"finishResponse"} /\ itsKeepAlive) =>
        Eventual.persistent

PlaceInv ==
    /\ pc = "writeRegularReply" => AtEnd(Eventual)
    /\ pc \in StreamStages /\ itsResponse.kind = "stream" /\ itsResponse.hasBody =>
          InStream(Eventual)
    /\ pc \in ChunkStages /\ Chunked => InChunks(Eventual)
    /\ pc = "finalizeChunkedReply" =>
          \/ Coming = <<Chunk(0)>> /\ (Chunked => InChunks(client))
          \/ /\ Coming = <<HeaderSection("chunked", 0, itsKeepAlive), Chunk(0)>>
             /\ client = Fresh /\ produced = 0
    /\ pc = "sendStockReply" /\ Chunked => InChunks(client)

EndInv ==
    /\ pc = "finishResponse" /\ itsKeepAlive /\ ~StockToHead /\ ~StreamedBodiless =>
          /\ client.mode = "boundary" /\ client.messages = 1
          /\ itsResponse.kind # "stock" => client.body = produced
    /\ ReuseInSync /\ ReuseAnnounced /\ CompleteMeansWhole

ReaderInv == PersistInv /\ PlaceInv /\ EndInv

-----------------------------------------------------------------------------
(* Types.                                                                  *)

LEMMA Fields ==
    ASSUME TypeInv
    PROVE  /\ itsResponse.length \in Lengths /\ itsResponse.hasBody \in BOOLEAN
           /\ itsResponse.backend \in BOOLEAN
           /\ itsResponse.kind \in {"regular", "stream", "chunked", "gateway", "stock"}
           /\ request.head \in BOOLEAN /\ request.v11 \in BOOLEAN
           /\ request.persistent \in BOOLEAN
           /\ None \in BOOLEAN
  BY DEF TypeInv, TypeOK, Answer, Request, None

LEMMA Concat ==
    ASSUME NEW s \in Seq(Token), NEW t \in Seq(Token)
    PROVE  s \o t \in Seq(Token) /\ Len(s \o t) = Len(s) + Len(t)
  OBVIOUS

LEMMA One ==
    ASSUME NEW t \in Token
    PROVE  <<t>> \in Seq(Token) /\ Len(<<t>>) = 1
  OBVIOUS

\* What the client is after a write of the header section that waited, of all that is
\* left of the string, and of a part of it.
LEMMA FlushReads ==
    ASSUME TypeInv, flushPendingHeaders
    PROVE  /\ client' = Reader(None, request.v11, client, itsPendingHeaders)
           /\ client' \in ClientType /\ itsPendingHeaders' = <<>>
  <1>1. client' = Reader(None, request.v11, client, itsPendingHeaders)
    BY DEF flushPendingHeaders, write, Read, Reader, FoldLeft, MapThenFoldSet, Feed, FeedOf,
           AfterHead, AfterHeadOf, None
  <1>2. QED
    BY <1>1, ReaderKeeps DEF TypeInv, flushPendingHeaders

LEMMA AllReads ==
    ASSUME TypeInv, WrittenAll
    PROVE  /\ client' = Reader(None, request.v11, client, Coming)
           /\ client' \in ClientType /\ itsSentBytes' = Len(itsResponseString)
           /\ Coming \in Seq(Token)
  <1>1. Len(itsResponseString) \in Nat /\ itsSentBytes \in 0 .. Len(itsResponseString)
    BY DEF TypeInv, TypeOK
  <1>2. itsSentBytes + Rest = Len(itsResponseString) /\ itsSentBytes \in Nat /\ Rest \in Nat
    BY <1>1 DEF Rest
  <1>3. Sent(Rest) = Coming
    BY <1>2 DEF Sent, Coming
  <1>4. client' = Reader(None, request.v11, client, Sent(Rest))
    BY DEF WrittenAll, write, Read, Reader, FoldLeft, MapThenFoldSet, Feed, FeedOf,
           AfterHead, AfterHeadOf, None
  <1>5. Coming \in Seq(Token)
    BY <1>1 DEF Coming, TypeInv
  <1>6. client' = Reader(None, request.v11, client, Coming)
    BY <1>3, <1>4
  <1>7. client' \in ClientType
    BY <1>5, <1>6, ReaderKeeps DEF TypeInv
  <1>8. QED
    BY <1>2, <1>5, <1>6, <1>7 DEF WrittenAll

LEMMA PartReads ==
    ASSUME TypeInv, NEW handler, WrittenPart(handler)
    PROVE  /\ client' \in ClientType /\ itsSentBytes' \in 0 .. Len(itsResponseString)
           /\ Coming \in Seq(Token) /\ Coming' \in Seq(Token) /\ Len(Coming') > 0
           /\ Reader(None, request.v11, client', Coming')
                 = Reader(None, request.v11, client, Coming)
           /\ \E part \in Seq(Token) :
                 /\ Len(part) > 0 /\ Coming = part \o Coming'
                 /\ client' = Reader(None, request.v11, client, part)
  <1>1. Len(itsResponseString) \in Nat /\ itsSentBytes \in 0 .. Len(itsResponseString)
    BY DEF TypeInv, TypeOK
  <1>2. PICK n \in 1 .. Rest - 1 : write(Sent(n)) /\ itsSentBytes' = itsSentBytes + n
    BY DEF WrittenPart
  <1>3. itsResponseString' = itsResponseString
    BY DEF WrittenPart
  <1>. DEFINE s == itsResponseString
              a == itsSentBytes
              part == SubSeq(s, a + 1, a + n)
              rest == SubSeq(s, a + n + 1, Len(s))
  <1>4. s \in Seq(Token) /\ a \in Nat /\ n \in Nat /\ a + n < Len(s) /\ n > 0
    BY <1>1, <1>2 DEF TypeInv, Rest
  <1>5. part \in Seq(Token) /\ rest \in Seq(Token) /\ Coming = part \o rest
    BY <1>4, SplitSequence DEF Coming
  <1>6. Coming' = rest
    BY <1>2, <1>3 DEF Coming
  <1>7. client' = Reader(None, request.v11, client, part)
    BY <1>2 DEF Sent, write, Read, Reader, FoldLeft, MapThenFoldSet, Feed, FeedOf,
                AfterHead, AfterHeadOf, None
  <1>8. client' \in ClientType
    BY <1>5, <1>7, ReaderKeeps DEF TypeInv
  <1>9. Len(part) = n /\ Len(rest) = Len(s) - (a + n) /\ Len(rest) > 0
    BY <1>4
  <1>. HIDE DEF part, rest
  <1>10. Reader(None, request.v11, client', rest)
            = Reader(None, request.v11, client, part \o rest)
    BY <1>5, <1>7, ReaderOfConcat
  <1>11. itsSentBytes' \in 0 .. Len(itsResponseString)
    BY <1>2, <1>4
  <1>12. Reader(None, request.v11, client', Coming') = Reader(None, request.v11, client, Coming)
    BY <1>5, <1>6, <1>10
  <1>13. Len(part) > 0 /\ Coming = part \o Coming'
    BY <1>4, <1>5, <1>6, <1>9
  <1>14. Coming \in Seq(Token) /\ Coming' \in Seq(Token) /\ Len(Coming') > 0
    BY <1>5, <1>6, <1>9, Concat
  <1>15. QED
    BY <1>5, <1>7, <1>8, <1>11, <1>12, <1>13, <1>14

LEMMA Empty == <<>> \in Seq(Token) /\ Len(<<>>) = 0
  OBVIOUS

LEMMA TypeInit == Init => TypeInv
  <1>1. SUFFICES ASSUME Init PROVE TypeInv
    OBVIOUS
  <1>2. Fresh \in ClientType
    BY Tokens DEF Fresh, ClientType, Modes
  <1>3. NoRequest \in Request /\ Unset \in Answer
    BY Tokens DEF NoRequest, Unset, Request, Answer
  <1>4. Fresh.mode \in Modes /\ Fresh.left \in Lengths
    BY Tokens DEF Fresh, Modes
  <1>5. TypeOK
    <2>1. /\ itsSentBytes \in 0 .. Len(itsResponseString) /\ Len(itsPendingHeaders) <= 1
          /\ Len(logged) <= 1 /\ Len(notified) <= 1
      BY <1>1 DEF Init
    <2>2. itsDeclaredContentLength \in Lengths /\ produced \in Lengths
             /\ itsTotalStreamedBytes \in Nat
      BY <1>1, Tokens DEF Init
    <2>3. QED
      BY <1>1, <1>3, <1>4, <2>1, <2>2, Zenon DEF Init, TypeOK, Statuses
  <1>6. QED
    <2>1. itsResponseString \in Seq(Token) /\ itsPendingHeaders \in Seq(Token)
      BY <1>1 DEF Init
    <2>2. QED
      BY <1>1, <1>2, <1>5, <2>1, Zenon DEF Init, TypeInv

\* The client's fields have the types that TypeOK names.
LEMMA ClientFields ==
    ASSUME NEW c \in ClientType
    PROVE  /\ c.mode \in Modes /\ c.left \in Lengths /\ c.body \in Nat
           /\ c.messages \in Nat /\ c.persistent \in BOOLEAN
  BY DEF ClientType

\* One outcome more, where none was told.
LEMMA NotifyTypes ==
    ASSUME TypeInv, NEW status, notifyBackendFinished(status),
           itsBackendNotified \/ notified = <<>>
    PROVE  itsBackendNotified' \in BOOLEAN /\ Len(notified') <= 1
  <1>1. CASE UNCHANGED <<itsBackendNotified, notified>>
    BY <1>1 DEF TypeInv, TypeOK
  <1>2. CASE notified = <<>> /\ itsBackendNotified' = TRUE /\ notified' = Append(notified, status)
    <2>1. notified' = <<status>>
      BY <1>2
    <2>2. QED
      BY <1>2, <2>1
  <1>3. QED
    BY <1>1, <1>2 DEF notifyBackendFinished

LEMMA TypeStep ==
    ASSUME TypeInv, StageInv, PendingInv, LogInv, [Next]_vars
    PROVE  TypeInv'
  <1>. USE DEF TypeInv, TypeOK
  <1>1. CASE ClientClose
    BY <1>1 DEF ClientClose, writeVars, countVars, ghostVars, hookVars
  <1>2. CASE handleParsedRequest
    <2>1. Fresh \in ClientType /\ Fresh.mode \in Modes /\ Fresh.left \in Lengths
      BY Tokens DEF Fresh, ClientType, Modes
    <2>2. Unset \in Answer
      BY Tokens DEF Unset, Answer
    <2>3. itsKeepAlive' \in BOOLEAN
      BY <1>2 DEF handleParsedRequest, Request
    <2>4. QED
      <3>1. Len(logged') <= 1 /\ Len(notified') <= 1
        BY <1>2 DEF handleParsedRequest
      <3>2. produced' \in Lengths /\ streamStatus' \in Statuses
        BY <1>2, Tokens DEF handleParsedRequest, Statuses
      <3>3. QED
        BY <1>2, <2>1, <2>2, <2>3, <3>1, <3>2
           DEF handleParsedRequest, Goto, writeVars, countVars
  <1>3. CASE closeIdle \/ replyWithStock \/ replyAborted \/ getterAborted
    BY <1>3 DEF closeIdle, replyWithStock, replyAborted, getterAborted, Goto,
        writeVars, countVars, clientVars, ghostVars, hookVars
  <1>20. CASE flushFails
    BY <1>20, Empty DEF flushFails, countVars, clientVars, ghostVars, hookVars
  <1>21. CASE streamEndsUnsent
    BY <1>21, Empty DEF streamEndsUnsent, Goto, countVars, clientVars, hookVars, Statuses
  <1>4. CASE sendStockReply
    <2>1. client' \in ClientType
      <3>1. CASE UNCHANGED client
        BY <3>1
      <3>2. CASE write(<<HeaderSection("length", StockLength, itsKeepAlive)>>
                          \o Content(StockLength))
        <4>. DEFINE s == <<HeaderSection("length", StockLength, itsKeepAlive)>>
                            \o Content(StockLength)
        <4>1. s \in Seq(Token)
          BY Tokens, ContentTokens, One, Concat
        <4>2. client' = Reader(None, request.v11, client, s)
          BY <3>2 DEF write, Read, Reader, FoldLeft, MapThenFoldSet, Feed, FeedOf,
                      AfterHead, AfterHeadOf, None
        <4>3. QED
          BY <4>1, <4>2, ReaderKeeps
      <3>3. QED
        BY <1>4, <3>1, <3>2 DEF sendStockReply
    <2>2. QED
      BY <1>4, <2>1, ClientFields DEF sendStockReply, writeVars, countVars, ghostVars, hookVars
  <1>5. CASE finishResponse
    <2>1. itsSentBytes' \in 0 .. Len(itsResponseString') /\ itsResponseString' \in Seq(Token)
      <3>1. CASE itsResponseString' = <<>> /\ itsSentBytes' = 0
        BY <3>1
      <3>2. CASE UNCHANGED <<itsResponseString, itsSentBytes>>
        BY <3>2
      <3>3. QED
        BY <1>5, <3>1, <3>2 DEF finishResponse
    <2>2. /\ itsKeepAlive' \in BOOLEAN /\ itsBackendNotified' \in BOOLEAN
          /\ itsTotalStreamedBytes' \in Nat /\ itsDeclaredContentLength' \in Lengths
      <3>1. 0 \in Nat /\ 0 \in Lengths
        BY Tokens
      <3>2. QED
        BY <1>5, <3>1, Zenon DEF finishResponse, countVars
    <2>3. QED
      BY <1>5, <2>1, <2>2 DEF finishResponse, clientVars, ghostVars
  <1>6. CASE handleCompletedRead
    <2>1. itsKeepAlive' \in BOOLEAN
      BY <1>6 DEF handleCompletedRead, setConnectionHeaders
    <2>2. QED
      BY <1>6, <2>1 DEF handleCompletedRead, writeVars, countVars, clientVars, ghostVars,
                        hookVars
  <1>7. CASE startRegularReply
    <2>1. PICK size \in Lengths :
             /\ startWrite(<<HeaderSection(RegularFraming, itsResponse.length, itsKeepAlive)>>
                              \o Content(size), "writeRegularReply")
             /\ produced' = size
      BY <1>7, Fields, Tokens DEF startRegularReply
    <2>2. RegularFraming \in Framings
      BY Tokens DEF RegularFraming
    <2>3. <<HeaderSection(RegularFraming, itsResponse.length, itsKeepAlive)>>
             \o Content(size) \in Seq(Token)
      BY <2>2, Fields, Tokens, ContentTokens, One, Concat
    <2>4. QED
      BY <1>7, <2>1, <2>3 DEF startRegularReply, startWrite, countVars, clientVars, hookVars
  <1>8. CASE startChunkedReply \/ startStreamReply \/ startGatewayReply
    <2>1. /\ <<HeaderSection("chunked", 0, itsKeepAlive)>> \in Seq(Token)
          /\ <<HeaderSection("length", itsResponse.length, itsKeepAlive)>> \in Seq(Token)
      BY Fields, Tokens, One
    <2>2. CASE startChunkedReply
      BY <2>1, <2>2, One DEF startChunkedReply, Goto, countVars, clientVars, ghostVars,
                             hookVars
    <2>3. CASE startStreamReply
      <3>1. Len(itsPendingHeaders') <= 1 /\ itsPendingHeaders' \in Seq(Token)
        BY <2>1, <2>3, One, Fields, Tokens DEF startStreamReply
      <3>2. QED
        BY <2>3, <3>1, Fields DEF startStreamReply, Goto, clientVars, ghostVars, hookVars
    <2>4. CASE startGatewayReply
      BY <2>4 DEF startGatewayReply, Goto, writeVars, countVars, clientVars, ghostVars,
                  hookVars
    <2>5. QED
      BY <1>8, <2>2, <2>3, <2>4
  <1>9. CASE getNextChunk
    <2>1. PICK n \in Lengths \ {0} :
             /\ TakeContent(n)
             /\ startWrite(itsPendingHeaders \o ForwardedHead \o Content(n), "writeStreamReply")
      BY <1>9 DEF getNextChunk
    <2>2. ForwardedHead \in Seq(Token)
      <3>1. <<HeaderSection("length", itsResponse.length, FALSE)>> \in Seq(Token)
        BY Fields, Tokens, One
      <3>2. QED
        BY <3>1, Empty DEF ForwardedHead
    <2>3. itsPendingHeaders \o ForwardedHead \o Content(n) \in Seq(Token)
      BY <2>2, Tokens, ContentTokens, Concat
    <2>4. produced' \in Lengths /\ itsTotalStreamedBytes' \in Nat
      BY <2>1, Tokens DEF TakeContent, Lengths
    <2>5. QED
      BY <1>9, <2>1, <2>3, <2>4 DEF getNextChunk, startWrite, clientVars, hookVars
  <1>10. CASE getNextChunkedChunk
    <2>1. PICK n \in Lengths \ {0} :
             /\ TakeContent(n)
             /\ startWrite(itsPendingHeaders \o <<Chunk(n)>> \o Content(n), "writeChunkedReply")
      BY <1>10 DEF getNextChunkedChunk
    <2>2. itsPendingHeaders \o <<Chunk(n)>> \o Content(n) \in Seq(Token)
      BY Tokens, ContentTokens, One, Concat
    <2>3. produced' \in Lengths /\ itsTotalStreamedBytes' \in Nat
      BY <2>1, Tokens DEF TakeContent, Lengths
    <2>4. QED
      <3>1. /\ itsPendingHeaders' = <<>> /\ itsSentBytes' = 0
            /\ itsResponseString' \in Seq(Token) /\ pc' = "writeChunkedReply"
        BY <1>10, <2>1, <2>2 DEF getNextChunkedChunk, startWrite
      <3>2. itsSentBytes' \in 0 .. Len(itsResponseString') /\ Len(itsPendingHeaders') <= 1
               /\ itsPendingHeaders' \in Seq(Token)
        BY <3>1
      <3>3. QED
        BY <1>10, <2>3, <3>1, <3>2 DEF getNextChunkedChunk, clientVars, hookVars
  <1>11. CASE streamerNotReady
    <2>1. flushPendingHeaders
      BY <1>11 DEF streamerNotReady
    <2>2. client' \in ClientType /\ itsPendingHeaders' = <<>>
      BY <2>1, FlushReads
    <2>3. pc' \in Getters \cup {"sendStockReply"} /\ itsKeepAlive' \in BOOLEAN
             /\ queueFull' \in BOOLEAN
      BY <1>11 DEF streamerNotReady, scheduleGetter
    <2>4. QED
      BY <1>11, <2>2, <2>3, ClientFields, Empty DEF streamerNotReady, Getters, countVars,
         hookVars
  <1>12. CASE streamEnds
    <2>1. flushPendingHeaders /\ notifyBackendFinished(streamStatus') /\ notified = <<>>
      BY <1>12 DEF streamEnds, Goto, LogInv
    <2>2. client' \in ClientType /\ itsPendingHeaders' = <<>>
      BY <2>1, FlushReads
    <2>3. itsBackendNotified' \in BOOLEAN /\ Len(notified') <= 1
      BY <2>1, NotifyTypes
    <2>4. Len(logged') <= 1 /\ itsKeepAlive' \in BOOLEAN
      BY <1>12 DEF streamEnds, finalizeStreamLogging
    <2>5. QED
      BY <1>12, <2>2, <2>3, <2>4, ClientFields DEF streamEnds, Goto, countVars, Statuses
  <1>13. CASE chunkedStreamFails
    <2>1. notifyBackendFinished("EXIT_ERROR") /\ notified = <<>>
      BY <1>13 DEF chunkedStreamFails, Goto, LogInv
    <2>2. client' \in ClientType /\ itsPendingHeaders' = <<>>
      BY <1>13, FlushReads DEF chunkedStreamFails
    <2>3. itsBackendNotified' \in BOOLEAN /\ Len(notified') <= 1
      BY <2>1, NotifyTypes
    <2>4. Len(logged') <= 1
      BY <1>13 DEF chunkedStreamFails, finalizeStreamLogging
    <2>5. Len(itsPendingHeaders') <= 1 /\ itsPendingHeaders' \in Seq(Token)
      BY <2>2
    <2>6. client'.mode \in Modes /\ client'.left \in Lengths
      BY <2>2, ClientFields
    <2>7. QED
      BY <1>13, <2>2, <2>3, <2>4, <2>5, <2>6
         DEF chunkedStreamFails, Goto, countVars, Statuses
  <1>14. CASE chunkedStreamEnds
    <2>1. notifyBackendFinished("EXIT_OK") /\ notified = <<>>
      BY <1>14 DEF chunkedStreamEnds, LogInv
    <2>2. itsPendingHeaders \o <<Chunk(0)>> \in Seq(Token)
      BY Tokens, One, Concat
    <2>3. itsBackendNotified' \in BOOLEAN /\ Len(notified') <= 1
      BY <2>1, NotifyTypes
    <2>4. QED
      BY <1>14, <2>2, <2>3 DEF chunkedStreamEnds, startWrite, countVars, clientVars, Statuses
  <1>15. CASE writtenPart
    <2>1. PICK handler \in WriteHandlers : WrittenPart(handler)
      BY <1>15 DEF writtenPart
    <2>2. client' \in ClientType /\ itsSentBytes' \in 0 .. Len(itsResponseString)
      BY <2>1, PartReads
    <2>3. QED
      BY <2>1, <2>2, ClientFields DEF WrittenPart, countVars, ghostVars, hookVars
  <1>16. CASE writeRegularReply \/ writeStreamReply \/ writeChunkedReply \/ finalizeChunkedReply
    <2>1. WrittenAll
      BY <1>16 DEF writeRegularReply, writeStreamReply, writeChunkedReply, finalizeChunkedReply
    <2>2. client' \in ClientType /\ itsSentBytes' = Len(itsResponseString)
      BY <2>1, AllReads
    <2>3. CASE writeRegularReply
      <3>1. itsBackendNotified' \in BOOLEAN /\ Len(notified') <= 1
        BY <2>3, NotifyTypes DEF writeRegularReply, Goto, LogInv
      <3>2. QED
        BY <2>2, <2>3, <3>1, ClientFields DEF writeRegularReply, Goto, countVars, ghostVars
    <2>4. CASE writeStreamReply \/ writeChunkedReply
      <3>1. pc' \in Getters \cup {"sendStockReply"} /\ itsKeepAlive' \in BOOLEAN
               /\ queueFull' \in BOOLEAN
        BY <2>4 DEF writeStreamReply, writeChunkedReply, scheduleGetter, Getters
      <3>2. QED
        BY <2>2, <2>4, <3>1, ClientFields DEF writeStreamReply, writeChunkedReply, Getters,
           countVars, hookVars
    <2>5. CASE finalizeChunkedReply
      <3>1. Len(logged') <= 1
        BY <2>5 DEF finalizeChunkedReply, finalizeStreamLogging
      <3>2. QED
        BY <2>2, <2>5, <3>1, ClientFields DEF finalizeChunkedReply, Goto, countVars, ghostVars
    <2>6. QED
      BY <1>16, <2>3, <2>4, <2>5
  <1>17. CASE writeError
    <2>1. Len(logged') <= 1
      <3>1. UNCHANGED logged \/ finalizeStreamLogging
        BY <1>17 DEF writeError
      <3>2. QED
        <4>1. logged' = logged \/ logged' = <<itsTotalStreamedBytes>>
          BY <3>1 DEF finalizeStreamLogging
        <4>2. Len(<<itsTotalStreamedBytes>>) <= 1 /\ Len(logged) <= 1
          OBVIOUS
        <4>3. QED
          BY <4>1, <4>2, Zenon
    <2>2. itsBackendNotified' \in BOOLEAN /\ Len(notified') <= 1
      <3>1. CASE pc \in {"writeStreamReply", "writeChunkedReply"}
        <4>1. \E status : notifyBackendFinished(status)
          BY <1>17, <3>1 DEF writeError
        <4>2. notified = <<>>
          BY <3>1 DEF LogInv
        <4>3. QED
          BY <4>1, <4>2, NotifyTypes
      <3>2. CASE pc \notin {"writeStreamReply", "writeChunkedReply"}
        BY <1>17, <3>2 DEF writeError
      <3>3. QED
        BY <3>1, <3>2
    <2>3. QED
      BY <1>17, <2>1, <2>2 DEF writeError, writeVars, countVars, clientVars, ghostVars
  <1>18. CASE Terminated \/ UNCHANGED vars
    BY <1>18 DEF Terminated, vars, writeVars, countVars, clientVars, ghostVars, hookVars
  <1>19. QED
    BY <1>1, <1>2, <1>3, <1>4, <1>5, <1>6, <1>7, <1>8, <1>9, <1>10, <1>11, <1>12, <1>13,
       <1>14, <1>15, <1>16, <1>17, <1>18, <1>20, <1>21 DEF Next

-----------------------------------------------------------------------------
(* Stages, waiting header sections, the log and the health hooks.          *)

LEMMA StageStep ==
    ASSUME TypeInv, StageInv, PendingInv, LogInv, [Next]_vars
    PROVE  StageInv'
  <1>. USE DEF StageInv, StreamStages, ChunkStages
  <1>1. CASE ClientClose
    BY <1>1 DEF ClientClose, writeVars, countVars, ghostVars, hookVars
  <1>2. CASE handleParsedRequest
    BY <1>2 DEF handleParsedRequest, Goto, writeVars, countVars, Unset
  <1>3. CASE closeIdle
    BY <1>3 DEF closeIdle, Goto, writeVars, countVars, clientVars, ghostVars, hookVars
  <1>4. CASE replyWithStock
    BY <1>4 DEF replyWithStock, Goto, writeVars, countVars, clientVars, ghostVars,
        hookVars
  <1>5. CASE sendStockReply
    BY <1>5 DEF sendStockReply, writeVars, countVars, ghostVars, hookVars
  <1>6. CASE finishResponse
    BY <1>6 DEF finishResponse, countVars, clientVars, ghostVars
  <1>7. CASE handleCompletedRead
    BY <1>7 DEF handleCompletedRead, PluginAnswer, setConnectionHeaders, writeVars,
        countVars, clientVars, ghostVars, hookVars
  <1>8. CASE replyAborted
    BY <1>8 DEF replyAborted, writeVars, countVars, clientVars, ghostVars, hookVars
  <1>9. CASE startRegularReply
    BY <1>9 DEF startRegularReply, startWrite, countVars, clientVars, hookVars
  <1>10. CASE startChunkedReply
    BY <1>10 DEF startChunkedReply, Goto, countVars, clientVars, ghostVars, hookVars
  <1>11. CASE startStreamReply
    BY <1>11 DEF startStreamReply, Goto, clientVars, ghostVars, hookVars
  <1>12. CASE startGatewayReply
    BY <1>12 DEF startGatewayReply, Goto, writeVars, countVars, clientVars, ghostVars,
        hookVars
  <1>13. CASE getNextChunk
    BY <1>13 DEF getNextChunk, TakeContent, startWrite, clientVars, hookVars
  <1>14. CASE getNextChunkedChunk
    BY <1>14 DEF getNextChunkedChunk, TakeContent, startWrite, clientVars, hookVars
  <1>15. CASE streamerNotReady
    BY <1>15 DEF streamerNotReady, scheduleGetter, flushPendingHeaders, Getters,
        countVars, hookVars
  <1>16. CASE flushFails
    BY <1>16 DEF flushFails, countVars, clientVars, ghostVars, hookVars
  <1>17. CASE getterAborted
    BY <1>17 DEF getterAborted, writeVars, countVars, clientVars, ghostVars, hookVars
  <1>18. CASE streamEnds
    BY <1>18 DEF streamEnds, Goto, flushPendingHeaders, countVars
  <1>19. CASE chunkedStreamFails
    BY <1>19 DEF chunkedStreamFails, Goto, flushPendingHeaders, countVars
  <1>20. CASE chunkedStreamEnds
    BY <1>20 DEF chunkedStreamEnds, startWrite, countVars, clientVars
  <1>21. CASE writtenPart
    BY <1>21 DEF writtenPart, WriteHandlers, WrittenPart, countVars, ghostVars,
        hookVars
  <1>22. CASE writeRegularReply
    BY <1>22 DEF writeRegularReply, Goto, WrittenAll, countVars, ghostVars
  <1>23. CASE writeStreamReply
    BY <1>23 DEF writeStreamReply, scheduleGetter, WrittenAll, countVars, hookVars
  <1>24. CASE writeChunkedReply
    BY <1>24 DEF writeChunkedReply, scheduleGetter, WrittenAll, countVars, hookVars
  <1>25. CASE finalizeChunkedReply
    BY <1>25 DEF finalizeChunkedReply, Goto, WrittenAll, countVars, ghostVars
  <1>26. CASE writeError
    BY <1>26 DEF writeError, WriteHandlers, writeVars, countVars, clientVars,
        ghostVars
  <1>27. CASE Terminated \/ UNCHANGED vars
    BY <1>27 DEF Terminated, vars, writeVars, countVars, clientVars, ghostVars,
        hookVars
  <1>29. CASE streamEndsUnsent
    BY <1>29 DEF streamEndsUnsent, Goto, countVars, clientVars, hookVars
  <1>30. QED
    BY <1>1, <1>2, <1>3, <1>4, <1>5, <1>6, <1>7, <1>8, <1>9, <1>10, <1>11,
       <1>12, <1>13, <1>14, <1>15, <1>16, <1>17, <1>18, <1>19, <1>20, <1>21,
       <1>22, <1>23, <1>24, <1>25, <1>26, <1>27, <1>29 DEF Next

LEMMA PendingStep ==
    ASSUME TypeInv, StageInv, PendingInv, LogInv, [Next]_vars
    PROVE  PendingInv'
  <1>. USE DEF PendingInv, Getters, FirstHead
  <1>1. CASE ClientClose
    BY <1>1 DEF ClientClose, writeVars, countVars, ghostVars, hookVars
  <1>2. CASE handleParsedRequest
    BY <1>2 DEF handleParsedRequest, Goto, writeVars, countVars, Unset
  <1>3. CASE closeIdle
    BY <1>3 DEF closeIdle, Goto, writeVars, countVars, clientVars, ghostVars, hookVars
  <1>4. CASE replyWithStock
    BY <1>4 DEF replyWithStock, Goto, writeVars, countVars, clientVars, ghostVars,
        hookVars
  <1>5. CASE sendStockReply
    BY <1>5 DEF sendStockReply, writeVars, countVars, ghostVars, hookVars
  <1>6. CASE finishResponse
    BY <1>6 DEF finishResponse, countVars, clientVars, ghostVars
  <1>7. CASE handleCompletedRead
    BY <1>7 DEF handleCompletedRead, PluginAnswer, setConnectionHeaders, writeVars,
        countVars, clientVars, ghostVars, hookVars
  <1>8. CASE replyAborted
    BY <1>8 DEF replyAborted, writeVars, countVars, clientVars, ghostVars, hookVars
  <1>9. CASE startRegularReply
    BY <1>9 DEF startRegularReply, startWrite, countVars, clientVars, hookVars
  <1>10. CASE startChunkedReply
    BY <1>10 DEF startChunkedReply, Goto, StageInv, countVars, clientVars, ghostVars, hookVars
  <1>11. CASE startStreamReply
    BY <1>11 DEF startStreamReply, Goto, StageInv, clientVars, ghostVars, hookVars
  <1>12. CASE startGatewayReply
    BY <1>12 DEF startGatewayReply, Goto, writeVars, countVars, clientVars, ghostVars,
        hookVars
  <1>13. CASE getNextChunk
    BY <1>13 DEF getNextChunk, TakeContent, startWrite, clientVars, hookVars
  <1>14. CASE getNextChunkedChunk
    BY <1>14 DEF getNextChunkedChunk, TakeContent, startWrite, clientVars, hookVars
  <1>15. CASE streamerNotReady
    BY <1>15 DEF streamerNotReady, scheduleGetter, flushPendingHeaders, Getters,
        countVars, hookVars
  <1>16. CASE flushFails
    BY <1>16 DEF flushFails, countVars, clientVars, ghostVars, hookVars
  <1>17. CASE getterAborted
    BY <1>17 DEF getterAborted, writeVars, countVars, clientVars, ghostVars, hookVars
  <1>18. CASE streamEnds
    BY <1>18 DEF streamEnds, Goto, flushPendingHeaders, countVars
  <1>19. CASE chunkedStreamFails
    BY <1>19 DEF chunkedStreamFails, Goto, flushPendingHeaders, countVars
  <1>20. CASE chunkedStreamEnds
    BY <1>20 DEF chunkedStreamEnds, startWrite, countVars, clientVars
  <1>21. CASE writtenPart
    BY <1>21 DEF writtenPart, WriteHandlers, WrittenPart, countVars, ghostVars,
        hookVars
  <1>22. CASE writeRegularReply
    BY <1>22 DEF writeRegularReply, Goto, WrittenAll, countVars, ghostVars
  <1>23. CASE writeStreamReply
    BY <1>23 DEF writeStreamReply, scheduleGetter, WrittenAll, countVars, hookVars
  <1>24. CASE writeChunkedReply
    BY <1>24 DEF writeChunkedReply, scheduleGetter, WrittenAll, countVars, hookVars
  <1>25. CASE finalizeChunkedReply
    BY <1>25 DEF finalizeChunkedReply, Goto, WrittenAll, countVars, ghostVars
  <1>26. CASE writeError
    BY <1>26 DEF writeError, WriteHandlers, writeVars, countVars, clientVars,
        ghostVars
  <1>27. CASE Terminated \/ UNCHANGED vars
    BY <1>27 DEF Terminated, vars, writeVars, countVars, clientVars, ghostVars,
        hookVars
  <1>29. CASE streamEndsUnsent
    BY <1>29 DEF streamEndsUnsent, Goto, countVars, clientVars, hookVars
  <1>30. QED
    BY <1>1, <1>2, <1>3, <1>4, <1>5, <1>6, <1>7, <1>8, <1>9, <1>10, <1>11,
       <1>12, <1>13, <1>14, <1>15, <1>16, <1>17, <1>18, <1>19, <1>20, <1>21,
       <1>22, <1>23, <1>24, <1>25, <1>26, <1>27, <1>29 DEF Next

LEMMA LogStep ==
    ASSUME TypeInv, StageInv, PendingInv, LogInv, [Next]_vars
    PROVE  LogInv'
  <1>. USE DEF LogInv, StreamsAreLogged, BackendOutcomeReported, Over, Reused, Streamed
  <1>1. CASE ClientClose
    BY <1>1 DEF SilentStream, ClientClose, writeVars, countVars, ghostVars, hookVars
  <1>2. CASE handleParsedRequest
    BY <1>2 DEF handleParsedRequest, Goto, writeVars, countVars, Unset
  <1>3. CASE closeIdle
    BY <1>3 DEF SilentStream, closeIdle, Goto, writeVars, countVars, clientVars, ghostVars, hookVars
  <1>4. CASE replyWithStock
    BY <1>4 DEF replyWithStock, Goto, writeVars, countVars, clientVars, ghostVars,
        hookVars
  <1>5. CASE sendStockReply
    BY <1>5 DEF sendStockReply, StageInv, Unset, writeVars, countVars, ghostVars, hookVars
  <1>6. CASE finishResponse
    BY <1>6 DEF finishResponse, countVars, clientVars, ghostVars
  <1>7. CASE handleCompletedRead
    BY <1>7 DEF handleCompletedRead, PluginAnswer, setConnectionHeaders, writeVars,
        countVars, clientVars, ghostVars, hookVars
  <1>8. CASE replyAborted
    BY <1>8 DEF replyAborted, writeVars, countVars, clientVars, ghostVars, hookVars
  <1>9. CASE startRegularReply
    BY <1>9 DEF startRegularReply, startWrite, countVars, clientVars, hookVars
  <1>10. CASE startChunkedReply
    BY <1>10 DEF startChunkedReply, Goto, countVars, clientVars, ghostVars, hookVars
  <1>11. CASE startStreamReply
    BY <1>11 DEF startStreamReply, Goto, clientVars, ghostVars, hookVars
  <1>12. CASE startGatewayReply
    BY <1>12 DEF startGatewayReply, Goto, writeVars, countVars, clientVars, ghostVars,
        hookVars
  <1>13. CASE getNextChunk
    BY <1>13 DEF getNextChunk, TakeContent, startWrite, clientVars, hookVars
  <1>14. CASE getNextChunkedChunk
    BY <1>14 DEF getNextChunkedChunk, TakeContent, startWrite, clientVars, hookVars
  <1>15. CASE streamerNotReady
    BY <1>15 DEF streamerNotReady, scheduleGetter, flushPendingHeaders, Getters,
        countVars, hookVars
  <1>16. CASE flushFails
    BY <1>16 DEF flushFails, Getters, countVars, clientVars, ghostVars, hookVars
  <1>17. CASE getterAborted
    BY <1>17 DEF getterAborted, Getters, writeVars, countVars, clientVars, ghostVars, hookVars
  <1>18. CASE streamEnds \/ chunkedStreamFails
    <2>1. /\ streamStatus = "OK" /\ logged = <<>> /\ notified = <<>> /\ ~itsBackendNotified
          /\ itsTotalStreamedBytes = produced
          /\ pc' \in {"finishResponse", "closed"} /\ UNCHANGED <<itsResponse, produced>>
          /\ finalizeStreamLogging /\ notifyBackendFinished(streamStatus')
      BY <1>18 DEF streamEnds, chunkedStreamFails, Goto, StageInv, StreamStages, ChunkStages
    <2>2. logged' = IF Streamed THEN <<produced>> ELSE <<>>
      BY <2>1 DEF finalizeStreamLogging
    <2>3. notified' = IF itsResponse.backend THEN <<streamStatus'>> ELSE <<>>
      BY <2>1 DEF notifyBackendFinished
    <2>4. Len(<<streamStatus'>>) = 1
      OBVIOUS
    <2>5. QED
      BY <2>1, <2>2, <2>3, <2>4, Zenon
  <1>20. CASE chunkedStreamEnds
    BY <1>20 DEF finalizeStreamLogging, notifyBackendFinished, chunkedStreamEnds,
        startWrite, countVars, clientVars
  <1>21. CASE writtenPart
    BY <1>21 DEF writtenPart, WriteHandlers, WrittenPart, countVars, ghostVars,
        hookVars
  <1>22. CASE writeRegularReply
    BY <1>22 DEF finalizeStreamLogging, notifyBackendFinished, writeRegularReply,
        Goto, WrittenAll, countVars, ghostVars
  <1>23. CASE writeStreamReply
    BY <1>23 DEF writeStreamReply, scheduleGetter, WrittenAll, countVars, hookVars
  <1>24. CASE writeChunkedReply
    BY <1>24 DEF writeChunkedReply, scheduleGetter, WrittenAll, countVars, hookVars
  <1>25. CASE finalizeChunkedReply
    <2>1. /\ streamStatus = "EXIT_OK" /\ logged = <<>>
          /\ itsResponse.backend => notified = <<"EXIT_OK">>
          /\ itsTotalStreamedBytes = produced /\ pc' = "finishResponse"
          /\ UNCHANGED <<itsResponse, produced, streamStatus, notified>>
          /\ finalizeStreamLogging
      BY <1>25 DEF finalizeChunkedReply, Goto, ghostVars, StageInv
    <2>2. logged' = IF Streamed THEN <<produced>> ELSE <<>>
      BY <2>1 DEF finalizeStreamLogging
    <2>3. Len(<<"EXIT_OK">>) = 1
      OBVIOUS
    <2>4. QED
      BY <2>1, <2>2, <2>3
  <1>26. CASE writeError
    <2>1. CASE pc = "finalizeChunkedReply"
      <3>1. /\ streamStatus = "EXIT_OK" /\ logged = <<>>
            /\ itsResponse.backend => notified = <<"EXIT_OK">>
            /\ itsTotalStreamedBytes = produced /\ pc' = "closed"
            /\ UNCHANGED <<itsResponse, produced, streamStatus, notified>>
            /\ finalizeStreamLogging
        BY <1>26, <2>1 DEF writeError, ghostVars, StageInv
      <3>2. logged' = IF Streamed THEN <<produced>> ELSE <<>>
        BY <3>1 DEF finalizeStreamLogging
      <3>3. QED
        BY <3>1, <3>2
    <2>2. CASE pc # "finalizeChunkedReply"
      <3>1. /\ streamStatus' = "OK" /\ pc' = "closed"
        BY <1>26, <2>2 DEF writeError, WriteHandlers, ghostVars
      <3>2. QED
        BY <3>1
    <2>3. QED
      BY <2>1, <2>2
  <1>27. CASE Terminated \/ UNCHANGED vars
    BY <1>27 DEF SilentStream, Terminated, vars, writeVars, countVars, clientVars, ghostVars,
        hookVars
  <1>29. CASE streamEndsUnsent
    <2>1. /\ pc' = "closed" /\ client' = client /\ produced' = produced
          /\ itsResponse' = itsResponse
      BY <1>29 DEF streamEndsUnsent, Goto, clientVars
    <2>2. SilentStream
      BY <1>29 DEF streamEndsUnsent, Goto, Getters, PendingInv, StageInv, StreamStages,
                   SilentStream
    <2>3. SilentStream' /\ Over' /\ ~Reused' /\ pc' \notin {"idle", "finishResponse",
                                                            "finalizeChunkedReply"}
      BY <2>1, <2>2 DEF SilentStream, Fresh
    <2>4. QED
      BY <2>1, <2>3
  <1>30. QED
    BY <1>1, <1>2, <1>3, <1>4, <1>5, <1>6, <1>7, <1>8, <1>9, <1>10, <1>11,
       <1>12, <1>13, <1>14, <1>15, <1>16, <1>17, <1>18, <1>20, <1>21,
       <1>22, <1>23, <1>24, <1>25, <1>26, <1>27, <1>29 DEF Next

-----------------------------------------------------------------------------
(* What the client makes of each write.                                    *)

LEMMA FreshFields ==
    /\ Fresh \in ClientType /\ Fresh.mode = "boundary" /\ Fresh.left = 0
    /\ Fresh.body = 0 /\ Fresh.messages = 0
  BY Tokens DEF Fresh, ClientType, Modes

LEMMA ReadFirst ==
    ASSUME NEW none, NEW v11, NEW c, NEW t \in Token, NEW s \in Seq(Token)
    PROVE  Reader(none, v11, c, <<t>> \o s) = Reader(none, v11, FeedOf(none, v11, c, t), s)
  <1>1. PICK x \in Seq(Token) : x = <<t>>
    BY One
  <1>2. Reader(none, v11, c, x \o s) = Reader(none, v11, Reader(none, v11, c, x), s)
    BY ReaderOfConcat
  <1>3. Reader(none, v11, c, x) = FeedOf(none, v11, c, t)
    BY <1>1, ReaderOfFew
  <1>4. QED
    BY <1>1, <1>2, <1>3

\* Content says nothing of persistence.
LEMMA ReadHeadless ==
    ASSUME NEW none, NEW v11, NEW c \in ClientType, NEW n \in Nat
    PROVE  /\ Reader(none, v11, c, Content(n)) \in ClientType
           /\ Reader(none, v11, c, Content(n)).persistent = c.persistent
  <1>1. Content(n) \in Seq(Token) /\ \A k \in 1 .. Len(Content(n)) : Content(n)[k].type # "head"
    <2>1. Content(n) \in Seq(Token) /\ Len(Content(n)) = n /\ \A k \in 1 .. n : Content(n)[k] = Byte
      BY ContentTokens
    <2>2. Byte.type # "head"
      BY Tokens
    <2>3. QED
      BY <2>1, <2>2
  <1>2. QED
    BY <1>1, ReaderKeeps

\* A header section and content, written as one string.
LEMMA ReadHeadContent ==
    ASSUME NEW none \in BOOLEAN, NEW v11 \in BOOLEAN, NEW p \in BOOLEAN,
           NEW length \in Lengths, NEW f \in Framings, NEW size \in Lengths
    PROVE  LET e == Reader(none, v11, Fresh, <<HeaderSection(f, length, p)>> \o Content(size))
           IN  /\ e \in ClientType /\ e.persistent = p
               /\ (none /\ size = 0) \/ (~none /\ f = "length" /\ size = length) =>
                     e.mode = "boundary" /\ e.messages = 1 /\ e.body = size
  <1>. DEFINE h == HeaderSection(f, length, p)
              d == FeedOf(none, v11, Fresh, h)
              e == Reader(none, v11, Fresh, <<h>> \o Content(size))
  <1>1. /\ h \in Token /\ h.type = "head" /\ h.framing = f /\ h.length = length
        /\ h.persistent = p /\ size \in Nat /\ length \in Nat
    BY Tokens
  <1>2. Content(size) \in Seq(Token) /\ <<h>> \in Seq(Token)
    BY <1>1, ContentTokens, One
  <1>. HIDE DEF h
  <1>3. e = Reader(none, v11, d, Content(size))
    BY <1>1, <1>2, ReadFirst
  <1>4. /\ d \in ClientType /\ d.persistent = p /\ d.body = 0
        /\ none \/ (f = "length" /\ length = 0) => d.mode = "boundary" /\ d.messages = 1
        /\ ~none /\ f = "length" /\ length > 0 =>
              d.mode = "length" /\ d.left = length /\ d.messages = 0
    <2>1. PICK c \in ClientType : c = Fresh
      BY FreshFields
    <2>2. c.mode = "boundary" /\ c.body = 0 /\ c.messages = 0
      BY <2>1, FreshFields
    <2>3. /\ d \in ClientType /\ d.persistent = h.persistent /\ d.body = c.body
          /\ none \/ (h.framing = "length" /\ h.length = 0) =>
                d.mode = "boundary" /\ d.messages = c.messages + 1
          /\ ~none /\ h.framing = "length" /\ h.length > 0 =>
                d.mode = "length" /\ d.left = h.length /\ d.messages = c.messages
      <3>1. d = FeedOf(none, v11, c, h)
        BY <2>1
      <3>. HIDE DEF d
      <3>2. h \in Token /\ h.type = "head" /\ c.mode = "boundary"
        BY <1>1, <2>2
      <3>3. /\ FeedOf(none, v11, c, h) \in ClientType
            /\ FeedOf(none, v11, c, h).persistent = h.persistent
            /\ FeedOf(none, v11, c, h).body = c.body
            /\ none \/ (h.framing = "length" /\ h.length = 0) =>
                  /\ FeedOf(none, v11, c, h).mode = "boundary"
                  /\ FeedOf(none, v11, c, h).messages = c.messages + 1
            /\ ~none /\ h.framing = "length" /\ h.length > 0 =>
                  /\ FeedOf(none, v11, c, h).mode = "length"
                  /\ FeedOf(none, v11, c, h).left = h.length
                  /\ FeedOf(none, v11, c, h).messages = c.messages
        BY <3>2, FeedHead
      <3>4. QED
        BY <3>1, <3>3, Zenon
    <2>4. QED
      BY <1>1, <2>2, <2>3
  <1>. HIDE DEF d, e
  <1>5. e \in ClientType /\ e.persistent = p
    BY <1>1, <1>3, <1>4, ReadHeadless
  <1>6. ASSUME (none /\ size = 0) \/ (~none /\ f = "length" /\ size = length)
        PROVE  e.mode = "boundary" /\ e.messages = 1 /\ e.body = size
    <2>1. CASE size = 0
      <3>1. Content(size) = <<>>
        BY <2>1, <1>2, ContentTokens
      <3>2. e = d
        BY <1>3, <3>1, ReaderOfFew
      <3>3. QED
        BY <1>4, <1>6, <2>1, <3>2
    <2>2. CASE size > 0
      <3>1. d.mode = "length" /\ d.left = size /\ d.messages = 0
        BY <1>1, <1>4, <1>6, <2>2
      <3>2. e.mode = "boundary" /\ e.messages = d.messages + 1 /\ e.body = d.body + size
        BY <1>1, <1>3, <1>4, <2>2, <3>1, ReadContent
      <3>3. QED
        BY <1>1, <1>4, <3>1, <3>2
    <2>3. QED
      BY <1>1, <2>1, <2>2
  <1>7. QED
    BY <1>5, <1>6 DEF e, h

\* A chunk of n bytes, to a reader that is between chunks.
LEMMA ReadChunk ==
    ASSUME NEW none, NEW v11, NEW c \in ClientType, NEW n \in Lengths
    PROVE  LET e == Reader(none, v11, c, <<Chunk(n)>> \o Content(n))
           IN  /\ e \in ClientType /\ e.persistent = c.persistent
               /\ c.mode = "chunks" /\ c.left = 0 /\ n > 0 =>
                     /\ e.mode = "chunks" /\ e.left = 0 /\ e.messages = c.messages
                     /\ e.body = c.body + n
  <1>. DEFINE d == FeedOf(none, v11, c, Chunk(n))
              e == Reader(none, v11, c, <<Chunk(n)>> \o Content(n))
  <1>1. Chunk(n) \in Token /\ Chunk(n).type = "chunk" /\ n \in Nat
    BY Tokens
  <1>2. Content(n) \in Seq(Token) /\ <<Chunk(n)>> \in Seq(Token)
    BY <1>1, ContentTokens, One
  <1>3. e = Reader(none, v11, d, Content(n))
    BY <1>1, <1>2, ReadFirst
  <1>4. d \in ClientType /\ d.persistent = c.persistent
    BY <1>1, FeedKeeps
  <1>5. ASSUME c.mode = "chunks", c.left = 0, n > 0
        PROVE  d.mode = "chunks" /\ d.left = n /\ d.messages = c.messages /\ d.body = c.body
    BY <1>5, FeedChunk
  <1>. HIDE DEF d, e
  <1>6. e \in ClientType /\ e.persistent = c.persistent
    BY <1>1, <1>3, <1>4, ReadHeadless
  <1>7. ASSUME c.mode = "chunks", c.left = 0, n > 0
        PROVE  /\ e.mode = "chunks" /\ e.left = 0 /\ e.messages = c.messages
               /\ e.body = c.body + n
    <2>1. d.mode = "chunks" /\ d.left = n /\ d.messages = c.messages /\ d.body = c.body
      BY <1>5, <1>7
    <2>2. /\ e.mode = "chunks" /\ e.messages = d.messages /\ e.left = d.left - n
          /\ e.body = d.body + n
      BY <1>1, <1>3, <1>4, <1>7, <2>1, ReadContent
    <2>3. QED
      BY <1>1, <2>1, <2>2
  <1>8. QED
    BY <1>6, <1>7 DEF e

\* The terminating chunk.
LEMMA ReadLastChunk ==
    ASSUME NEW none, NEW v11, NEW c \in ClientType
    PROVE  LET e == Reader(none, v11, c, <<Chunk(0)>>)
           IN  /\ e \in ClientType /\ e.persistent = c.persistent
               /\ c.mode = "chunks" /\ c.left = 0 =>
                     e.mode = "boundary" /\ e.messages = c.messages + 1 /\ e.body = c.body
  <1>1. Chunk(0) \in Token /\ Chunk(0).type = "chunk" /\ 0 \in Lengths
    BY Tokens
  <1>2. Reader(none, v11, c, <<Chunk(0)>>) = FeedOf(none, v11, c, Chunk(0))
    BY <1>1, ReaderOfFew
  <1>3. QED
    BY <1>1, <1>2, FeedKeeps, FeedChunk

\* A header section in the middle of a chunked body: the client has lost its place.
LEMMA ReadStockInChunks ==
    ASSUME NEW none, NEW v11, NEW c \in ClientType, c.mode = "chunks", c.left = 0,
           NEW p \in BOOLEAN
    PROVE  Reader(none, v11, c, <<HeaderSection("length", StockLength, p)>>
                                   \o Content(StockLength)).messages = c.messages
  <1>. DEFINE h == HeaderSection("length", StockLength, p)
              d == FeedOf(none, v11, c, h)
  <1>1. h \in Token /\ h.type = "head" /\ Byte \in Token
    BY Tokens
  <1>2. <<h>> \in Seq(Token) /\ <<Byte>> \in Seq(Token)
    BY <1>1, One
  <1>3. Content(StockLength) = <<Byte>>
    BY DEF Content, StockLength
  <1>4. d = Lost(c)
    BY <1>1 DEF FeedOf
  <1>. HIDE DEF h
  <1>5. d.mode = "lost" /\ d.messages = c.messages
    BY <1>4 DEF Lost, ClientType
  <1>6. Reader(none, v11, c, <<h>> \o <<Byte>>) = FeedOf(none, v11, d, Byte)
    <2>1. Reader(none, v11, c, <<h>> \o <<Byte>>) = Reader(none, v11, d, <<Byte>>)
      <3>1. PICK s \in Seq(Token) : s = <<Byte>>
        BY <1>2
      <3>2. Reader(none, v11, c, <<h>> \o s) = Reader(none, v11, d, s)
        BY <1>1, ReadFirst
      <3>3. QED
        BY <3>1, <3>2
    <2>2. QED
      BY <1>1, <2>1, ReaderOfFew
  <1>7. d \in ClientType
    BY <1>1, FeedKeeps
  <1>. HIDE DEF d
  <1>8. FeedOf(none, v11, d, Byte) = Lost(d)
    BY <1>5 DEF FeedOf
  <1>9. Lost(d).messages = c.messages
    BY <1>5, <1>7 DEF Lost, ClientType
  <1>10. QED
    BY <1>3, <1>6, <1>8, <1>9 DEF h

-----------------------------------------------------------------------------
(* Where the client is, step by step.                                      *)

LEMMA EventualNow ==
    ASSUME TypeInv
    PROVE  /\ pc \in Getters => Eventual = Reader(None, request.v11, client, itsPendingHeaders)
           /\ pc \in WriteHandlers => Eventual = Reader(None, request.v11, client, Coming)
           /\ pc \notin Getters \cup WriteHandlers => Eventual = client
           /\ Outstanding \in Seq(Token) /\ Coming \in Seq(Token)
           /\ Eventual \in ClientType /\ Eventual.messages >= client.messages
  <1>1. Coming \in Seq(Token)
    BY DEF Coming, TypeInv, TypeOK
  <1>2. <<>> \in Seq(Token) /\ Reader(None, request.v11, client, <<>>) = client
    BY Empty, ReaderOfFew
  <1>3. Outstanding \in Seq(Token)
    BY <1>1, <1>2 DEF Outstanding, TypeInv
  <1>4. Eventual \in ClientType /\ Eventual.messages >= client.messages
    BY <1>3, ReaderKeeps DEF Eventual, TypeInv
  <1>5. Getters \cap WriteHandlers = {}
    BY DEF Getters, WriteHandlers
  <1>6. QED
    BY <1>1, <1>2, <1>3, <1>4, <1>5 DEF Eventual, Outstanding

LEMMA EventualNext ==
    ASSUME TypeInv', request' = request, itsResponse' = itsResponse
    PROVE  /\ pc' \in Getters =>
                 Eventual' = Reader(None, request.v11, client', itsPendingHeaders')
           /\ pc' \in WriteHandlers =>
                 Eventual' = Reader(None, request.v11, client', Coming')
           /\ pc' \notin Getters \cup WriteHandlers => Eventual' = client'
           /\ itsSentBytes' = 0 => Coming' = itsResponseString'
  <1>1. None' = None /\ Getters' = Getters /\ WriteHandlers' = WriteHandlers
    BY DEF None
  <1>2. itsSentBytes' = 0 => Coming' = itsResponseString'
    BY WholeSequence DEF Coming, TypeInv
  <1>3. <<>> \in Seq(Token) /\ Reader(None, request.v11, client', <<>>) = client'
    BY Empty, ReaderOfFew
  <1>4. Getters \cap WriteHandlers = {}
    BY DEF Getters, WriteHandlers
  <1>5. QED
    BY <1>1, <1>2, <1>3, <1>4 DEF Eventual, Outstanding

\* As long as a chunked response is not terminated, the client has no message complete.
LEMMA Unread ==
    ASSUME TypeInv, StageInv, ReaderInv, Chunked,
           pc \in {"start", "finalizeChunkedReply", "sendStockReply"} \cup ChunkStages
    PROVE  client.messages = 0
  <1>1. CASE pc = "start"
    BY <1>1, FreshFields DEF StageInv
  <1>2. CASE pc \in {"finalizeChunkedReply", "sendStockReply"}
    BY <1>2, FreshFields DEF ReaderInv, PlaceInv, InChunks
  <1>3. CASE pc \in ChunkStages
    <2>1. Eventual.messages = 0
      BY <1>3 DEF ReaderInv, PlaceInv, InChunks
    <2>2. Eventual.messages >= client.messages /\ client.messages \in Nat
      BY EventualNow, ClientFields DEF TypeInv
    <2>3. QED
      BY <2>1, <2>2
  <1>4. QED
    BY <1>1, <1>2, <1>3

\* Before anything is written, the client has completed no message.
LEMMA NothingRead ==
    ASSUME client' = Fresh \/ client'.messages = 0
    PROVE  CompleteMeansWhole'
  BY FreshFields DEF CompleteMeansWhole

LEMMA RegularReader ==
    ASSUME TypeInv, TypeInv', StageInv, startRegularReply
    PROVE  ReaderInv'
  <1>1. PICK none \in BOOLEAN, v11 \in BOOLEAN, p \in BOOLEAN, length \in Lengths,
             f \in Framings :
          /\ none = None /\ v11 = request.v11 /\ p = itsKeepAlive
          /\ length = itsResponse.length /\ f = RegularFraming
    <2>1. RegularFraming \in Framings /\ itsKeepAlive \in BOOLEAN
      BY DEF RegularFraming, Framings, TypeInv, TypeOK
    <2>2. QED
      BY <2>1, Fields
  <1>2. PICK size \in Lengths : size = IF None THEN 0 ELSE length
    BY Tokens
  <1>3. /\ pc = "start" /\ client = Fresh /\ client' = client /\ pc' = "writeRegularReply"
        /\ itsResponseString' = <<HeaderSection(f, length, p)>> \o Content(size)
        /\ itsSentBytes' = 0 /\ produced' = size
        /\ request' = request /\ itsResponse' = itsResponse /\ itsKeepAlive' = p
    BY <1>1, <1>2 DEF startRegularReply, startWrite, clientVars, StageInv, None
  <1>4. (none /\ size = 0) \/ (~none /\ f = "length" /\ size = length)
    BY <1>1, <1>2 DEF None, RegularFraming
  <1>5. PICK e : e = Reader(none, v11, Fresh, <<HeaderSection(f, length, p)>> \o Content(size))
    OBVIOUS
  <1>6. Eventual' = e
    BY <1>1, <1>3, <1>5, EventualNext DEF WriteHandlers
  <1>7. e.persistent = p /\ e.mode = "boundary" /\ e.messages = 1 /\ e.body = size
    <2>1. /\ e.persistent = p
          /\ (none /\ size = 0) \/ (~none /\ f = "length" /\ size = length) =>
                e.mode = "boundary" /\ e.messages = 1 /\ e.body = size
      <3>. DEFINE x == Reader(none, v11, Fresh, <<HeaderSection(f, length, p)>> \o Content(size))
      <3>1. /\ x.persistent = p
            /\ (none /\ size = 0) \/ (~none /\ f = "length" /\ size = length) =>
                  x.mode = "boundary" /\ x.messages = 1 /\ x.body = size
        BY ReadHeadContent
      <3>. HIDE DEF x
      <3>2. QED
        BY <1>5, <3>1, Zenon DEF x
    <2>2. QED
      BY <1>4, <2>1, Zenon
  <1>8. PersistInv'
    BY <1>3, <1>6, <1>7 DEF PersistInv
  <1>9. PlaceInv'
    BY <1>3, <1>6, <1>7 DEF PlaceInv, AtEnd, StreamStages, ChunkStages
  <1>10. EndInv'
    BY <1>3, NothingRead DEF EndInv, ReuseInSync, ReuseAnnounced, Reused
  <1>11. QED
    BY <1>8, <1>9, <1>10 DEF ReaderInv

\* The header section of a stream waits: the client is before its body when it has it.
LEMMA WaitingReader ==
    ASSUME TypeInv, TypeInv', StageInv, startChunkedReply \/ startStreamReply
    PROVE  ReaderInv'
  <1>1. PICK none \in BOOLEAN, v11 \in BOOLEAN, p \in BOOLEAN,
             n \in Lengths, f \in Framings, c \in ClientType :
          /\ none = None /\ v11 = request.v11 /\ p = itsKeepAlive /\ c = client
          /\ f = IF itsResponse.kind = "chunked" THEN "chunked" ELSE "length"
          /\ n = IF itsResponse.kind = "chunked" THEN 0 ELSE itsResponse.length
    <2>1. itsKeepAlive \in BOOLEAN /\ client \in ClientType
      BY DEF TypeInv, TypeOK
    <2>2. (IF itsResponse.kind = "chunked" THEN 0 ELSE itsResponse.length) \in Lengths
      BY Fields, Tokens
    <2>3. (IF itsResponse.kind = "chunked" THEN "chunked" ELSE "length") \in Framings
      BY Tokens
    <2>4. QED
      BY <2>1, <2>2, <2>3, Fields, Zenon
  <1>2. PICK h \in Token : h = HeaderSection(f, n, p)
    BY Tokens
  <1>3. /\ pc = "start" /\ client = Fresh /\ client' = client /\ produced = 0
        /\ produced' = produced /\ itsPendingHeaders' = <<h>> /\ ~request.head
        /\ request' = request /\ itsResponse' = itsResponse /\ itsKeepAlive' = p
        /\ \/ itsResponse.kind = "chunked" /\ pc' = "getNextChunkedChunk"
           \/ itsResponse.kind = "stream" /\ pc' = "getNextChunk"
    BY <1>1, <1>2 DEF startChunkedReply, startStreamReply, Goto, clientVars, ghostVars,
                      StageInv
  <1>4. h.type = "head" /\ h.framing = f /\ h.length = n /\ h.persistent = p
    BY <1>2, Tokens
  <1>5. PICK e : e = FeedOf(none, v11, c, h)
    OBVIOUS
  <1>6. Eventual' = e
    <2>1. Eventual' = Reader(none, v11, c, <<h>>)
      BY <1>1, <1>3, EventualNext DEF Getters
    <2>2. QED
      BY <1>5, <2>1, ReaderOfFew
  <1>7. c.mode = "boundary" /\ c.body = 0 /\ c.messages = 0 /\ c.left = 0
    BY <1>1, <1>3, FreshFields
  <1>8. /\ e.persistent = p /\ e.body = 0
        /\ none \/ (f = "length" /\ n = 0) => e.mode = "boundary" /\ e.messages = 1
        /\ ~none /\ f = "length" /\ n > 0 =>
              e.mode = "length" /\ e.left = n /\ e.messages = 0
        /\ ~none /\ f = "chunked" /\ v11 =>
              e.mode = "chunks" /\ e.left = 0 /\ e.messages = 0
    <2>1. /\ e.persistent = h.persistent /\ e.body = c.body
          /\ none \/ (h.framing = "length" /\ h.length = 0) =>
                e.mode = "boundary" /\ e.messages = c.messages + 1
          /\ ~none /\ h.framing = "length" /\ h.length > 0 =>
                e.mode = "length" /\ e.left = h.length /\ e.messages = c.messages
          /\ ~none /\ h.framing = "chunked" /\ v11 =>
                e.mode = "chunks" /\ e.left = c.left /\ e.messages = c.messages
      <3>1. h.type = "head" /\ c.mode = "boundary"
        BY <1>4, <1>7
      <3>. DEFINE x == FeedOf(none, v11, c, h)
      <3>2. /\ x.persistent = h.persistent /\ x.body = c.body
            /\ none \/ (h.framing = "length" /\ h.length = 0) =>
                  x.mode = "boundary" /\ x.messages = c.messages + 1
            /\ ~none /\ h.framing = "length" /\ h.length > 0 =>
                  x.mode = "length" /\ x.left = h.length /\ x.messages = c.messages
            /\ ~none /\ h.framing = "chunked" /\ v11 =>
                  x.mode = "chunks" /\ x.left = c.left /\ x.messages = c.messages
        BY <3>1, FeedHead
      <3>3. e = x
        BY <1>5
      <3>. HIDE DEF x
      <3>4. QED
        BY <3>2, <3>3, Zenon
    <2>2. QED
      BY <1>4, <1>7, <2>1
  <1>9. PersistInv'
    BY <1>3, <1>6, <1>8 DEF PersistInv
  <1>10. itsResponse.kind = "stream" /\ itsResponse.hasBody => InStream(e)'
    <2>1. n \in Nat
      BY Tokens
    <2>2. ASSUME itsResponse.kind = "stream", itsResponse.hasBody
          PROVE  ~none /\ f = "length" /\ n = itsResponse.length /\ produced' = 0
                    /\ itsResponse' = itsResponse
      BY <1>1, <1>3, <2>2 DEF None
    <2>3. QED
      BY <1>8, <2>1, <2>2 DEF InStream, AtEnd
  <1>11. itsResponse.kind = "chunked" /\ Chunked' => InChunks(e)'
    BY <1>1, <1>3, <1>8 DEF InChunks, Chunked, None
  <1>12. PlaceInv'
    BY <1>3, <1>6, <1>10, <1>11
       DEF PlaceInv, StreamStages, ChunkStages, InStream, InChunks, AtEnd
  <1>13. EndInv'
    BY <1>3, NothingRead DEF EndInv, ReuseInSync, ReuseAnnounced, Reused
  <1>14. QED
    BY <1>9, <1>12, <1>13 DEF ReaderInv

\* More of a stream: the client will be so much further in the announced length.
LEMMA StreamReader ==
    ASSUME TypeInv, TypeInv', StageInv, ReaderInv, getNextChunk
    PROVE  ReaderInv'
  <1>1. PICK n \in Lengths \ {0} :
           /\ TakeContent(n)
           /\ startWrite(itsPendingHeaders \o ForwardedHead \o Content(n), "writeStreamReply")
    BY DEF getNextChunk
  <1>2. /\ pc = "getNextChunk" /\ pc' = "writeStreamReply" /\ itsSentBytes' = 0
        /\ itsResponseString' = itsPendingHeaders \o ForwardedHead \o Content(n)
        /\ produced' = produced + n /\ client' = client
        /\ request' = request /\ itsResponse' = itsResponse /\ itsKeepAlive' = itsKeepAlive
        /\ itsResponse.kind \in {"stream", "gateway"}
        /\ itsResponse.kind = "gateway" => ~itsKeepAlive
    BY <1>1 DEF getNextChunk, TakeContent, startWrite, clientVars, StageInv, StreamStages
  <1>3. EndInv'
    BY <1>2 DEF EndInv, ReuseInSync, ReuseAnnounced, Reused, CompleteMeansWhole
  <1>4. CASE itsResponse.kind = "gateway"
    <2>1. PersistInv' /\ PlaceInv'
      BY <1>2, <1>4 DEF PersistInv, PlaceInv, StreamStages, ChunkStages
    <2>2. QED
      BY <1>3, <2>1 DEF ReaderInv
  <1>5. CASE itsResponse.kind = "stream"
    <2>1. PICK none \in BOOLEAN, v11 \in BOOLEAN, c \in ClientType, r \in ClientType,
               s \in Seq(Token) :
            /\ none = None /\ v11 = request.v11 /\ c = client /\ r = Eventual
            /\ s = itsPendingHeaders
      BY Fields, EventualNow DEF TypeInv
    <2>2. PICK b \in Seq(Token) : b = Content(n)
      BY Tokens, ContentTokens
    <2>3. n \in Nat /\ n > 0
      BY Tokens
    <2>4. itsResponseString' = s \o b
      <3>1. ForwardedHead = <<>> /\ s \o <<>> = s
        BY <1>5 DEF ForwardedHead
      <3>2. QED
        BY <1>2, <2>1, <2>2, <3>1
    <2>5. r = Reader(none, v11, c, s)
      BY <1>2, <2>1, EventualNow DEF Getters
    <2>6. PICK e : e = Reader(none, v11, r, b)
      OBVIOUS
    <2>7. Eventual' = e
      <3>1. Eventual' = Reader(none, v11, c, s \o b)
        BY <1>2, <2>1, <2>4, EventualNext DEF WriteHandlers
      <3>2. Reader(none, v11, c, s \o b) = Reader(none, v11, r, b)
        BY <2>5, ReaderOfConcat
      <3>3. QED
        BY <2>6, <3>1, <3>2
    <2>8. e \in ClientType /\ e.persistent = r.persistent
      BY <2>2, <2>3, <2>6, ReadHeadless
    <2>9. PersistInv'
      BY <1>2, <2>1, <2>7, <2>8 DEF PersistInv, ReaderInv, Getters
    <2>10. itsResponse.hasBody => InStream(e)'
      <3>1. SUFFICES ASSUME itsResponse.hasBody, produced + n <= itsResponse.length
                     PROVE  InStream(e)'
        <4>1. itsResponse.length \in Nat /\ produced \in Nat
          BY Fields, Tokens DEF TypeInv, TypeOK
        <4>2. QED
          BY <1>2, <2>3, <4>1 DEF InStream
      <3>2. itsResponse.length \in Nat /\ produced \in Nat
        BY Fields, Tokens DEF TypeInv, TypeOK
      <3>3. /\ r.mode = "length" /\ r.left = itsResponse.length - produced
            /\ r.body = produced /\ r.messages = 0
        BY <1>2, <1>5, <2>1, <2>3, <3>1, <3>2
           DEF ReaderInv, PlaceInv, InStream, StreamStages
      <3>4. n <= r.left
        BY <2>3, <3>1, <3>2, <3>3
      <3>. DEFINE x == Reader(none, v11, r, Content(n))
      <3>5. /\ x.body = r.body + n /\ x.left = r.left - n
            /\ n = r.left => x.mode = "boundary" /\ x.messages = r.messages + 1
            /\ n < r.left => x.mode = "length" /\ x.messages = r.messages
        BY <2>3, <3>3, <3>4, ReadContent
      <3>6. x = e
        BY <2>2, <2>6
      <3>. HIDE DEF x
      <3>7. QED
        BY <1>2, <2>3, <3>1, <3>2, <3>3, <3>5, <3>6 DEF InStream, AtEnd
    <2>11. PlaceInv'
      BY <1>2, <1>5, <2>7, <2>10
         DEF PlaceInv, StreamStages, ChunkStages, InStream, AtEnd, Chunked
    <2>12. QED
      BY <1>3, <2>9, <2>11 DEF ReaderInv
  <1>6. QED
    BY <1>2, <1>4, <1>5

\* One more chunk: the client will be between two chunks, so many bytes further.
LEMMA ChunkReader ==
    ASSUME TypeInv, TypeInv', StageInv, ReaderInv, getNextChunkedChunk
    PROVE  ReaderInv'
  <1>1. PICK n \in Lengths \ {0} :
           /\ TakeContent(n)
           /\ startWrite(itsPendingHeaders \o <<Chunk(n)>> \o Content(n), "writeChunkedReply")
    BY DEF getNextChunkedChunk
  <1>2. PICK none \in BOOLEAN, v11 \in BOOLEAN, c \in ClientType, r \in ClientType,
             s \in Seq(Token) :
          /\ none = None /\ v11 = request.v11 /\ c = client /\ r = Eventual
          /\ s = itsPendingHeaders
    BY Fields, EventualNow DEF TypeInv
  <1>3. PICK b \in Seq(Token) : b = <<Chunk(n)>> \o Content(n)
    BY Tokens, One, ContentTokens, Concat
  <1>4. n \in Nat /\ n > 0
    BY Tokens
  <1>5. itsResponseString' = s \o b
    <2>1. itsResponseString' = (s \o <<Chunk(n)>>) \o Content(n)
      BY <1>1, <1>2 DEF startWrite
    <2>2. <<Chunk(n)>> \in Seq(Token) /\ Content(n) \in Seq(Token)
      BY Tokens, One, ContentTokens
    <2>3. QED
      BY <1>3, <2>1, <2>2, ConcatAssociative
  <1>6. /\ pc = "getNextChunkedChunk" /\ pc' = "writeChunkedReply" /\ itsSentBytes' = 0
        /\ produced' = produced + n /\ client' = client
        /\ request' = request /\ itsResponse' = itsResponse /\ itsKeepAlive' = itsKeepAlive
        /\ itsResponse.kind = "chunked" /\ produced \in Nat
    BY <1>1, Tokens DEF getNextChunkedChunk, TakeContent, startWrite, clientVars, StageInv,
                        ChunkStages, TypeInv, TypeOK
  <1>7. r = Reader(none, v11, c, s)
    BY <1>2, <1>6, EventualNow DEF Getters
  <1>8. PICK e : e = Reader(none, v11, r, b)
    OBVIOUS
  <1>9. Eventual' = e
    <2>1. Eventual' = Reader(none, v11, c, s \o b)
      BY <1>2, <1>5, <1>6, EventualNext DEF WriteHandlers
    <2>2. Reader(none, v11, c, s \o b) = Reader(none, v11, r, b)
      BY <1>7, ReaderOfConcat
    <2>3. QED
      BY <1>8, <2>1, <2>2
  <1>10. /\ e.persistent = r.persistent
         /\ r.mode = "chunks" /\ r.left = 0 =>
               /\ e.mode = "chunks" /\ e.left = 0 /\ e.messages = r.messages
               /\ e.body = r.body + n
    <2>. DEFINE x == Reader(none, v11, r, <<Chunk(n)>> \o Content(n))
    <2>1. /\ x.persistent = r.persistent
          /\ r.mode = "chunks" /\ r.left = 0 /\ n > 0 =>
                /\ x.mode = "chunks" /\ x.left = 0 /\ x.messages = r.messages
                /\ x.body = r.body + n
      BY ReadChunk
    <2>2. e = x
      BY <1>3, <1>8
    <2>. HIDE DEF x
    <2>3. QED
      BY <1>4, <2>1, <2>2
  <1>11. PersistInv'
    BY <1>2, <1>6, <1>9, <1>10 DEF PersistInv, ReaderInv, Getters
  <1>12. PlaceInv'
    BY <1>2, <1>6, <1>9, <1>10
       DEF ReaderInv, PlaceInv, StreamStages, ChunkStages, InChunks, Chunked
  <1>13. Chunked => client'.messages = 0
    BY <1>6, Unread DEF ChunkStages
  <1>14. EndInv'
    BY <1>6, <1>13 DEF EndInv, ReuseInSync, ReuseAnnounced, Reused, CompleteMeansWhole, Chunked
  <1>15. QED
    BY <1>11, <1>12, <1>14 DEF ReaderInv

\* The client has everything that was handed over, and the getter comes next, or the
\* busy reply when the queue is full.
LEMMA ScheduleReader ==
    ASSUME TypeInv, TypeInv', StageInv, ReaderInv,
           client' = Eventual, itsPendingHeaders' = <<>>,
           request' = request, itsResponse' = itsResponse, produced' = produced,
           \/ pc \in StreamStages /\ scheduleGetter("getNextChunk")
           \/ pc \in ChunkStages /\ scheduleGetter("getNextChunkedChunk")
    PROVE  ReaderInv'
  <1>1. PICK none \in BOOLEAN, v11 \in BOOLEAN, r \in ClientType :
          none = None /\ v11 = request.v11 /\ r = Eventual
    BY Fields, EventualNow
  <1>2. client' = r /\ Reader(none, v11, r, <<>>) = r
    BY <1>1, ReaderOfFew
  <1>3. Eventual' = r
    <2>1. pc' \in Getters => Eventual' = Reader(none, v11, r, <<>>)
      BY <1>1, <1>2, EventualNext
    <2>2. pc' \notin Getters => pc' = "sendStockReply"
      BY DEF scheduleGetter, Getters
    <2>3. pc' \notin Getters => Eventual' = client'
      BY <2>2, EventualNext DEF WriteHandlers
    <2>4. QED
      BY <1>2, <2>1, <2>3
  <1>4. /\ pc \in Getters \cup WriteHandlers
        /\ \/ pc' = "sendStockReply" /\ itsKeepAlive' = FALSE
           \/ /\ pc \in StreamStages /\ pc' = "getNextChunk" /\ itsKeepAlive' = itsKeepAlive
           \/ /\ pc \in ChunkStages /\ pc' = "getNextChunkedChunk"
              /\ itsKeepAlive' = itsKeepAlive
    BY DEF scheduleGetter, StreamStages, ChunkStages, Getters, WriteHandlers
  <1>5. PersistInv'
    BY <1>1, <1>3, <1>4 DEF PersistInv, ReaderInv
  <1>6. Chunked => pc \in ChunkStages /\ InChunks(r)
    BY <1>1 DEF Chunked, StageInv, ReaderInv, PlaceInv, InChunks, StreamStages, ChunkStages
  <1>7. PlaceInv'
    <2>1. pc' \in {"sendStockReply", "getNextChunk", "getNextChunkedChunk"}
      BY <1>4
    <2>2. Chunked' = Chunked /\ InChunks(r)' = InChunks(r) /\ InStream(r)' = InStream(r)
      BY DEF Chunked, InChunks, InStream, AtEnd
    <2>3. pc' = "getNextChunk" => pc \in StreamStages
      BY <1>4
    <2>4. pc \in StreamStages /\ itsResponse.kind = "stream" /\ itsResponse.hasBody
             => InStream(r)
      BY <1>1 DEF ReaderInv, PlaceInv, InStream, AtEnd
    <2>5. pc' \in StreamStages /\ itsResponse'.kind = "stream" /\ itsResponse'.hasBody
             => InStream(Eventual)'
      BY <1>3, <2>1, <2>2, <2>3, <2>4 DEF StreamStages, InStream, AtEnd
    <2>6. Chunked' => InChunks(Eventual)' /\ InChunks(client)'
      BY <1>2, <1>3, <1>6, <2>2 DEF InChunks
    <2>7. QED
      BY <2>1, <2>5, <2>6 DEF PlaceInv, ChunkStages
  <1>8. EndInv'
    <2>1. Chunked => client'.messages = 0
      BY <1>2, <1>6 DEF InChunks
    <2>2. QED
      BY <1>4, <2>1 DEF EndInv, ReuseInSync, ReuseAnnounced, Reused, CompleteMeansWhole,
                        Chunked
  <1>9. QED
    BY <1>5, <1>7, <1>8 DEF ReaderInv

\* The header section that waited has gone out on its own.
LEMMA NotReadyReader ==
    ASSUME TypeInv, TypeInv', StageInv, ReaderInv, streamerNotReady
    PROVE  ReaderInv'
  <1>1. /\ pc \in Getters /\ scheduleGetter(pc) /\ flushPendingHeaders
        /\ request' = request /\ itsResponse' = itsResponse /\ produced' = produced
    BY DEF streamerNotReady
  <1>2. client' = Eventual /\ itsPendingHeaders' = <<>>
    BY <1>1, FlushReads, EventualNow
  <1>3. \/ pc \in StreamStages /\ scheduleGetter("getNextChunk")
        \/ pc \in ChunkStages /\ scheduleGetter("getNextChunkedChunk")
    BY <1>1 DEF Getters, StreamStages, ChunkStages
  <1>4. QED
    BY <1>1, <1>2, <1>3, ScheduleReader

\* The bytes of a stream have been written.
LEMMA WrittenReader ==
    ASSUME TypeInv, TypeInv', StageInv, PendingInv, ReaderInv,
           writeStreamReply \/ writeChunkedReply
    PROVE  ReaderInv'
  <1>1. /\ WrittenAll /\ pc \in WriteHandlers /\ pc \notin Getters \cup {"closed"}
        /\ request' = request /\ itsResponse' = itsResponse /\ produced' = produced
        /\ itsPendingHeaders' = itsPendingHeaders
    BY DEF writeStreamReply, writeChunkedReply, WriteHandlers, Getters
  <1>2. client' = Eventual
    BY <1>1, AllReads, EventualNow
  <1>3. itsPendingHeaders' = <<>>
    BY <1>1 DEF PendingInv
  <1>4. \/ pc \in StreamStages /\ scheduleGetter("getNextChunk")
        \/ pc \in ChunkStages /\ scheduleGetter("getNextChunkedChunk")
    BY DEF writeStreamReply, writeChunkedReply, StreamStages, ChunkStages
  <1>5. QED
    BY <1>1, <1>2, <1>3, <1>4, ScheduleReader

\* A stream of announced length is over: the connection goes on only if the client has
\* as much of it as was announced.
LEMMA StreamEndReader ==
    ASSUME TypeInv, TypeInv', StageInv, ReaderInv, streamEnds
    PROVE  ReaderInv'
  <1>1. /\ pc = "getNextChunk" /\ pc' = "finishResponse" /\ flushPendingHeaders
        /\ request' = request /\ itsResponse' = itsResponse /\ produced' = produced
        /\ itsKeepAlive' = (itsKeepAlive /\ itsTotalStreamedBytes = itsDeclaredContentLength)
    BY DEF streamEnds, Goto, StreamDelivered
  <1>2. /\ ~request.head /\ itsResponse.kind \in {"stream", "gateway"}
        /\ itsResponse.kind = "gateway" => ~itsKeepAlive
        /\ itsResponse.kind = "stream" => itsDeclaredContentLength = itsResponse.length
        /\ itsTotalStreamedBytes = produced
    BY <1>1 DEF StageInv, StreamStages
  <1>3. PICK r : r = Eventual
    OBVIOUS
  <1>4. client' = r /\ Eventual' = r
    <2>1. client' = r
      BY <1>1, <1>3, FlushReads, EventualNow DEF Getters
    <2>2. Eventual' = client'
      BY <1>1, EventualNext DEF Getters, WriteHandlers
    <2>3. QED
      BY <2>1, <2>2
  <1>5. itsKeepAlive' => itsKeepAlive /\ produced = itsResponse.length
                            /\ itsResponse.kind = "stream"
    BY <1>1, <1>2
  <1>6. PersistInv'
    BY <1>1, <1>3, <1>4, <1>5 DEF PersistInv, ReaderInv, Getters
  <1>7. PlaceInv'
    BY <1>1 DEF PlaceInv, StreamStages, ChunkStages
  <1>8. itsKeepAlive' /\ itsResponse.hasBody => AtEnd(r)
    BY <1>1, <1>3, <1>5 DEF ReaderInv, PlaceInv, InStream, AtEnd, StreamStages
  <1>9. EndInv'
    BY <1>1, <1>2, <1>4, <1>5, <1>8
       DEF EndInv, AtEnd, StockToHead, StreamedBodiless, ReuseInSync, ReuseAnnounced, Reused,
           CompleteMeansWhole
  <1>10. QED
    BY <1>6, <1>7, <1>9 DEF ReaderInv

\* A failed chunked stream leaves its body without an end.
LEMMA ChunksFailReader ==
    ASSUME TypeInv, TypeInv', StageInv, ReaderInv, chunkedStreamFails
    PROVE  ReaderInv'
  <1>1. /\ pc = "getNextChunkedChunk" /\ pc' = "closed"
        /\ request' = request /\ itsResponse' = itsResponse /\ produced' = produced
        /\ flushPendingHeaders \/ client' = client
    BY DEF chunkedStreamFails, Goto
  <1>2. client' = Eventual \/ client' = client
    BY <1>1, FlushReads, EventualNow DEF Getters
  <1>3. Chunked => Eventual.messages = 0 /\ client.messages = 0
    BY <1>1, Unread DEF ReaderInv, PlaceInv, InChunks, ChunkStages
  <1>4. PersistInv' /\ PlaceInv'
    BY <1>1 DEF PersistInv, PlaceInv, Getters, WriteHandlers, StreamStages, ChunkStages
  <1>5. EndInv'
    BY <1>1, <1>2, <1>3
       DEF EndInv, ReuseInSync, ReuseAnnounced, Reused, CompleteMeansWhole, Chunked
  <1>6. QED
    BY <1>4, <1>5 DEF ReaderInv

LEMMA Pair ==
    ASSUME NEW a \in Token, NEW b \in Token
    PROVE  <<a>> \o <<b>> = <<a, b>>
  <1>0. <<a>> \in Seq(Token) /\ <<b>> \in Seq(Token) /\ <<a, b>> \in Seq(Token)
    OBVIOUS
  <1>1. PICK u \in Seq(Token), v \in Seq(Token), w \in Seq(Token) :
          u = <<a>> /\ v = <<b>> /\ w = <<a, b>>
    BY <1>0, Zenon
  <1>2. Len(u) = 1 /\ u[1] = a /\ Len(v) = 1 /\ v[1] = b
           /\ Len(w) = 2 /\ w[1] = a /\ w[2] = b
    BY <1>1
  <1>3. u \o v \in Seq(Token) /\ Len(u \o v) = 2
    BY <1>2, Concat
  <1>4. (u \o v)[1] = a /\ (u \o v)[2] = b
    <2>1. \A i \in 1 .. Len(u) + Len(v) : (u \o v)[i] = IF i <= Len(u) THEN u[i] ELSE v[i - Len(u)]
      BY ConcatProperties
    <2>2. 1 \in 1 .. 1 + 1 /\ 2 \in 1 .. 1 + 1 /\ 1 <= 1 /\ ~(2 <= 1) /\ 2 - 1 = 1
      OBVIOUS
    <2>3. QED
      BY <1>2, <2>1, <2>2
  <1>5. \A k \in 1 .. Len(w) : (u \o v)[k] = w[k]
    <2>1. \A k \in 1 .. 2 : k = 1 \/ k = 2
      OBVIOUS
    <2>2. QED
      BY <1>2, <1>4, <2>1
  <1>6. u \o v = w
    BY <1>2, <1>3, <1>5, SeqEqual
  <1>7. QED
    BY <1>1, <1>6

\* Two tokens in two pieces, neither of them empty.
LEMMA TwoTokens ==
    ASSUME NEW s \in Seq(Token), NEW t \in Seq(Token), NEW w \in Seq(Token),
           s \o t = w, Len(w) <= 2, Len(s) > 0, Len(t) > 0
    PROVE  Len(w) = 2 /\ s = <<w[1]>> /\ t = <<w[2]>>
  <1>1. Len(s) \in Nat /\ Len(t) \in Nat /\ Len(w) = Len(s) + Len(t)
    BY Concat
  <1>2. Len(s) = 1 /\ Len(t) = 1 /\ Len(w) = 2
    <2>1. \A m, n \in Nat : m > 0 /\ n > 0 /\ m + n <= 2 => m = 1 /\ n = 1 /\ m + n = 2
      OBVIOUS
    <2>2. QED
      BY <1>1, <2>1
  <1>3. w[1] = s[1] /\ w[2] = t[1]
    <2>1. \A i \in 1 .. Len(s) + Len(t) : w[i] = IF i <= Len(s) THEN s[i] ELSE t[i - Len(s)]
      BY ConcatProperties
    <2>2. 1 \in 1 .. 1 + 1 /\ 2 \in 1 .. 1 + 1 /\ 1 <= 1 /\ ~(2 <= 1) /\ 2 - 1 = 1
      OBVIOUS
    <2>3. QED
      BY <1>2, <2>1, <2>2
  <1>4. s = <<s[1]>> /\ t = <<t[1]>>
    BY <1>2
  <1>5. QED
    BY <1>2, <1>3, <1>4

\* The terminating chunk is handed over, behind the header section if that still waits.
LEMMA ChunksEndReader ==
    ASSUME TypeInv, TypeInv', StageInv, PendingInv, ReaderInv, chunkedStreamEnds
    PROVE  ReaderInv'
  <1>1. /\ pc = "getNextChunkedChunk" /\ pc' = "finalizeChunkedReply" /\ itsSentBytes' = 0
        /\ itsResponseString' = itsPendingHeaders \o <<Chunk(0)>>
        /\ produced' = produced /\ client' = client
        /\ request' = request /\ itsResponse' = itsResponse /\ itsKeepAlive' = itsKeepAlive
        /\ itsResponse.kind = "chunked"
    BY DEF chunkedStreamEnds, startWrite, clientVars, StageInv, ChunkStages
  <1>0. /\ pc' = "finalizeChunkedReply"
        /\ pc' # "writeRegularReply" /\ pc' # "sendStockReply"
        /\ pc' \notin StreamStages' /\ pc' \notin ChunkStages'
    BY <1>1 DEF StreamStages, ChunkStages
  <1>2. PICK none \in BOOLEAN, v11 \in BOOLEAN, c \in ClientType, r \in ClientType,
             s \in Seq(Token), b \in Seq(Token) :
          /\ none = None /\ v11 = request.v11 /\ c = client /\ r = Eventual
          /\ s = itsPendingHeaders /\ b = <<Chunk(0)>>
    BY Fields, EventualNow, Tokens, One DEF TypeInv
  <1>3. r = Reader(none, v11, c, s)
    BY <1>1, <1>2, EventualNow DEF Getters
  <1>4. Coming' = s \o b
    BY <1>1, <1>2, EventualNext
  <1>5. Eventual' = Reader(none, v11, r, b)
    <2>1. Eventual' = Reader(none, v11, c, s \o b)
      BY <1>1, <1>2, <1>4, EventualNext DEF WriteHandlers
    <2>2. QED
      BY <1>3, <2>1, ReaderOfConcat
  <1>6. Reader(none, v11, r, b).persistent = r.persistent
    BY <1>2, ReadLastChunk
  <1>7. PersistInv'
    BY <1>1, <1>2, <1>5, <1>6 DEF PersistInv, ReaderInv, Getters
  <1>8. ASSUME itsPendingHeaders = <<>> PROVE PlaceInv'
    <2>1. Coming' = <<Chunk(0)>>
      BY <1>2, <1>4, <1>8
    <2>2. r = c
      BY <1>2, <1>3, <1>8, ReaderOfFew
    <2>3. Chunked => InChunks(client)
      BY <1>1, <1>2, <2>2 DEF ReaderInv, PlaceInv, InChunks, ChunkStages
    <2>4. Chunked' => InChunks(client)'
      BY <1>1, <2>3 DEF InChunks, Chunked
    <2>5. QED
      BY <1>0, <2>1, <2>4, Zenon DEF PlaceInv
  <1>9. ASSUME itsPendingHeaders # <<>> PROVE PlaceInv'
    <2>1. client = Fresh /\ produced = 0
             /\ itsPendingHeaders = <<HeaderSection("chunked", 0, itsKeepAlive)>>
      BY <1>1, <1>9 DEF PendingInv, FirstHead, Getters
    <2>2. Coming' = <<HeaderSection("chunked", 0, itsKeepAlive), Chunk(0)>>
      <3>1. PICK h \in Token, l \in Token :
              h = HeaderSection("chunked", 0, itsKeepAlive) /\ l = Chunk(0)
        BY Tokens DEF TypeInv, TypeOK
      <3>2. <<h>> \o <<l>> = <<h, l>>
        BY Pair
      <3>3. QED
        BY <1>2, <1>4, <2>1, <3>1, <3>2
    <2>3. client' = Fresh /\ produced' = 0
             /\ Coming' = <<HeaderSection("chunked", 0, itsKeepAlive'), Chunk(0)>>
      BY <1>1, <2>1, <2>2
    <2>4. QED
      BY <1>0, <2>3, Zenon DEF PlaceInv
  <1>10. Chunked => client.messages = 0
    BY <1>1, Unread DEF ChunkStages
  <1>11. EndInv'
    BY <1>1, <1>10 DEF EndInv, ReuseInSync, ReuseAnnounced, Reused, CompleteMeansWhole, Chunked
  <1>12. QED
    BY <1>7, <1>8, <1>9, <1>11 DEF ReaderInv

\* The header section of a chunked response, and the first one alone of two tokens.
LEMMA ReadChunkedHead ==
    ASSUME NEW v11 \in BOOLEAN, v11, NEW p \in BOOLEAN
    PROVE  LET e == FeedOf(FALSE, v11, Fresh, HeaderSection("chunked", 0, p))
           IN  /\ e \in ClientType /\ e.mode = "chunks" /\ e.left = 0
               /\ e.body = 0 /\ e.messages = 0
  <1>1. PICK h \in Token : h = HeaderSection("chunked", 0, p)
    BY Tokens
  <1>2. h.type = "head" /\ h.framing = "chunked"
    BY <1>1, Tokens
  <1>3. PICK c \in ClientType : c = Fresh
    BY FreshFields
  <1>4. c.mode = "boundary" /\ c.left = 0 /\ c.body = 0 /\ c.messages = 0
    BY <1>3, FreshFields
  <1>. DEFINE x == FeedOf(FALSE, v11, c, h)
  <1>5. /\ x \in ClientType /\ x.body = c.body
        /\ x.mode = "chunks" /\ x.left = c.left /\ x.messages = c.messages
    BY <1>2, <1>4, FeedHead
  <1>6. QED
    BY <1>1, <1>3, <1>4, <1>5

\* A part of the string has been written: what the client will be has not changed.
LEMMA PartReader ==
    ASSUME TypeInv, TypeInv', StageInv, ReaderInv, writtenPart
    PROVE  ReaderInv'
  <1>1. PICK handler \in WriteHandlers : WrittenPart(handler)
    BY DEF writtenPart
  <1>2. /\ pc \in WriteHandlers /\ pc' = pc /\ produced' = produced
        /\ request' = request /\ itsResponse' = itsResponse /\ itsKeepAlive' = itsKeepAlive
        /\ streamStatus' = streamStatus
    BY <1>1 DEF WrittenPart, ghostVars
  <1>a. PICK none \in BOOLEAN, v11 \in BOOLEAN, p \in BOOLEAN, c \in ClientType,
             t \in Seq(Token), w \in Seq(Token) :
          /\ none = None /\ v11 = request.v11 /\ p = itsKeepAlive /\ c = client
          /\ w = Coming /\ t = Coming' /\ Len(t) > 0
    <2>1. Coming \in Seq(Token) /\ Coming' \in Seq(Token) /\ Len(Coming') > 0
      BY <1>1, PartReads
    <2>2. None \in BOOLEAN /\ request.v11 \in BOOLEAN /\ itsKeepAlive \in BOOLEAN
             /\ client \in ClientType
      BY Fields DEF TypeInv, TypeOK
    <2>3. QED
      BY <2>1, <2>2
  <1>b. PICK s \in Seq(Token) :
          Len(s) > 0 /\ w = s \o t /\ client' = Reader(none, v11, c, s)
    <2>1. PICK part \in Seq(Token) :
             /\ Len(part) > 0 /\ Coming = part \o Coming'
             /\ client' = Reader(None, request.v11, client, part)
      BY <1>1, PartReads
    <2>2. QED
      BY <1>a, <2>1
  <1>c. Reader(none, v11, client', t) = Reader(none, v11, c, w)
    BY <1>1, <1>a, PartReads
  <1>3. /\ none = None /\ v11 = request.v11 /\ p = itsKeepAlive /\ c = client
        /\ w = Coming /\ t = Coming' /\ Len(t) > 0 /\ Len(s) > 0 /\ w = s \o t
        /\ client' = Reader(none, v11, c, s)
        /\ Reader(none, v11, client', t) = Reader(none, v11, c, w)
    BY <1>a, <1>b, <1>c
  <1>4. Eventual' = Eventual
    <2>1. Eventual' = Reader(none, v11, client', t)
      BY <1>2, <1>3, EventualNext
    <2>2. Eventual = Reader(none, v11, c, w)
      BY <1>2, <1>3, EventualNow
    <2>3. QED
      BY <1>3, <2>1, <2>2
  <1>5. PersistInv'
    BY <1>2, <1>4 DEF PersistInv, ReaderInv
  <1>6. ASSUME pc = "finalizeChunkedReply"
        PROVE  /\ t = <<Chunk(0)>> /\ client = Fresh /\ produced = 0
               /\ client' = FeedOf(none, v11, Fresh, HeaderSection("chunked", 0, p))
    <2>1. CASE w = <<Chunk(0)>>
      <3>1. Len(w) = 1
        BY <2>1
      <3>2. QED
        BY <1>3, <3>1, TwoTokens
    <2>2. CASE /\ w = <<HeaderSection("chunked", 0, p), Chunk(0)>>
               /\ client = Fresh /\ produced = 0
      <3>1. PICK h \in Token, l \in Token : h = HeaderSection("chunked", 0, p) /\ l = Chunk(0)
        BY Tokens
      <3>2. Len(w) = 2 /\ w[1] = h /\ w[2] = l
        BY <2>2, <3>1
      <3>3. s = <<h>> /\ t = <<l>>
        BY <1>3, <3>2, TwoTokens
      <3>4. client' = FeedOf(none, v11, c, h)
        <4>1. Reader(none, v11, c, <<h>>) = FeedOf(none, v11, c, h)
          BY ReaderOfFew
        <4>2. QED
          BY <1>3, <3>3, <4>1, Zenon
      <3>5. QED
        BY <1>3, <2>2, <3>1, <3>3, <3>4
    <2>3. QED
      BY <1>3, <1>6, <2>1, <2>2 DEF ReaderInv, PlaceInv
  <1>7. ASSUME pc = "finalizeChunkedReply", Chunked
        PROVE  InChunks(client)'
    <2>1. none = FALSE /\ v11 = TRUE
      BY <1>3, <1>7 DEF Chunked, None
    <2>2. PICK x : x = FeedOf(FALSE, v11, Fresh, HeaderSection("chunked", 0, p))
      OBVIOUS
    <2>3. x.mode = "chunks" /\ x.left = 0 /\ x.body = 0 /\ x.messages = 0
      <3>. DEFINE e == FeedOf(FALSE, v11, Fresh, HeaderSection("chunked", 0, p))
      <3>1. e.mode = "chunks" /\ e.left = 0 /\ e.body = 0 /\ e.messages = 0
        BY <2>1, ReadChunkedHead
      <3>. HIDE DEF e
      <3>2. QED
        BY <2>2, <3>1, Zenon DEF e
    <2>4. client' = x /\ produced' = 0
      BY <1>2, <1>6, <1>7, <2>1, <2>2
    <2>5. QED
      BY <2>3, <2>4 DEF InChunks
  <1>8. PlaceInv'
    <2>1. /\ AtEnd(Eventual)' = AtEnd(Eventual) /\ InStream(Eventual)' = InStream(Eventual)
          /\ InChunks(Eventual)' = InChunks(Eventual) /\ Chunked' = Chunked
      BY <1>2, <1>4 DEF AtEnd, InStream, InChunks, Chunked
    <2>2. pc = "finalizeChunkedReply" =>
             Coming' = <<Chunk(0)>> /\ (Chunked' => InChunks(client)')
      BY <1>3, <1>6, <1>7, <2>1
    <2>3. pc' # "sendStockReply" /\ StreamStages' = StreamStages /\ ChunkStages' = ChunkStages
      BY <1>2 DEF WriteHandlers, StreamStages, ChunkStages
    <2>4. QED
      BY <1>2, <2>1, <2>2, <2>3, Zenon DEF PlaceInv, ReaderInv
  <1>9. Chunked => client'.messages = 0
    <2>1. ASSUME Chunked, pc # "finalizeChunkedReply"
          PROVE  client'.messages = 0
      <3>1. pc = "writeChunkedReply"
        BY <1>2, <2>1 DEF WriteHandlers, Chunked, StageInv, StreamStages
      <3>2. Reader(none, v11, client', t).messages = 0
        <4>1. Eventual.messages = 0
          BY <2>1, <3>1 DEF ReaderInv, PlaceInv, InChunks, ChunkStages
        <4>2. Eventual = Reader(none, v11, c, w)
          BY <1>2, <1>3, EventualNow
        <4>3. QED
          BY <1>3, <4>1, <4>2
      <3>3. PICK d \in ClientType : d = client'
        BY DEF TypeInv
      <3>4. Reader(none, v11, d, t).messages >= d.messages /\ d.messages \in Nat
        BY ReaderKeeps, ClientFields
      <3>5. QED
        BY <3>2, <3>3, <3>4
    <2>2. QED
      BY <1>7, <2>1 DEF InChunks
  <1>10. EndInv'
    BY <1>2, <1>9 DEF EndInv, ReuseInSync, ReuseAnnounced, Reused, CompleteMeansWhole,
                      Chunked, WriteHandlers
  <1>11. QED
    BY <1>5, <1>8, <1>10 DEF ReaderInv

\* A buffered response has been written to its end.
LEMMA RegularWrittenReader ==
    ASSUME TypeInv, TypeInv', StageInv, ReaderInv, writeRegularReply
    PROVE  ReaderInv'
  <1>1. /\ pc = "writeRegularReply" /\ pc' = "finishResponse" /\ WrittenAll
        /\ request' = request /\ itsResponse' = itsResponse /\ produced' = produced
        /\ itsKeepAlive' = itsKeepAlive
        /\ request.head \/ itsResponse.kind = "regular"
    BY DEF writeRegularReply, Goto, ghostVars, StageInv
  <1>2. PICK r : r = Eventual
    OBVIOUS
  <1>3. client' = r /\ Eventual' = r
    <2>1. client' = r
      BY <1>1, <1>2, AllReads, EventualNow DEF WriteHandlers
    <2>2. Eventual' = client'
      BY <1>1, EventualNext DEF Getters, WriteHandlers
    <2>3. QED
      BY <2>1, <2>2
  <1>4. AtEnd(r)
    BY <1>1, <1>2 DEF ReaderInv, PlaceInv, AtEnd
  <1>5. PersistInv'
    BY <1>1, <1>2, <1>3 DEF PersistInv, ReaderInv, WriteHandlers
  <1>6. PlaceInv'
    BY <1>1 DEF PlaceInv, StreamStages, ChunkStages
  <1>7. EndInv'
    BY <1>1, <1>3, <1>4
       DEF EndInv, AtEnd, ReuseInSync, ReuseAnnounced, Reused, CompleteMeansWhole
  <1>8. QED
    BY <1>5, <1>6, <1>7 DEF ReaderInv

\* The terminating chunk has been written: the body is complete, and all of it.
LEMMA LastChunkReader ==
    ASSUME TypeInv, TypeInv', StageInv, LogInv, ReaderInv, finalizeChunkedReply
    PROVE  ReaderInv'
  <1>1. /\ pc = "finalizeChunkedReply" /\ pc' = "finishResponse" /\ WrittenAll
        /\ request' = request /\ itsResponse' = itsResponse /\ produced' = produced
        /\ itsKeepAlive' = itsKeepAlive /\ streamStatus' = streamStatus
        /\ ~request.head /\ itsResponse.kind = "chunked" /\ streamStatus = "EXIT_OK"
        /\ itsKeepAlive => request.v11
    BY DEF finalizeChunkedReply, Goto, ghostVars, StageInv, LogInv
  <1>2. PICK none \in BOOLEAN, v11 \in BOOLEAN, p \in BOOLEAN, c \in ClientType,
             r \in ClientType, w \in Seq(Token) :
          /\ none = None /\ v11 = request.v11 /\ p = itsKeepAlive /\ c = client
          /\ w = Coming /\ r = Eventual
    BY Fields, EventualNow DEF TypeInv, TypeOK
  <1>3. client' = r /\ Eventual' = r /\ r = Reader(none, v11, c, w)
    <2>1. client' = r /\ r = Reader(none, v11, c, w)
      BY <1>1, <1>2, AllReads, EventualNow DEF WriteHandlers
    <2>2. Eventual' = client'
      BY <1>1, EventualNext DEF Getters, WriteHandlers
    <2>3. QED
      BY <2>1, <2>2
  <1>4. ASSUME Chunked PROVE AtEnd(r)
    <2>1. PICK d \in ClientType :
             /\ d.mode = "chunks" /\ d.left = 0 /\ d.body = produced /\ d.messages = 0
             /\ r = Reader(none, v11, d, <<Chunk(0)>>)
      <3>1. CASE w = <<Chunk(0)>> /\ (Chunked => InChunks(client))
        BY <1>2, <1>3, <1>4, <3>1 DEF InChunks
      <3>2. CASE /\ w = <<HeaderSection("chunked", 0, p), Chunk(0)>>
                 /\ client = Fresh /\ produced = 0
        <4>1. PICK h \in Token, l \in Token :
                h = HeaderSection("chunked", 0, p) /\ l = Chunk(0)
          BY Tokens
        <4>2. w = <<h>> \o <<l>>
          BY <3>2, <4>1, Pair
        <4>3. r = Reader(none, v11, FeedOf(none, v11, c, h), <<l>>)
          <5>1. PICK x \in Seq(Token) : x = <<l>>
            BY One
          <5>2. r = Reader(none, v11, c, <<h>> \o x)
            BY <1>3, <4>2, <5>1
          <5>3. Reader(none, v11, c, <<h>> \o x) = Reader(none, v11, FeedOf(none, v11, c, h), x)
            BY ReadFirst
          <5>4. QED
            BY <5>1, <5>2, <5>3, Zenon
        <4>4. none = FALSE /\ v11 = TRUE /\ c = Fresh
          BY <1>2, <1>4, <3>2 DEF Chunked, None
        <4>5. PICK x : x = FeedOf(FALSE, v11, Fresh, HeaderSection("chunked", 0, p))
          OBVIOUS
        <4>6. x \in ClientType /\ x.mode = "chunks" /\ x.left = 0 /\ x.body = 0
                 /\ x.messages = 0
          <5>. DEFINE e == FeedOf(FALSE, v11, Fresh, HeaderSection("chunked", 0, p))
          <5>1. e \in ClientType /\ e.mode = "chunks" /\ e.left = 0 /\ e.body = 0
                   /\ e.messages = 0
            BY <4>4, ReadChunkedHead
          <5>. HIDE DEF e
          <5>2. QED
            BY <4>5, <5>1, Zenon DEF e
        <4>7. r = Reader(none, v11, x, <<Chunk(0)>>)
          BY <4>1, <4>3, <4>4, <4>5
        <4>8. QED
          BY <3>2, <4>6, <4>7
      <3>3. QED
        BY <1>1, <1>2, <3>1, <3>2 DEF ReaderInv, PlaceInv
    <2>2. PICK e : e = Reader(none, v11, d, <<Chunk(0)>>)
      OBVIOUS
    <2>3. e.mode = "boundary" /\ e.messages = d.messages + 1 /\ e.body = d.body
      <3>. DEFINE x == Reader(none, v11, d, <<Chunk(0)>>)
      <3>1. x.mode = "boundary" /\ x.messages = d.messages + 1 /\ x.body = d.body
        BY <2>1, ReadLastChunk
      <3>. HIDE DEF x
      <3>2. QED
        BY <2>2, <3>1, Zenon DEF x
    <2>4. QED
      BY <2>1, <2>2, <2>3 DEF AtEnd
  <1>5. PersistInv'
    BY <1>1, <1>2, <1>3 DEF PersistInv, ReaderInv, WriteHandlers
  <1>6. PlaceInv'
    BY <1>1 DEF PlaceInv, StreamStages, ChunkStages
  <1>7. itsKeepAlive /\ itsResponse.hasBody => Chunked
    BY <1>1 DEF Chunked
  <1>8. EndInv'
    BY <1>1, <1>3, <1>4, <1>7
       DEF EndInv, AtEnd, StreamedBodiless, ReuseInSync, ReuseAnnounced, Reused,
           CompleteMeansWhole, Chunked
  <1>9. QED
    BY <1>5, <1>6, <1>8 DEF ReaderInv

\* The connection ends where the client is, or nothing of the response changes.
LEMMA EndReader ==
    ASSUME ReaderInv, pc' = "closed", client' = client, request' = request,
           itsResponse' = itsResponse, produced' = produced,
           streamStatus' = streamStatus \/ itsResponse.kind = "stream"
    PROVE  ReaderInv'
  <1>1. PersistInv' /\ PlaceInv'
    BY DEF PersistInv, PlaceInv, Getters, WriteHandlers, StreamStages, ChunkStages
  <1>2. EndInv'
    BY DEF ReaderInv, EndInv, ReuseInSync, ReuseAnnounced, Reused, CompleteMeansWhole
  <1>3. QED
    BY <1>1, <1>2 DEF ReaderInv

LEMMA SameReader ==
    ASSUME ReaderInv, pc' = pc, client' = client, request' = request,
           itsResponse' = itsResponse, produced' = produced, streamStatus' = streamStatus,
           itsKeepAlive' = itsKeepAlive, itsResponseString' = itsResponseString,
           itsSentBytes' = itsSentBytes, itsPendingHeaders' = itsPendingHeaders
    PROVE  ReaderInv'
  <1>1. Coming' = Coming /\ Outstanding' = Outstanding /\ None' = None
    BY DEF Coming, Outstanding, None
  <1>2. Eventual' = Eventual
    BY <1>1 DEF Eventual
  <1>3. /\ AtEnd(Eventual)' = AtEnd(Eventual) /\ InStream(Eventual)' = InStream(Eventual)
        /\ InChunks(Eventual)' = InChunks(Eventual) /\ Chunked' = Chunked
        /\ InChunks(client)' = InChunks(client)
    BY <1>2 DEF AtEnd, InStream, InChunks, Chunked
  <1>4. PersistInv'
    BY <1>2 DEF ReaderInv, PersistInv
  <1>5. PlaceInv'
    BY <1>1, <1>3, Zenon DEF ReaderInv, PlaceInv, StreamStages, ChunkStages
  <1>6. EndInv'
    BY DEF ReaderInv, EndInv, ReuseInSync, ReuseAnnounced, Reused, CompleteMeansWhole,
           StockToHead, StreamedBodiless
  <1>7. QED
    BY <1>4, <1>5, <1>6 DEF ReaderInv

\* The connection is reused: the client is where finishResponse takes it to be.
LEMMA ReuseReader ==
    ASSUME TypeInv, ReaderInv, finishResponse
    PROVE  ReaderInv'
  <1>1. /\ pc = "finishResponse" /\ client' = client /\ request' = request
        /\ itsResponse' = itsResponse /\ produced' = produced /\ streamStatus' = streamStatus
        /\ (itsKeepAlive /\ pc' = "idle") \/ pc' = "closed"
    BY DEF finishResponse, clientVars, ghostVars
  <1>2. CASE pc' = "closed"
    BY <1>1, <1>2, EndReader
  <1>3. CASE itsKeepAlive /\ pc' = "idle"
    <2>1. Eventual = client
      BY <1>1, EventualNow DEF Getters, WriteHandlers
    <2>2. client.persistent
      BY <1>1, <1>3, <2>1 DEF ReaderInv, PersistInv
    <2>3. PersistInv' /\ PlaceInv'
      BY <1>3 DEF PersistInv, PlaceInv, Getters, WriteHandlers, StreamStages, ChunkStages
    <2>4. EndInv'
      BY <1>1, <1>3, <2>2
         DEF ReaderInv, EndInv, ReuseInSync, ReuseAnnounced, CompleteMeansWhole, StockToHead,
             StreamedBodiless
    <2>5. QED
      BY <2>3, <2>4 DEF ReaderInv
  <1>4. QED
    BY <1>1, <1>2, <1>3

\* A reply the server writes itself.
LEMMA StockReader ==
    ASSUME TypeInv, TypeInv', StageInv, ReaderInv, sendStockReply
    PROVE  ReaderInv'
  <1>1. /\ pc = "sendStockReply" /\ request' = request /\ itsResponse' = itsResponse
        /\ produced' = produced /\ streamStatus' = streamStatus
    BY DEF sendStockReply, ghostVars
  <1>2. CASE pc' = "closed" /\ client' = client
    BY <1>1, <1>2, EndReader
  <1>3. CASE /\ write(<<HeaderSection("length", StockLength, itsKeepAlive)>>
                         \o Content(StockLength))
             /\ pc' = IF itsKeepAlive THEN "finishResponse" ELSE "closed"
             /\ itsKeepAlive' = itsKeepAlive
    <2>1. PICK none \in BOOLEAN, v11 \in BOOLEAN, p \in BOOLEAN, c \in ClientType :
            none = None /\ v11 = request.v11 /\ p = itsKeepAlive /\ c = client
      BY Fields DEF TypeInv, TypeOK
    <2>2. PICK e : e = Reader(none, v11, c, <<HeaderSection("length", StockLength, p)>>
                                               \o Content(StockLength))
      OBVIOUS
    <2>3. client' = e
      <3>1. client' = Read(<<HeaderSection("length", StockLength, itsKeepAlive)>>
                              \o Content(StockLength))
        BY <1>3 DEF write
      <3>2. QED
        BY <2>1, <2>2, <3>1, ReadIsReader, Zenon
    <2>4. CASE ~itsKeepAlive
      <3>1. Chunked => e.messages = 0
        <4>1. SUFFICES ASSUME Chunked PROVE e.messages = 0
          OBVIOUS
        <4>2. c.mode = "chunks" /\ c.left = 0 /\ c.messages = 0
          BY <1>1, <2>1, <4>1 DEF ReaderInv, PlaceInv, InChunks
        <4>. DEFINE x == Reader(none, v11, c, <<HeaderSection("length", StockLength, p)>>
                                                 \o Content(StockLength))
        <4>3. x.messages = c.messages
          BY <4>2, ReadStockInChunks
        <4>4. QED
          BY <2>2, <4>2, <4>3
      <3>2. PersistInv' /\ PlaceInv'
        BY <1>3, <2>4 DEF PersistInv, PlaceInv, Getters, WriteHandlers, StreamStages,
                          ChunkStages
      <3>3. EndInv'
        BY <1>1, <1>3, <2>3, <2>4, <3>1
           DEF EndInv, ReuseInSync, ReuseAnnounced, Reused, CompleteMeansWhole, Chunked
      <3>4. QED
        BY <3>2, <3>3 DEF ReaderInv
    <2>5. CASE itsKeepAlive
      <3>1. c = Fresh /\ itsResponse = Unset /\ pc' = "finishResponse" /\ p
        BY <1>1, <1>3, <2>1, <2>5 DEF StageInv
      <3>2. itsResponse.kind = "stock" /\ itsResponse.hasBody
        BY <3>1 DEF Unset
      <3>3. none = request.head
        BY <2>1, <3>2, Fields DEF None
      <3>4. e.persistent = p /\ (~none => e.mode = "boundary" /\ e.messages = 1)
        <4>. DEFINE x == Reader(none, v11, Fresh, <<HeaderSection("length", StockLength, p)>>
                                                     \o Content(StockLength))
        <4>1. /\ x.persistent = p
              /\ ~none => x.mode = "boundary" /\ x.messages = 1
          BY Tokens, ReadHeadContent
        <4>2. e = x
          BY <2>2, <3>1
        <4>. HIDE DEF x
        <4>3. QED
          BY <4>1, <4>2
      <3>5. Eventual' = e
        BY <1>1, <2>3, <3>1, EventualNext DEF Getters, WriteHandlers
      <3>6. PersistInv'
        BY <3>1, <3>4, <3>5 DEF PersistInv
      <3>7. PlaceInv'
        BY <3>1 DEF PlaceInv, StreamStages, ChunkStages
      <3>8. EndInv'
        BY <1>1, <2>3, <3>1, <3>2, <3>3, <3>4
           DEF EndInv, StockToHead, ReuseInSync, ReuseAnnounced, Reused, CompleteMeansWhole
      <3>9. QED
        BY <3>6, <3>7, <3>8 DEF ReaderInv
    <2>6. QED
      BY <2>4, <2>5
  <1>4. QED
    BY <1>2, <1>3 DEF sendStockReply

\* Before the first write the client has read nothing.
LEMMA BeforeReader ==
    ASSUME StageInv, ReaderInv,
           handleParsedRequest \/ handleCompletedRead \/ replyWithStock \/ startGatewayReply
    PROVE  ReaderInv'
  <1>1. CASE handleParsedRequest \/ handleCompletedRead
    <2>1. client' = Fresh /\ pc' \in {"parsed", "start"}
      BY <1>1 DEF handleParsedRequest, handleCompletedRead, Goto, clientVars, StageInv
    <2>2. PersistInv' /\ PlaceInv'
      BY <2>1 DEF PersistInv, PlaceInv, Getters, WriteHandlers, StreamStages, ChunkStages
    <2>3. EndInv'
      BY <2>1, NothingRead DEF EndInv, ReuseInSync, ReuseAnnounced, Reused
    <2>4. QED
      BY <2>2, <2>3 DEF ReaderInv
  <1>2. CASE replyWithStock
    <2>1. client' = Fresh /\ pc' = "sendStockReply" /\ itsResponse' = Unset
      BY <1>2 DEF replyWithStock, Goto, clientVars, StageInv
    <2>2. PersistInv'
      BY <2>1 DEF PersistInv, Getters, WriteHandlers
    <2>3. PlaceInv'
      BY <2>1 DEF PlaceInv, Chunked, Unset, StreamStages, ChunkStages
    <2>4. EndInv'
      BY <2>1, NothingRead DEF EndInv, ReuseInSync, ReuseAnnounced, Reused
    <2>5. QED
      BY <2>2, <2>3, <2>4 DEF ReaderInv
  <1>3. CASE startGatewayReply
    <2>1. /\ client' = Fresh /\ pc' = "getNextChunk" /\ itsKeepAlive' = FALSE
          /\ itsResponse'.kind = "gateway"
      BY <1>3 DEF startGatewayReply, Goto, clientVars, StageInv
    <2>2. PersistInv' /\ PlaceInv'
      BY <2>1 DEF PersistInv, PlaceInv, StreamStages, ChunkStages
    <2>3. EndInv'
      BY <2>1, NothingRead DEF EndInv, ReuseInSync, ReuseAnnounced, Reused
    <2>4. QED
      BY <2>2, <2>3 DEF ReaderInv
  <1>4. QED
    BY <1>1, <1>2, <1>3

LEMMA ReaderInit == Init => ReaderInv
  <1>1. SUFFICES ASSUME Init PROVE ReaderInv
    OBVIOUS
  <1>2. pc = "idle" /\ itsResponse.kind = "stock" /\ ~request.persistent
    BY <1>1 DEF Init, Unset, NoRequest
  <1>3. PersistInv /\ PlaceInv
    BY <1>2 DEF PersistInv, PlaceInv, Getters, WriteHandlers, StreamStages, ChunkStages
  <1>4. EndInv
    BY <1>2 DEF EndInv, ReuseInSync, ReuseAnnounced, Reused, CompleteMeansWhole
  <1>5. QED
    BY <1>3, <1>4 DEF ReaderInv

LEMMA ReaderStep ==
    ASSUME TypeInv, TypeInv', StageInv, PendingInv, LogInv, ReaderInv, [Next]_vars
    PROVE  ReaderInv'
  <1>1. CASE ClientClose \/ Terminated \/ UNCHANGED vars
    <2>1. /\ pc' = pc /\ client' = client /\ request' = request
          /\ itsResponse' = itsResponse /\ produced' = produced
          /\ streamStatus' = streamStatus /\ itsKeepAlive' = itsKeepAlive
          /\ itsResponseString' = itsResponseString /\ itsSentBytes' = itsSentBytes
          /\ itsPendingHeaders' = itsPendingHeaders
      BY <1>1 DEF ClientClose, Terminated, vars, writeVars, clientVars, ghostVars
    <2>2. QED
      BY <2>1, SameReader
  <1>2. CASE closeIdle \/ replyAborted \/ flushFails \/ getterAborted \/ writeError
                \/ streamEndsUnsent
    <2>1. /\ pc' = "closed" /\ client' = client /\ request' = request
          /\ itsResponse' = itsResponse /\ produced' = produced
          /\ streamStatus' = streamStatus \/ itsResponse.kind = "stream"
      BY <1>2 DEF streamEndsUnsent, PendingInv, StageInv, StreamStages, Getters,
                   closeIdle, replyAborted, flushFails, getterAborted, writeError, Goto,
                  clientVars, ghostVars
    <2>2. QED
      BY <2>1, EndReader
  <1>3. CASE handleParsedRequest \/ handleCompletedRead \/ replyWithStock
                \/ startGatewayReply
    BY <1>3, BeforeReader
  <1>4. CASE sendStockReply
    BY <1>4, StockReader
  <1>5. CASE finishResponse
    BY <1>5, ReuseReader
  <1>6. CASE startRegularReply
    BY <1>6, RegularReader
  <1>7. CASE startChunkedReply \/ startStreamReply
    BY <1>7, WaitingReader
  <1>8. CASE getNextChunk
    BY <1>8, StreamReader
  <1>9. CASE getNextChunkedChunk
    BY <1>9, ChunkReader
  <1>10. CASE streamerNotReady
    BY <1>10, NotReadyReader
  <1>11. CASE streamEnds
    BY <1>11, StreamEndReader
  <1>12. CASE chunkedStreamFails
    BY <1>12, ChunksFailReader
  <1>13. CASE chunkedStreamEnds
    BY <1>13, ChunksEndReader
  <1>14. CASE writtenPart
    BY <1>14, PartReader
  <1>15. CASE writeRegularReply
    BY <1>15, RegularWrittenReader
  <1>16. CASE writeStreamReply \/ writeChunkedReply
    BY <1>16, WrittenReader
  <1>17. CASE finalizeChunkedReply
    BY <1>17, LastChunkReader
  <1>18. QED
    BY <1>1, <1>2, <1>3, <1>4, <1>5, <1>6, <1>7, <1>8, <1>9, <1>10, <1>11, <1>12, <1>13,
       <1>14, <1>15, <1>16, <1>17, Zenon DEF Next

-----------------------------------------------------------------------------
(* The theorems.                                                           *)

ReplyInv == TypeInv /\ StageInv /\ PendingInv /\ LogInv /\ ReaderInv

LEMMA InvInit == Init => ReplyInv
  <1>1. SUFFICES ASSUME Init PROVE ReplyInv
    OBVIOUS
  <1>2. TypeInv /\ ReaderInv
    BY <1>1, TypeInit, ReaderInit
  <1>3. StageInv
    BY <1>1 DEF Init, StageInv, StreamStages, ChunkStages
  <1>4. PendingInv
    BY <1>1 DEF Init, PendingInv, Getters
  <1>5. LogInv
    <2>1. pc = "idle" /\ ~itsBackendNotified /\ streamStatus = "OK"
             /\ ~itsResponse.backend
      BY <1>1 DEF Init, Unset
    <2>2. QED
      BY <2>1 DEF LogInv, StreamsAreLogged, BackendOutcomeReported
  <1>6. QED
    BY <1>2, <1>3, <1>4, <1>5 DEF ReplyInv

LEMMA InvStep == ReplyInv /\ [Next]_vars => ReplyInv'
  BY TypeStep, StageStep, PendingStep, LogStep, ReaderStep DEF ReplyInv

\* What each handler of the reply paths may assume, and where the client is, however the
\* writes are split: inductive, and it implies the properties below.
THEOREM Invariance == Spec => []ReplyInv
  <1>1. Init => ReplyInv
    BY InvInit
  <1>2. ReplyInv /\ [Next]_vars => ReplyInv'
    BY InvStep
  <1>3. QED
    BY <1>1, <1>2, PTL DEF Spec

\* The state of the reply paths keeps its type: nothing is counted past the length of a
\* string or written past its end, at most one header section waits, and a response has
\* at most one log entry and one report.
THEOREM TypeCorrectness == Spec => []TypeOK
  <1>1. ReplyInv => TypeOK
    BY DEF ReplyInv, TypeInv
  <1>2. QED
    BY <1>1, Invariance, PTL

\* After finishResponse, server and client agree from the bytes alone on where the next
\* response begins and on whether there is one, for every content length, every way
\* async_write_some splits the writes and every answer of a plugin.
THEOREM ReuseAgreed == Spec => []ReuseIsAgreed
  <1>1. ReplyInv => ReuseIsAgreed
    BY DEF ReplyInv, TypeInv, ReaderInv, EndInv, ReuseIsAgreed
  <1>2. QED
    BY <1>1, Invariance, PTL

\* A chunked body that a client finds complete is all the streamer gave, and the streamer
\* ended well: a failed stream, a failed write and a full queue stay visible.  Of bodies
\* framed by a Content-Length nothing is claimed, AbortedBodyIsUnframed is refuted.
THEOREM TruncationIsVisible == Spec => []CompleteMeansWhole
  <1>1. ReplyInv => CompleteMeansWhole
    BY DEF ReplyInv, ReaderInv, EndInv
  <1>2. QED
    BY <1>1, Invariance, PTL

\* A streamed response that was pulled to its end has one access-log entry, with the
\* size of what the streamer gave; all but the SilentStream, whose header section
\* getNextChunk could not write.
THEOREM StreamsLogged == Spec => []StreamsAreLogged
  <1>1. ReplyInv => StreamsAreLogged
    BY DEF ReplyInv, LogInv
  <1>2. QED
    BY <1>1, Invariance, PTL

\* The health hooks hear the real end of every stream but the SilentStream, and hear of
\* a backend once for every response after which finishResponse reuses the connection.
THEOREM BackendReported == Spec => []BackendOutcomeReported
  <1>1. ReplyInv => BackendOutcomeReported
    BY DEF ReplyInv, LogInv
  <1>2. QED
    BY <1>1, Invariance, PTL
=============================================================================
