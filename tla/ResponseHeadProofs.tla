-------------------------- MODULE ResponseHeadProofs --------------------------
(***************************************************************************)
(* What the header sections say holds for every set of requests, answers,  *)
(* codings and stale directives, every limit of requests on a connection   *)
(* and every number of responses kept.                                     *)
(*                                                                         *)
(* A response is one record through all the steps that add to it, so the   *)
(* proof follows it: what each step keeps, and what it adds.  What the     *)
(* properties say of a response sent needs four facts about what came      *)
(* before: how the request was negotiated, what was promised on the        *)
(* connection, that the client holds what it names, and that the stores    *)
(* hold only what a server of this kind has sent.                          *)
(***************************************************************************)
EXTENDS ResponseHead, FiniteSetTheorems, SequenceTheorems, WellFoundedInduction, TLAPS

\* The strings; the prover does not know of a literal that it is one.
Text == STRING \cup {"", "gzip", "close", "keep-alive", "Accept-Encoding"} \cup Stale

Tags == [data : Nat, codings : Seq(Text)]

Versions == {"1.0", "1.1"}

Response ==
    [status : {"ok", "no_content", "not_modified", "bad_request", "service_unavailable"},
     kind : Kinds, version : Versions, etag : SUBSET Tags, contentEncoding : Text,
     body : Tags, size : Sizes, compressible : BOOLEAN, vary : Seq(Text),
     cacheControl : Seq(Text), connection : Seq(Text), keepAlive : SUBSET Nat,
     contentLength : SUBSET (Sizes \X Tags), chunked : BOOLEAN]

TypeInv ==
    /\ TypeOK
    /\ itsResponse \in Response /\ answer \in Response /\ cached \subseteq Response
    /\ store \subseteq [etag : SUBSET Tags, contentEncoding : Text, body : Tags]
    /\ data \in Nat

\* The tag is the name of the bytes, which are the data or the data in the coding named.
Named(r) == r.etag = {r.body}
Decodes(r) ==
    r.body.codings = IF r.contentEncoding = "" THEN <<>> ELSE <<r.contentEncoding>>
Single(r) == IsInjective(r.vary) /\ IsInjective(r.cacheControl)

\* Why a request has lost its connection already when it was read.
Refused ==
    \/ ~itsKeepAliveEnabled
    \/ shutdownRequested
    \/ MaxKeepAliveRequests # 0 /\ itsRequestCount >= MaxKeepAliveRequests
    \/ hasHeaderToken(Elements(request.headers, "Connection"), "close")
    \/ itsResponseVersion = "1.0" /\ ~asksToKeep

NegotiationInv ==
    /\ pc \in {"handled", "sent"} => itsResponseVersion = negotiateVersion(request.version)
    /\ pc = "parsed" => request.head \in BOOLEAN
    /\ pc = "handled" =>
          /\ itsHeadRequest = request.head /\ OneHopOnly
          /\ itsKeepAlive =>
                MaxKeepAliveRequests = 0 \/ itsRequestCount < MaxKeepAliveRequests
          /\ ~itsKeepAlive => Refused

\* What the client was told, counted in the requests since.
PromiseInv ==
    LET Within(n, left) == MaxKeepAliveRequests # 0 /\ n <= left
        Left == MaxKeepAliveRequests - itsRequestCount
    IN  /\ pc \in {"idle", "parsed"} => \A n \in promised : Within(n, Left)
        /\ pc \in {"handled", "sent"} => \A n \in promised : Within(n, Left + 1)
        /\ pc = "sent" => \A n \in itsResponse.keepAlive : Within(n, Left)

\* Where keep-alive is disabled nothing is kept and nobody is told otherwise.
EnabledInv ==
    itsKeepAlive \/ itsResponse.keepAlive # {} \/ promised # {} => itsKeepAliveEnabled

\* A client names only what it holds.
HeldInv == \A t \in request.ifNoneMatch : \E s \in store : s.etag = {t} /\ s.body = t

StoreInv ==
    /\ \A s \in store : Named(s) /\ Decodes(s)
    /\ \A c \in cached :
          Named(c) /\ Decodes(c) /\ Single(c) /\ c.status = "ok" /\ ~c.chunked

SentInv ==
    /\ pc = "sent" =>
          /\ itsResponse.status = "ok" => Named(itsResponse) /\ Decodes(itsResponse)
          /\ Single(itsResponse)
    /\ AgreeOnReuse /\ PromiseIsKept /\ NotModifiedNamesHeld /\ HeadDescribesGet

HeadInv == /\ TypeInv /\ NegotiationInv /\ PromiseInv /\ EnabledInv
           /\ HeldInv /\ StoreInv /\ SentInv

-----------------------------------------------------------------------------
(* The steps that add to a response.                                       *)

\* What no header of the server says anything about.
SameContent(s, r) ==
    /\ s.status = r.status /\ s.kind = r.kind /\ s.etag = r.etag
    /\ s.contentEncoding = r.contentEncoding /\ s.body = r.body /\ s.size = r.size
    /\ s.compressible = r.compressible /\ s.chunked = r.chunked


\* A new element at the end leaves the elements of a list distinct.
LEMMA AppendDistinct ==
    ASSUME NEW s \in Seq(Text), NEW e \in Text, IsInjective(s), e \notin ToSet(s)
    PROVE  IsInjective(Append(s, e))
  <1>. DEFINE se == Append(s, e)
  <1>1. /\ Len(s) \in Nat /\ DOMAIN se = 1 .. Len(s) + 1 /\ DOMAIN s = 1 .. Len(s)
        /\ \A i \in 1 .. Len(s) : se[i] = s[i]
        /\ se[Len(s) + 1] = e
    OBVIOUS
  <1>2. \A i \in 1 .. Len(s) : s[i] # e
    BY DEF ToSet
  <1>. HIDE DEF se
  <1>3. \A i \in 1 .. Len(s) + 1 : i \in 1 .. Len(s) \/ i = Len(s) + 1
    BY <1>1
  <1>4. ASSUME NEW a \in 1 .. Len(s) + 1, NEW b \in 1 .. Len(s) + 1, se[a] = se[b]
        PROVE  a = b
    <2>1. CASE a \in 1 .. Len(s) /\ b \in 1 .. Len(s)
      BY <1>1, <1>4, <2>1, Zenon DEF IsInjective
    <2>2. CASE a = Len(s) + 1 \/ b = Len(s) + 1
      BY <1>1, <1>2, <1>3, <1>4, <2>2, Zenon
    <2>3. QED
      BY <1>3, <2>1, <2>2, Zenon
  <1>5. IsInjective(se)
    BY <1>1, <1>4, Zenon DEF IsInjective
  <1>6. QED
    BY <1>5, Zenon DEF se

\* Two lists of distinct elements, none of them in both, have distinct elements together.
LEMMA ConcatDistinct ==
    ASSUME NEW s \in Seq(Text), NEW t \in Seq(Text), IsInjective(s), IsInjective(t),
           ToSet(s) \cap ToSet(t) = {}
    PROVE  IsInjective(s \o t)
  <1>. DEFINE st == s \o t
  <1>1. /\ st \in Seq(Text) /\ Len(st) = Len(s) + Len(t)
        /\ \A i \in 1 .. Len(s) + Len(t) :
               st[i] = IF i <= Len(s) THEN s[i] ELSE t[i - Len(s)]
    BY ConcatProperties
  <1>. HIDE DEF st
  <1>2. Len(s) \in Nat /\ Len(t) \in Nat /\ DOMAIN st = 1 .. Len(s) + Len(t)
    BY <1>1
  <1>3. SUFFICES ASSUME NEW a \in 1 .. Len(s) + Len(t), NEW b \in 1 .. Len(s) + Len(t),
                        st[a] = st[b]
                 PROVE  a = b
    BY <1>2 DEF IsInjective, st
  <1>4. \A i \in 1 .. Len(s), j \in 1 .. Len(t) : s[i] # t[j]
    BY DEF ToSet
  <1>5. CASE a <= Len(s) /\ b <= Len(s)
    BY <1>1, <1>2, <1>3, <1>5 DEF IsInjective
  <1>. DEFINE m == Len(s)
              n == Len(t)
  <1>6. \A i \in 1 .. m + n : i > m => i - m \in 1 .. n
    BY <1>2
  <1>7. CASE a <= m /\ b > m
    <2>1. a \in 1 .. m /\ b - m \in 1 .. n /\ ~(b <= m)
      BY <1>2, <1>6, <1>7
    <2>2. st[a] = s[a] /\ st[b] = t[b - m]
      BY <1>1, <1>7, <2>1, Zenon
    <2>3. QED
      BY <1>3, <1>4, <2>1, <2>2, Zenon
  <1>8. CASE a > m /\ b <= m
    <2>1. b \in 1 .. m /\ a - m \in 1 .. n /\ ~(a <= m)
      BY <1>2, <1>6, <1>8
    <2>2. st[b] = s[b] /\ st[a] = t[a - m]
      BY <1>1, <1>8, <2>1, Zenon
    <2>3. QED
      BY <1>3, <1>4, <2>1, <2>2, Zenon
  <1>9. CASE a > m /\ b > m
    <2>1. a - m \in 1 .. n /\ b - m \in 1 .. n /\ ~(a <= m) /\ ~(b <= m)
      BY <1>2, <1>6, <1>9
    <2>2. st[a] = t[a - m] /\ st[b] = t[b - m]
      BY <1>1, <2>1, Zenon
    <2>3. a - m = b - m
      <3>1. DOMAIN t = 1 .. n
        OBVIOUS
      <3>2. QED
        BY <1>3, <2>1, <2>2, <3>1, Zenon DEF IsInjective
    <2>4. QED
      BY <1>2, <2>3
  <1>10. QED
    BY <1>2, <1>5, <1>7, <1>8, <1>9

\* setVary changes Vary only, and doubles nothing in it.
LEMMA VaryAdded ==
    ASSUME NEW r \in Response
    PROVE  /\ setVary(r) \in Response /\ SameContent(setVary(r), r)
           /\ setVary(r).cacheControl = r.cacheControl
           /\ setVary(r).connection = r.connection
           /\ Single(r) => Single(setVary(r))
  <1>1. CASE hasHeaderToken(r.vary, "accept-encoding")
    BY <1>1 DEF setVary, SameContent
  <1>2. CASE ~hasHeaderToken(r.vary, "accept-encoding")
    <2>. DEFINE s == [r EXCEPT !.vary = Append(@, "Accept-Encoding")]
    <2>1. setVary(r) = s
      BY <1>2, Zenon DEF setVary
    <2>2. r.vary \in Seq(Text) /\ Append(r.vary, "Accept-Encoding") \in Seq(Text)
      <3>1. r.vary \in Seq(Text) /\ "Accept-Encoding" \in Text
        BY Zenon DEF Response, Text
      <3>2. QED
        BY <3>1, AppendProperties, Zenon
    <2>3. s \in Response
      BY <2>2, Zenon DEF Response
    <2>4. /\ SameContent(s, r) /\ s.cacheControl = r.cacheControl
          /\ s.connection = r.connection /\ s.vary = Append(r.vary, "Accept-Encoding")
      BY DEF SameContent, Response
    <2>5. "Accept-Encoding" \notin ToSet(r.vary)
      BY <1>2, HeadAssumption, Zenon DEF hasHeaderToken
    <2>6. Single(r) => Single(s)
      <3>1. "Accept-Encoding" \in Text
        BY Zenon DEF Text
      <3>2. \A v \in Seq(Text), e \in Text :
               IsInjective(v) /\ e \notin ToSet(v) => IsInjective(Append(v, e))
        BY AppendDistinct, Zenon
      <3>3. QED
        BY <2>2, <2>4, <2>5, <3>1, <3>2, Zenon DEF Single
    <2>7. QED
      BY <2>1, <2>3, <2>4, <2>6, Zenon
  <1>3. QED
    BY <1>1, <1>2

\* appendStaleDirectives changes Cache-Control only, and doubles nothing in it.
LEMMA StaleAdded ==
    ASSUME NEW r \in Response
    PROVE  /\ appendStaleDirectives(r) \in Response
           /\ SameContent(appendStaleDirectives(r), r)
           /\ appendStaleDirectives(r).vary = r.vary
           /\ appendStaleDirectives(r).version = r.version
           /\ appendStaleDirectives(r).connection = r.connection
           /\ appendStaleDirectives(r).keepAlive = r.keepAlive
           /\ Single(r) => Single(appendStaleDirectives(r))
  <1>. DEFINE bare == "max-age" \notin ToSet(r.cacheControl)
                         \/ ToSet(r.cacheControl) \cap Stale # {}
  <1>1. CASE bare
    BY <1>1 DEF appendStaleDirectives, SameContent
  <1>2. CASE ~bare
    <2>. DEFINE s == [r EXCEPT !.cacheControl = @ \o StaleDirectives]
    <2>1. appendStaleDirectives(r) = s
      BY <1>2, Zenon DEF appendStaleDirectives
    <2>2. /\ r.cacheControl \in Seq(Text) /\ StaleDirectives \in Seq(Text)
          /\ ToSet(StaleDirectives) \subseteq Stale /\ IsInjective(StaleDirectives)
      <3>1. r.cacheControl \in Seq(Text)
        BY DEF Response
      <3>2. StaleDirectives \in Seq(Stale) /\ IsInjective(StaleDirectives)
        BY HeadAssumption, Zenon
      <3>3. Stale \subseteq Text
        BY DEF Text
      <3>4. StaleDirectives \in Seq(Text)
        BY <3>2, <3>3, SeqMonotonic
      <3>5. ToSet(StaleDirectives) \subseteq Stale
        BY <3>2 DEF ToSet
      <3>6. QED
        BY <3>1, <3>2, <3>4, <3>5
    <2>3. r.cacheControl \o StaleDirectives \in Seq(Text)
      BY <2>2, ConcatProperties, Zenon
    <2>4. s \in Response
      BY <2>3, Zenon DEF Response
    <2>5. /\ SameContent(s, r) /\ s.vary = r.vary /\ s.version = r.version
          /\ s.connection = r.connection /\ s.keepAlive = r.keepAlive
          /\ s.cacheControl = r.cacheControl \o StaleDirectives
      BY DEF SameContent, Response
    <2>6. ToSet(r.cacheControl) \cap ToSet(StaleDirectives) = {}
      BY <1>2, <2>2
    <2>7. Single(r) => Single(s)
      BY <2>2, <2>5, <2>6, ConcatDistinct DEF Single
    <2>8. QED
      BY <2>1, <2>4, <2>5, <2>7, Zenon
  <1>3. QED
    BY <1>1, <1>2

\* The least of a set of positions exists.
Less == OpToRel(<, Nat)

LEMMA LeastNumber ==
    ASSUME NEW S \in SUBSET Nat, S # {}
    PROVE  \E m \in S : \A n \in S : m <= n
  <1>1. IsWellFoundedOn(Less, Nat)
    BY NatLessThanWellFounded DEF Less
  <1>2. \E m \in S : \A n \in S : ~(<<n, m>> \in Less)
    BY <1>1, WFMin
  <1>3. \A m, n \in Nat : ~(<<n, m>> \in Less) => m <= n
    BY DEF Less, OpToRel
  <1>4. QED
    BY <1>2, <1>3, Zenon

\* Spine offers one of the codings, or none.
LEMMA CodingSelected ==
    ASSUME NEW req, NEW r \in Response
    PROVE  select_content_encoding(req, r) \in Text
  <1>1. selectContentEncoding(req) \in Text
    <2>. DEFINE Usable == {i \in 1 .. Len(Codings) : Codings[i] \in req.accept}
                first == CHOOSE i \in Usable : \A j \in Usable : i <= j
    <2>1. Codings \in Seq(STRING) /\ Usable \in SUBSET Nat
      BY HeadAssumption
    <2>2. CASE Usable = {}
      BY <2>2, Zenon DEF selectContentEncoding, Text
    <2>3. CASE Usable # {}
      <3>1. \E i \in Usable : \A j \in Usable : i <= j
        BY <2>1, <2>3, LeastNumber, Zenon
      <3>2. first \in Usable
        BY <3>1, Zenon
      <3>. HIDE DEF first
      <3>3. first \in 1 .. Len(Codings)
        BY <3>2
      <3>4. Codings[first] \in STRING
        BY <2>1, <3>3, ElementOfSeq, Zenon
      <3>5. selectContentEncoding(req) = Codings[first]
        BY <2>3, Zenon DEF selectContentEncoding, first
      <3>6. QED
        BY <3>4, <3>5, Zenon DEF Text
    <2>4. QED
      BY <2>2, <2>3
  <1>2. /\ select_content_encoding(req, r) \in {"", "gzip", selectContentEncoding(req)}
    BY Zenon DEF select_content_encoding
  <1>3. QED
    BY <1>1, <1>2, Zenon DEF Text

\* A coding applied is named in the entity-tag and in Content-Encoding, and none is applied
\* to bytes that are coded; the other headers stay.
LEMMA Encoded ==
    ASSUME NEW req, NEW r \in Response
    PROVE  LET s == encode(req, r)
           IN  /\ s \in Response
               /\ s.status = r.status /\ s.kind = r.kind /\ s.size = r.size
               /\ s.vary = r.vary /\ s.cacheControl = r.cacheControl
               /\ s.version = r.version /\ s.connection = r.connection
               /\ s.keepAlive = r.keepAlive /\ s.chunked = r.chunked
               /\ r.kind # "regular" => s = r
               /\ Named(r) => Named(s)
               /\ Decodes(r) => Decodes(s)
               /\ \A u \in r.etag : r.etag = {u} =>
                      \E t \in s.etag : s.etag = {t} /\ t.data = u.data
  <1>. DEFINE e == select_content_encoding(req, r)
              s == compress_response(r, e)
  <1>1. e \in Text
    BY CodingSelected, Zenon
  <1>2. CASE r.kind # "regular" \/ e = ""
    BY <1>2, Zenon DEF encode
  <1>3. CASE r.kind = "regular" /\ e # ""
    <2>1. encode(req, r) = s
      BY <1>3, Zenon DEF encode
    <2>2. r.contentEncoding = ""
      BY <1>3, Zenon DEF select_content_encoding
    <2>. HIDE DEF e
    <2>3. /\ s.status = r.status /\ s.kind = r.kind /\ s.size = r.size
          /\ s.vary = r.vary /\ s.cacheControl = r.cacheControl
          /\ s.version = r.version /\ s.connection = r.connection
          /\ s.keepAlive = r.keepAlive /\ s.chunked = r.chunked
          /\ s.contentEncoding = e
          /\ s.body = [r.body EXCEPT !.codings = Append(@, e)]
          /\ s.etag = {contentCodedETag(t, e) : t \in r.etag}
      BY DEF Response, compress_response
    <2>4. /\ r.body = [data |-> r.body.data, codings |-> r.body.codings]
          /\ r.body.data \in Nat /\ r.body.codings \in Seq(Text)
          /\ r.body \in Tags /\ r.etag \in SUBSET Tags
      BY DEF Response, Tags
    <2>5. \A t \in Tags : contentCodedETag(t, e) \in Tags
      <3>1. \A q \in Seq(Text) : Append(q, e) \in Seq(Text)
        BY <1>1, AppendProperties
      <3>2. QED
        BY <3>1 DEF Tags, Tag, contentCodedETag
    <2>6. /\ s.body = contentCodedETag(r.body, e) /\ s.body.codings = Append(r.body.codings, e)
      BY <2>3, <2>4 DEF contentCodedETag, Tag
    <2>7. s \in Response
      <3>1. s.etag \in SUBSET Tags /\ s.body \in Tags
        BY <2>3, <2>4, <2>5, <2>6, Zenon
      <3>2. /\ {contentCodedETag(t, e) : t \in r.etag} \in SUBSET Tags
            /\ [r.body EXCEPT !.codings = Append(@, e)] \in Tags
        BY <2>3, <3>1, Zenon
      <3>3. QED
        BY <1>1, <3>2, Zenon DEF Response, compress_response
    <2>8. Named(r) => Named(s)
      BY <2>3, <2>6 DEF Named
    <2>9. Decodes(r) => Decodes(s)
      <3>1. Append(<<>>, e) = <<e>>
        OBVIOUS
      <3>2. QED
        BY <1>3, <2>2, <2>3, <2>6, <3>1, Zenon DEF Decodes
    <2>10. \A u \in r.etag : r.etag = {u} =>
               \E t \in s.etag : s.etag = {t} /\ t.data = u.data
      <3>1. SUFFICES ASSUME NEW u \in r.etag, r.etag = {u}
                     PROVE  \E t \in s.etag : s.etag = {t} /\ t.data = u.data
        BY Zenon
      <3>2. s.etag = {contentCodedETag(u, e)} /\ contentCodedETag(u, e).data = u.data
        BY <2>3, <3>1 DEF contentCodedETag, Tag
      <3>3. QED
        BY <3>2
    <2>. HIDE DEF s
    <2>11. QED
      BY <1>3, <2>1, <2>3, <2>7, <2>8, <2>9, <2>10, Zenon
  <1>4. QED
    BY <1>2, <1>3

\* Headers of the server and of the connection that writing a response leaves alone.
SameHeaders(s, r) ==
    /\ s.status = r.status /\ s.kind = r.kind /\ s.version = r.version
    /\ s.vary = r.vary /\ s.cacheControl = r.cacheControl
    /\ s.connection = r.connection /\ s.keepAlive = r.keepAlive

\* The entity-tag of a 304 becomes one that the client named, if it named any of the data.
LEMMA HeldNamed ==
    ASSUME NEW req, req.ifNoneMatch \subseteq Tags, NEW r \in Response
    PROVE  LET s == nameHeldVariant(req, r)
           IN  /\ s \in Response /\ SameHeaders(s, r) /\ s.chunked = r.chunked
               /\ r.status # "not_modified" => s = r
               /\ r.status = "not_modified" =>
                      \A t \in r.etag : r.etag = {t} /\ matching(req, t.data) # {} =>
                          \E h \in matching(req, t.data) : s.etag = {h}
  <1>. DEFINE s == [r EXCEPT !.etag = {notModifiedETag(req, t) : t \in @}]
  <1>1. CASE r.status # "not_modified"
    BY <1>1 DEF nameHeldVariant, SameHeaders
  <1>2. CASE r.status = "not_modified"
    <2>1. nameHeldVariant(req, r) = s
      BY <1>2, Zenon DEF nameHeldVariant
    <2>2. /\ SameHeaders(s, r) /\ s.chunked = r.chunked
          /\ s.etag = {notModifiedETag(req, t) : t \in r.etag}
      BY DEF SameHeaders, Response
    <2>3. \A t \in Tags : notModifiedETag(req, t) \in Tags
      BY Zenon DEF notModifiedETag, matching
    <2>4. {notModifiedETag(req, t) : t \in r.etag} \in SUBSET Tags
      BY <2>3 DEF Response
    <2>5. s \in Response
      BY <2>4, Zenon DEF Response
    <2>6. ASSUME NEW t \in r.etag, r.etag = {t}, matching(req, t.data) # {}
          PROVE  \E h \in matching(req, t.data) : s.etag = {h}
      <3>1. notModifiedETag(req, t) \in matching(req, t.data)
        BY <2>6, Zenon DEF notModifiedETag
      <3>2. s.etag = {notModifiedETag(req, t)}
        BY <2>2, <2>6
      <3>3. QED
        BY <3>1, <3>2, Zenon
    <2>7. QED
      BY <1>2, <2>1, <2>2, <2>5, <2>6, Zenon
  <1>3. QED
    BY <1>1, <1>2

\* frame says how long the body is, and leaves the rest.
LEMMA Framed ==
    ASSUME NEW head \in BOOLEAN, NEW r \in Response
    PROVE  LET s == frame(head, r)
           IN  /\ s \in Response /\ SameHeaders(s, r)
               /\ s.etag = r.etag /\ s.contentEncoding = r.contentEncoding /\ s.body = r.body
               /\ ~r.chunked => ~s.chunked
  <1>. DEFINE a == [r EXCEPT !.size = "empty", !.contentLength = {}, !.chunked = FALSE]
              b == [r EXCEPT !.contentLength = {}, !.chunked = FALSE]
              c == [r EXCEPT !.contentLength = {<<r.size, r.body>>}]
  <1>1. frame(head, r) \in {a, b, c}
    <2>1. CASE statusHasNoBody(r)
      BY <2>1, Zenon DEF frame
    <2>2. CASE ~statusHasNoBody(r) /\ head /\ r.kind = "chunked"
      BY <2>2, Zenon DEF frame
    <2>3. CASE ~statusHasNoBody(r) /\ ~(head /\ r.kind = "chunked")
      BY <2>3, Zenon DEF frame
    <2>4. QED
      BY <2>1, <2>2, <2>3, Zenon
  <1>2. r.size \in Sizes /\ r.body \in Tags
    BY DEF Response
  <1>3. {<<r.size, r.body>>} \in SUBSET (Sizes \X Tags)
    BY <1>2
  <1>4. a \in Response
    <2>1. "empty" \in Sizes /\ {} \in SUBSET (Sizes \X Tags)
      BY DEF Sizes
    <2>2. QED
      BY <2>1, Zenon DEF Response
  <1>5. b \in Response
    BY Zenon DEF Response
  <1>6. c \in Response
    BY <1>3, Zenon DEF Response
  <1>7. \A x \in {a, b, c} :
            /\ SameHeaders(x, r) /\ x.etag = r.etag
            /\ x.contentEncoding = r.contentEncoding /\ x.body = r.body
            /\ ~r.chunked => ~x.chunked
    BY DEF Response, SameHeaders
  <1>8. QED
    BY <1>1, <1>4, <1>5, <1>6, <1>7, Zenon

\* The reply paths, as a function of the response with its server headers.
Sent(req, head, s) ==
    CASE head \/ s.kind = "regular"  -> startRegularReply(req, head, s)
      [] ~head /\ s.kind = "chunked" -> startChunkedReply(s)
      [] OTHER                       -> startStreamReply(s)

LEMMA SentCases ==
    ASSUME NEW req, NEW head \in BOOLEAN, NEW s \in Response
    PROVE  /\ head \/ s.kind = "regular" =>
                  Sent(req, head, s) = frame(head, nameHeldVariant(req, encode(req, s)))
           /\ ~head /\ s.kind = "chunked" => Sent(req, head, s) = startChunkedReply(s)
           /\ ~head /\ s.kind = "stream"  => Sent(req, head, s) = startStreamReply(s)
  <1>1. CASE head \/ s.kind = "regular"
    <2>1. ~(~head /\ s.kind = "chunked") /\ ~(~head /\ s.kind = "stream")
      BY <1>1
    <2>2. QED
      BY <1>1, <2>1, Zenon DEF Sent, startRegularReply
  <1>2. CASE ~head /\ s.kind = "chunked"
    BY <1>2 DEF Sent
  <1>3. CASE ~head /\ s.kind = "stream"
    BY <1>3 DEF Sent
  <1>4. QED
    <2>1. s.kind \in {"regular", "stream", "chunked"}
      BY DEF Response, Kinds
    <2>2. QED
      BY <1>1, <1>2, <1>3, <2>1, Zenon

\* The tag of a 304 is one that the client named, of the data it had before.
NamesHeld(req, s, w) ==
    \A t \in s.etag : s.etag = {t} /\ matching(req, t.data) # {} =>
        \E h \in matching(req, t.data) : w.etag = {h}

\* Writing a response keeps what names and what decodes its bytes true.
LEMMA SentKeeps ==
    ASSUME NEW req, req.ifNoneMatch \subseteq Tags, NEW head \in BOOLEAN, NEW s \in Response
    PROVE  LET w == Sent(req, head, s)
           IN  /\ w \in Response /\ SameHeaders(w, s)
               /\ s.status = "ok" /\ Named(s) => Named(w)
               /\ s.status = "ok" /\ Decodes(s) => Decodes(w)
               /\ s.status = "not_modified" /\ s.kind = "regular" => NamesHeld(req, s, w)
  <1>1. CASE head \/ s.kind = "regular"
    <2>. DEFINE e == encode(req, s)
                n == nameHeldVariant(req, e)
                f == frame(head, n)
    <2>1. Sent(req, head, s) = f
      BY <1>1, SentCases, Zenon
    <2>2. /\ e \in Response /\ SameHeaders(e, s)
          /\ Named(s) => Named(e)
          /\ Decodes(s) => Decodes(e)
          /\ \A u \in s.etag : s.etag = {u} =>
                 \E t \in e.etag : e.etag = {t} /\ t.data = u.data
      BY Encoded, Zenon DEF SameHeaders
    <2>. HIDE DEF e
    <2>4. /\ n \in Response /\ SameHeaders(n, e)
          /\ e.status # "not_modified" => n = e
          /\ e.status = "not_modified" =>
                 \A t \in e.etag : e.etag = {t} /\ matching(req, t.data) # {} =>
                     \E h \in matching(req, t.data) : n.etag = {h}
      BY <2>2, HeldNamed, Zenon
    <2>. HIDE DEF n
    <2>5. /\ f \in Response /\ SameHeaders(f, n)
          /\ f.etag = n.etag /\ f.contentEncoding = n.contentEncoding /\ f.body = n.body
      BY <2>4, Framed, Zenon
    <2>. HIDE DEF f
    <2>6. SameHeaders(f, s)
      BY <2>2, <2>4, <2>5, Zenon DEF SameHeaders
    <2>7. s.status = "ok" /\ Named(s) => Named(f)
      BY <2>2, <2>4, <2>5 DEF SameHeaders, Named
    <2>8. s.status = "ok" /\ Decodes(s) => Decodes(f)
      BY <2>2, <2>4, <2>5 DEF SameHeaders, Decodes
    <2>9. ASSUME s.status = "not_modified", NEW u \in s.etag, s.etag = {u},
                  matching(req, u.data) # {}
           PROVE  \E h \in matching(req, u.data) : f.etag = {h}
      <3>1. PICK t \in e.etag : e.etag = {t} /\ t.data = u.data
        BY <2>2, <2>9, Zenon
      <3>2. e.status = "not_modified"
        BY <2>2, <2>9, Zenon DEF SameHeaders
      <3>3. \E h \in matching(req, t.data) : n.etag = {h}
        BY <2>4, <2>9, <3>1, <3>2, Zenon
      <3>4. QED
        BY <2>5, <3>1, <3>3, Zenon
    <2>10. QED
      BY <2>1, <2>5, <2>6, <2>7, <2>8, <2>9, Zenon DEF NamesHeld
  <1>2. CASE ~head /\ s.kind = "chunked"
    <2>. DEFINE w == [s EXCEPT !.chunked = TRUE, !.contentLength = {}]
    <2>1. Sent(req, head, s) = w
      BY <1>2, SentCases, Zenon DEF startChunkedReply
    <2>2. w \in Response
      BY Zenon DEF Response
    <2>3. /\ SameHeaders(w, s) /\ w.etag = s.etag /\ w.body = s.body
          /\ w.contentEncoding = s.contentEncoding
      BY DEF Response, SameHeaders
    <2>4. s.kind # "regular"
      BY <1>2
    <2>5. QED
      BY <2>1, <2>2, <2>3, <2>4, Zenon DEF Named, Decodes
  <1>3. CASE ~head /\ s.kind = "stream"
    <2>. DEFINE w == [s EXCEPT !.contentLength = {<<s.size, s.body>>}]
    <2>1. Sent(req, head, s) = w
      BY <1>3, SentCases, Zenon DEF startStreamReply
    <2>2. {<<s.size, s.body>>} \in SUBSET (Sizes \X Tags)
      BY DEF Response
    <2>3. w \in Response
      BY <2>2, Zenon DEF Response
    <2>4. /\ SameHeaders(w, s) /\ w.etag = s.etag /\ w.body = s.body
          /\ w.contentEncoding = s.contentEncoding
      BY DEF Response, SameHeaders
    <2>5. s.kind # "regular"
      BY <1>3
    <2>6. QED
      BY <2>1, <2>3, <2>4, <2>5, Zenon DEF Named, Decodes
  <1>4. QED
    <2>1. s.kind \in {"regular", "stream", "chunked"}
      BY DEF Response, Kinds
    <2>2. QED
      BY <1>1, <1>2, <1>3, <2>1, Zenon

\* The answer to HEAD is that to GET, but for the framing of a stream of unknown length.
LEMMA HeadIsGet ==
    ASSUME NEW req, req.ifNoneMatch \subseteq Tags, NEW s \in Response, s.chunked = FALSE,
           s.status # "ok" => s.kind = "regular"
    PROVE  Sent(req, TRUE, s) = [Sent(req, FALSE, s) EXCEPT !.chunked = FALSE]
  <1>1. \A w \in Response : ~w.chunked => w = [w EXCEPT !.chunked = FALSE]
    BY Zenon DEF Response
  <1>2. CASE s.kind = "regular"
    <2>. DEFINE n == nameHeldVariant(req, encode(req, s))
    <2>1. /\ Sent(req, TRUE, s) = frame(TRUE, n) /\ Sent(req, FALSE, s) = frame(FALSE, n)
      BY <1>2, SentCases, Zenon
    <2>2. /\ encode(req, s) \in Response /\ encode(req, s).kind = "regular"
          /\ ~encode(req, s).chunked
      BY <1>2, Encoded, Zenon
    <2>3. n \in Response /\ n.kind = "regular" /\ ~n.chunked
      BY <2>2, HeldNamed, Zenon DEF SameHeaders
    <2>. HIDE DEF n
    <2>4. n.kind # "chunked"
      BY <2>3
    <2>5. frame(TRUE, n) = frame(FALSE, n)
      <3>1. CASE statusHasNoBody(n)
        BY <3>1, Zenon DEF frame
      <3>2. CASE ~statusHasNoBody(n)
        BY <2>4, <3>2, Zenon DEF frame
      <3>3. QED
        BY <3>1, <3>2, Zenon
    <2>6. frame(FALSE, n) \in Response /\ ~frame(FALSE, n).chunked
      BY <2>3, Framed, Zenon
    <2>7. QED
      BY <1>1, <2>1, <2>5, <2>6, Zenon
  <1>3. CASE s.kind # "regular"
    <2>1. s.status = "ok"
      BY <1>3
    <2>2. encode(req, s) = s
      BY <1>3, Encoded, Zenon
    <2>3. nameHeldVariant(req, s) = s
      BY <2>1 DEF nameHeldVariant
    <2>4. ~statusHasNoBody(s)
      BY <2>1 DEF statusHasNoBody
    <2>5. Sent(req, TRUE, s) = frame(TRUE, s)
      BY <2>2, <2>3, SentCases, Zenon
    <2>6. CASE s.kind = "chunked"
      <3>1. frame(TRUE, s) = [s EXCEPT !.contentLength = {}, !.chunked = FALSE]
        BY <2>4, <2>6, Zenon DEF frame
      <3>2. Sent(req, FALSE, s) = [s EXCEPT !.chunked = TRUE, !.contentLength = {}]
        BY <2>6, SentCases, Zenon DEF startChunkedReply
      <3>3. [s EXCEPT !.contentLength = {}, !.chunked = FALSE] =
                [[s EXCEPT !.chunked = TRUE, !.contentLength = {}] EXCEPT !.chunked = FALSE]
        BY Zenon DEF Response
      <3>4. QED
        BY <2>5, <3>1, <3>2, <3>3, Zenon
    <2>7. CASE s.kind = "stream"
      <3>. DEFINE w == [s EXCEPT !.contentLength = {<<s.size, s.body>>}]
      <3>1. s.kind # "chunked"
        BY <2>7
      <3>2. frame(TRUE, s) = w
        BY <2>4, <3>1, Zenon DEF frame
      <3>3. Sent(req, FALSE, s) = w
        BY <2>7, SentCases, Zenon DEF startStreamReply
      <3>4. w \in Response /\ w.chunked = FALSE
        <4>1. Sent(req, FALSE, s) \in Response
          BY SentKeeps, Zenon
        <4>2. w.chunked = FALSE
          BY DEF Response
        <4>3. QED
          BY <3>3, <4>1, <4>2, Zenon
      <3>5. QED
        BY <1>1, <2>5, <3>2, <3>3, <3>4, Zenon
    <2>8. QED
      <3>1. s.kind \in {"regular", "stream", "chunked"}
        BY DEF Response, Kinds
      <3>2. QED
        BY <1>3, <2>6, <2>7, <3>1, Zenon
  <1>4. QED
    BY <1>2, <1>3

-----------------------------------------------------------------------------
(* The headers of the server and of the connection.                        *)

VersionOf(version, r) == IF r.kind = "chunked" THEN "1.1" ELSE version
ConnectionOf(keep, version) ==
    IF ~keep THEN <<"close">> ELSE IF version = "1.1" THEN <<>> ELSE <<"keep-alive">>
KeepAliveOf(keep, version, left) == IF keep /\ version = "1.0" THEN left ELSE {}

\* setServerHeaders as a function of what the connection decided.
Headed(keep, version, left, r) ==
    appendStaleDirectives([setVary(r) EXCEPT !.version = VersionOf(version, r),
                                             !.connection = ConnectionOf(keep, version),
                                             !.keepAlive = KeepAliveOf(keep, version, left)])

LEMMA HeadedKeeps ==
    ASSUME NEW keep \in BOOLEAN, NEW version \in Versions, NEW left \in SUBSET Nat,
           NEW r \in Response
    PROVE  LET s == Headed(keep, version, left, r)
           IN  /\ s \in Response /\ SameContent(s, r)
               /\ Single(r) => Single(s)
               /\ s.version = VersionOf(version, r)
               /\ s.connection = ConnectionOf(keep, version)
               /\ s.keepAlive = KeepAliveOf(keep, version, left)
  <1>. DEFINE v == setVary(r)
              ver == VersionOf(version, r)
              con == ConnectionOf(keep, version)
              kal == KeepAliveOf(keep, version, left)
              c == [v EXCEPT !.version = ver, !.connection = con, !.keepAlive = kal]
              s == appendStaleDirectives(c)
  <1>1. Headed(keep, version, left, r) = s
    BY Zenon DEF Headed
  <1>2. ver \in Versions /\ kal \in SUBSET Nat
    BY DEF VersionOf, KeepAliveOf, Versions
  <1>3. con \in Seq(Text)
    <2>1. "close" \in Text /\ "keep-alive" \in Text
      BY Zenon DEF Text
    <2>2. <<>> \in Seq(Text) /\ <<"close">> \in Seq(Text) /\ <<"keep-alive">> \in Seq(Text)
      BY <2>1
    <2>3. QED
      BY <2>2, Zenon DEF ConnectionOf
  <1>4. /\ v \in Response /\ SameContent(v, r) /\ v.cacheControl = r.cacheControl
        /\ Single(r) => Single(v)
    BY VaryAdded, Zenon
  <1>. HIDE DEF v, ver, con, kal
  <1>5. c \in Response
    BY <1>2, <1>3, <1>4, Zenon DEF Response
  <1>6. /\ SameContent(c, v) /\ c.version = ver /\ c.connection = con /\ c.keepAlive = kal
        /\ c.vary = v.vary /\ c.cacheControl = v.cacheControl
    BY <1>4 DEF Response, SameContent
  <1>. HIDE DEF c
  <1>7. /\ s \in Response /\ SameContent(s, c) /\ s.version = c.version
        /\ s.connection = c.connection /\ s.keepAlive = c.keepAlive
        /\ Single(c) => Single(s)
    BY <1>5, StaleAdded, Zenon
  <1>. HIDE DEF s
  <1>8. SameContent(s, r)
    BY <1>4, <1>6, <1>7, Zenon DEF SameContent
  <1>9. Single(r) => Single(s)
    BY <1>4, <1>6, <1>7, Zenon DEF Single
  <1>10. s.version = ver /\ s.connection = con /\ s.keepAlive = kal
    BY <1>6, <1>7, Zenon
  <1>11. QED
    BY <1>1, <1>7, <1>8, <1>9, <1>10, Zenon DEF ver, con, kal

\* How many more requests a response may promise.
Left(r) == IF keepsAlive(r) THEN Remaining ELSE {}

\* What is written is a function of what the connection decided.
WrittenIsSent ==
    itsKeepAlive \in BOOLEAN /\ itsResponseVersion \in Versions =>
        \A req : \A head \in BOOLEAN, r \in Response : Left(r) \in SUBSET Nat =>
            written(req, head, r) =
                Sent(req, head, Headed(keepsAlive(r), itsResponseVersion, Left(r), r))

LEMMA Writing == WrittenIsSent
  <1>1. SUFFICES ASSUME itsKeepAlive \in BOOLEAN, itsResponseVersion \in Versions,
                        NEW req, NEW head \in BOOLEAN, NEW r \in Response,
                        Left(r) \in SUBSET Nat
                 PROVE  written(req, head, r) =
                            Sent(req, head,
                                 Headed(keepsAlive(r), itsResponseVersion, Left(r), r))
    BY Zenon DEF WrittenIsSent
  <1>2. PICK keep \in BOOLEAN, version \in Versions, left \in SUBSET Nat :
            /\ keep = keepsAlive(r) /\ version = itsResponseVersion /\ left = Left(r)
            /\ keep => left = Remaining
    BY <1>1 DEF keepsAlive, Left
  <1>. DEFINE v == setVary(r)
              ver == VersionOf(version, r)
              n == [v EXCEPT !.version = ver]
              s == Headed(keep, version, left, r)
  <1>3. v \in Response /\ v.kind = r.kind /\ v.connection = r.connection
    BY VaryAdded, Zenon DEF SameContent
  <1>. HIDE DEF v
  <1>4. setVersion(v) = n
    BY <1>2, <1>3, Zenon DEF setVersion, VersionOf
  <1>5. n.kind = r.kind /\ n.connection = r.connection
    BY <1>3 DEF Response
  <1>6. keepsAlive(n) = keep
    BY <1>2, <1>5, Zenon DEF keepsAlive
  <1>. HIDE DEF ver
  <1>7. setServerHeaders(r) = s
    <2>1. CASE ~keep
      <3>1. setConnectionHeaders(n) = [n EXCEPT !.connection = <<"close">>, !.keepAlive = {}]
        BY <1>6, <2>1, Zenon DEF setConnectionHeaders
      <3>2. [n EXCEPT !.connection = <<"close">>, !.keepAlive = {}] =
                [v EXCEPT !.version = ver, !.connection = <<"close">>, !.keepAlive = {}]
        BY <1>3, Zenon DEF Response
      <3>3. setServerHeaders(r) =
                appendStaleDirectives([v EXCEPT !.version = ver, !.connection = <<"close">>,
                                                !.keepAlive = {}])
        BY <1>4, <3>1, <3>2, Zenon DEF setServerHeaders, v
      <3>4. QED
        BY <2>1, <3>3, Zenon DEF Headed, ConnectionOf, KeepAliveOf, v, ver
    <2>2. CASE keep /\ version = "1.1"
      <3>1. setConnectionHeaders(n) = [n EXCEPT !.connection = <<>>, !.keepAlive = {}]
        BY <1>2, <1>6, <2>2, Zenon DEF setConnectionHeaders
      <3>2. [n EXCEPT !.connection = <<>>, !.keepAlive = {}] =
                [v EXCEPT !.version = ver, !.connection = <<>>, !.keepAlive = {}]
        BY <1>3, Zenon DEF Response
      <3>3. setServerHeaders(r) =
                appendStaleDirectives([v EXCEPT !.version = ver, !.connection = <<>>,
                                                !.keepAlive = {}])
        BY <1>4, <3>1, <3>2, Zenon DEF setServerHeaders, v
      <3>4. version # "1.0"
        BY <2>2
      <3>5. QED
        BY <2>2, <3>3, <3>4, Zenon DEF Headed, ConnectionOf, KeepAliveOf, v, ver
    <2>3. CASE keep /\ version # "1.1"
      <3>1. setConnectionHeaders(n) =
                [n EXCEPT !.connection = <<"keep-alive">>, !.keepAlive = left]
        BY <1>2, <1>6, <2>3, Zenon DEF setConnectionHeaders
      <3>2. [n EXCEPT !.connection = <<"keep-alive">>, !.keepAlive = left] =
                [v EXCEPT !.version = ver, !.connection = <<"keep-alive">>, !.keepAlive = left]
        BY <1>3, Zenon DEF Response
      <3>3. setServerHeaders(r) =
                appendStaleDirectives([v EXCEPT !.version = ver,
                                                !.connection = <<"keep-alive">>,
                                                !.keepAlive = left])
        BY <1>4, <3>1, <3>2, Zenon DEF setServerHeaders, v
      <3>4. version = "1.0"
        BY <2>3 DEF Versions
      <3>5. QED
        BY <2>3, <3>3, <3>4, Zenon DEF Headed, ConnectionOf, KeepAliveOf, v, ver
    <2>4. QED
      BY <2>1, <2>2, <2>3, Zenon
  <1>8. s.kind = r.kind
    <2>1. SameContent(s, r)
      BY HeadedKeeps, Zenon
    <2>2. QED
      BY <2>1, Zenon DEF SameContent
  <1>9. written(req, head, r) = Sent(req, head, s)
    <2>1. CASE head \/ r.kind = "regular"
      BY <1>7, <1>8, <2>1, Zenon DEF written, Sent
    <2>2. CASE ~head /\ r.kind = "chunked"
      BY <1>7, <1>8, <2>2, Zenon DEF written, Sent
    <2>3. CASE ~(head \/ r.kind = "regular") /\ ~(~head /\ r.kind = "chunked")
      BY <1>7, <1>8, <2>3, Zenon DEF written, Sent
    <2>4. QED
      BY <2>1, <2>2, <2>3, Zenon
  <1>10. QED
    BY <1>2, <1>9, Zenon

-----------------------------------------------------------------------------
(* The invariant.                                                          *)

LEMMA InitHead == Init => HeadInv
  <1>1. SUFFICES ASSUME Init PROVE HeadInv
    OBVIOUS
  <1>2. Blank \in Response
    <2>1. <<>> \in Seq(Text) /\ "" \in Text
      BY DEF Text
    <2>2. Tag(0, <<>>) \in Tags
      BY <2>1 DEF Tag, Tags
    <2>3. QED
      BY <2>1, <2>2, Zenon DEF Blank, Response, Kinds, Sizes, Versions
  <1>3. Cardinality({}) = 0
    BY FS_EmptySet
  <1>4. TypeInv
    <2>1. MaxData \in Nat /\ MaxStored \in Nat \ {0}
      BY HeadAssumption, Zenon
    <2>2. TypeOK
      <3>1. Cardinality(store) = 0 /\ Cardinality(cached) = 0
        BY <1>1, <1>3, Zenon DEF Init
      <3>2. Cardinality(store) <= MaxStored /\ Cardinality(cached) <= 1
        BY <2>1, <3>1
      <3>3. /\ pc = "idle" /\ data \in 0 .. MaxData /\ itsRequestCount \in Nat
            /\ \A n \in promised : n \in Nat
        BY <1>1, <2>1 DEF Init
      <3>4. DOMAIN itsResponse = DOMAIN Blank /\ DOMAIN answer = DOMAIN Blank
        BY <1>1, Zenon DEF Init
      <3>5. /\ itsHeadRequest = FALSE /\ itsKeepAlive = FALSE /\ shutdownRequested = FALSE
            /\ itsResponseVersion = "1.0"
        BY <1>1, Zenon DEF Init
      <3>6. QED
        BY <3>2, <3>3, <3>4, <3>5, Zenon DEF TypeOK
    <2>3. QED
      BY <1>1, <1>2, <2>2 DEF Init, TypeInv
  <1>5. NegotiationInv /\ PromiseInv /\ StoreInv
    BY <1>1 DEF Init, NegotiationInv, PromiseInv, StoreInv, OneHopOnly
  <1>6. EnabledInv
    BY <1>1 DEF Init, EnabledInv, Blank
  <1>7. HeldInv
    BY <1>1 DEF Init, HeldInv, NoRequest
  <1>8. SentInv
    BY <1>1 DEF Init, SentInv, AgreeOnReuse, PromiseIsKept, NotModifiedNamesHeld,
                HeadDescribesGet
  <1>9. QED
    BY <1>4, <1>5, <1>6, <1>7, <1>8 DEF HeadInv

\* What a client names is typed.
LEMMA HeldTyped == TypeInv /\ HeldInv => request.ifNoneMatch \subseteq Tags
  BY DEF TypeInv, HeldInv

\* What a reply does to the connection and the response.
LEMMA Replied ==
    ASSUME HeadInv, NEW r \in Response, reply(r)
    PROVE  \E keep \in BOOLEAN, version \in Versions, left \in SUBSET Nat, s \in Response :
               /\ keep = keepsAlive(r) /\ keep = itsKeepAlive'
               /\ version = itsResponseVersion /\ version = itsResponseVersion'
               /\ left = Left(r) /\ left = Left(r)'
               /\ keep = keepsAlive(r)'
               /\ s = Headed(keep, version, left, r)
               /\ itsResponse' = Sent(request, itsHeadRequest, s)
               /\ written(request, FALSE, r)' = Sent(request, FALSE, s)
  <1>1. itsKeepAlive \in BOOLEAN /\ itsResponseVersion \in Versions
    BY DEF HeadInv, TypeInv, TypeOK, Versions
  <1>2. Left(r) \in SUBSET Nat
    <2>1. keepsAlive(r) => itsKeepAlive
      BY DEF keepsAlive
    <2>2. pc = "handled"
      BY DEF reply
    <2>3. itsRequestCount \in Nat /\ MaxKeepAliveRequests \in Nat
      BY HeadAssumption DEF HeadInv, TypeInv, TypeOK
    <2>4. keepsAlive(r) => MaxKeepAliveRequests = 0 \/ itsRequestCount < MaxKeepAliveRequests
      BY <2>1, <2>2 DEF HeadInv, NegotiationInv
    <2>5. QED
      BY <2>3, <2>4 DEF Left, Remaining
  <1>3. /\ itsKeepAlive' = keepsAlive(r) /\ itsResponseVersion' = itsResponseVersion
        /\ itsRequestCount' = itsRequestCount /\ request' = request
        /\ itsResponse' = written(request, itsHeadRequest, r)
    BY DEF reply
  <1>4. keepsAlive(r)' = keepsAlive(r)
    BY <1>3, Zenon DEF keepsAlive
  <1>5. Remaining' = Remaining
    BY <1>3, Zenon DEF Remaining
  <1>6. Left(r)' = Left(r)
    BY <1>4, <1>5, Zenon DEF Left
  <1>7. PICK keep \in BOOLEAN, version \in Versions, left \in SUBSET Nat :
            keep = keepsAlive(r) /\ version = itsResponseVersion /\ left = Left(r)
    BY <1>1, <1>2 DEF keepsAlive
  <1>8. PICK s \in Response : s = Headed(keep, version, left, r)
    BY HeadedKeeps, Zenon
  <1>9. itsResponse' = Sent(request, itsHeadRequest, s)
    <2>1. itsHeadRequest \in BOOLEAN
      BY DEF HeadInv, TypeInv, TypeOK
    <2>2. written(request, itsHeadRequest, r) =
              Sent(request, itsHeadRequest,
                   Headed(keepsAlive(r), itsResponseVersion, Left(r), r))
      BY <1>1, <1>2, <2>1, Writing, Zenon DEF WrittenIsSent
    <2>3. QED
      BY <1>3, <1>7, <1>8, <2>2, Zenon
  <1>10. written(request, FALSE, r)' = Sent(request, FALSE, s)
    <2>1. WrittenIsSent'
      BY Writing, PTL
    <2>2. Left(r)' \in SUBSET Nat /\ itsKeepAlive' \in BOOLEAN
          /\ itsResponseVersion' \in Versions
      BY <1>1, <1>2, <1>3, <1>6, <1>7
    <2>3. PICK req : req = request
      OBVIOUS
    <2>4. written(req, FALSE, r)' =
              Sent(req, FALSE, Headed(keepsAlive(r)', itsResponseVersion', Left(r)', r))
      BY <2>1, <2>2 DEF WrittenIsSent
    <2>5. written(request, FALSE, r)' = written(req, FALSE, r)'
      BY <1>3, <2>3, Zenon DEF written
    <2>6. QED
      BY <1>3, <1>4, <1>6, <1>7, <1>8, <2>3, <2>4, <2>5, Zenon
  <1>11. QED
    BY <1>3, <1>4, <1>6, <1>7, <1>8, <1>9, <1>10, Zenon

\* A reply that is as the handler of this server or of one behind it makes it keeps the
\* invariant.
LEMMA ReplyStep ==
    ASSUME HeadInv, NEW r \in Response, reply(r), r.chunked = FALSE, Single(r),
           r.status # "ok" => r.kind = "regular",
           r.status = "ok" => Named(r) /\ Decodes(r),
           r.status = "not_modified" =>
               r.etag = {Tag(data, <<>>)} /\ matching(request, data) # {}
    PROVE  HeadInv'
  <1>1. PICK keep \in BOOLEAN, version \in Versions, left \in SUBSET Nat, s \in Response :
            /\ keep = keepsAlive(r) /\ keep = itsKeepAlive'
            /\ version = itsResponseVersion /\ version = itsResponseVersion'
            /\ left = Left(r) /\ left = Left(r)'
            /\ keep = keepsAlive(r)'
            /\ s = Headed(keep, version, left, r)
            /\ itsResponse' = Sent(request, itsHeadRequest, s)
            /\ written(request, FALSE, r)' = Sent(request, FALSE, s)
    BY Replied
  <1>2. /\ pc = "handled" /\ pc' = "sent" /\ answer' = r
        /\ UNCHANGED <<data, request, itsHeadRequest, itsResponseVersion, itsRequestCount,
                       shutdownRequested, delivered, promised, store, cached>>
    BY DEF reply
  <1>3. TypeInv /\ TypeOK /\ NegotiationInv /\ PromiseInv /\ EnabledInv /\ HeldInv /\ StoreInv
    BY DEF HeadInv, TypeInv
  <1>4. PICK req : req = request
    OBVIOUS
  <1>4a. PICK head \in BOOLEAN : head = itsHeadRequest
    BY <1>3 DEF TypeOK
  <1>5. req.ifNoneMatch \subseteq Tags
    BY <1>3, <1>4, HeldTyped
  <1>6. /\ SameContent(s, r)
        /\ Single(r) => Single(s)
        /\ s.version = VersionOf(version, r)
        /\ s.connection = ConnectionOf(keep, version)
        /\ s.keepAlive = KeepAliveOf(keep, version, left)
    <2>. DEFINE x == Headed(keep, version, left, r)
    <2>1. /\ SameContent(x, r)
          /\ Single(r) => Single(x)
      BY HeadedKeeps, Zenon
    <2>2. x.version = VersionOf(version, r)
      BY HeadedKeeps, Zenon
    <2>3. x.connection = ConnectionOf(keep, version)
      BY HeadedKeeps, Zenon
    <2>4. x.keepAlive = KeepAliveOf(keep, version, left)
      BY HeadedKeeps, Zenon
    <2>5. x = s
      BY <1>1, Zenon
    <2>. HIDE DEF x
    <2>6. QED
      BY <2>1, <2>2, <2>3, <2>4, <2>5, Zenon
  <1>7. PICK w \in Response : w = Sent(req, head, s)
    BY <1>5, SentKeeps, Zenon
  <1>8. /\ SameHeaders(w, s)
        /\ s.status = "ok" /\ Named(s) => Named(w)
        /\ s.status = "ok" /\ Decodes(s) => Decodes(w)
        /\ s.status = "not_modified" /\ s.kind = "regular" => NamesHeld(req, s, w)
    <2>. DEFINE x == Sent(req, head, s)
    <2>1. /\ x \in Response /\ SameHeaders(x, s)
          /\ s.status = "ok" /\ Named(s) => Named(x)
          /\ s.status = "ok" /\ Decodes(s) => Decodes(x)
          /\ s.status = "not_modified" /\ s.kind = "regular" => NamesHeld(req, s, x)
      BY <1>5, SentKeeps, Zenon
    <2>2. x = w
      BY <1>7, Zenon
    <2>. HIDE DEF x
    <2>3. QED
      BY <2>1, <2>2, Zenon
  <1>9. itsResponse' = w
    BY <1>1, <1>4, <1>4a, <1>7, Zenon
  <1>10. TypeInv'
    <2>1. DOMAIN w = DOMAIN Blank /\ DOMAIN r = DOMAIN Blank
      BY DEF Response, Blank
    <2>2. TypeOK'
      BY <1>1, <1>2, <1>3, <1>9, <2>1 DEF TypeOK, Versions
    <2>3. QED
      BY <1>2, <1>3, <1>9, <2>2 DEF TypeInv
  <1>11. NegotiationInv'
    BY <1>2, <1>3 DEF NegotiationInv
  <1>12. PromiseInv'
    <2>1. w.keepAlive = IF keep /\ version = "1.0" THEN left ELSE {}
      BY <1>6, <1>8 DEF SameHeaders, KeepAliveOf
    <2>2. \A n \in w.keepAlive :
              MaxKeepAliveRequests # 0 /\ n = MaxKeepAliveRequests - itsRequestCount
      BY <1>1, <2>1 DEF Left, Remaining
    <2>3. itsRequestCount \in Nat /\ MaxKeepAliveRequests \in Nat
      BY <1>3, HeadAssumption DEF TypeOK
    <2>4. QED
      BY <1>2, <1>3, <1>9, <2>2, <2>3 DEF PromiseInv
  <1>13. HeldInv' /\ StoreInv'
    BY <1>2, <1>3 DEF HeldInv, StoreInv
  <1>14. itsResponse'.status = "ok" => Named(itsResponse)' /\ Decodes(itsResponse)'
    <2>1. w.status = r.status /\ s.status = r.status
      BY <1>6, <1>8, Zenon DEF SameHeaders, SameContent
    <2>2. r.status = "ok" => Named(s) /\ Decodes(s)
      BY <1>6 DEF SameContent, Named, Decodes
    <2>3. w.status = "ok" => Named(w) /\ Decodes(w)
      BY <1>8, <2>1, <2>2, Zenon
    <2>4. QED
      BY <1>9, <2>3, Zenon DEF Named, Decodes
  <1>15. Single(itsResponse)'
    <2>1. Single(w)
      BY <1>6, <1>8, Zenon DEF SameHeaders, Single
    <2>2. QED
      BY <1>9, <2>1, Zenon DEF Single
  <1>16. AgreeOnReuse'
    <2>1. /\ w.version = IF r.kind = "chunked" THEN "1.1" ELSE version
          /\ w.connection = IF ~keep THEN <<"close">>
                            ELSE IF version = "1.1" THEN <<>> ELSE <<"keep-alive">>
      BY <1>6, <1>8 DEF SameHeaders, VersionOf, ConnectionOf
    <2>2. version = negotiateVersion(request.version)
      BY <1>1, <1>2, <1>3 DEF NegotiationInv
    <2>3. Lower("close") = "close" /\ Lower("keep-alive") = "keep-alive"
      BY HeadAssumption, Zenon
    <2>4. /\ hasHeaderToken(<<"close">>, "close")
          /\ hasHeaderToken(<<"keep-alive">>, "keep-alive")
          /\ ~hasHeaderToken(<<"keep-alive">>, "close")
          /\ ~hasHeaderToken(<<>>, "close")
      BY <2>3 DEF hasHeaderToken, ToSet
    <2>. DEFINE persists ==
                    /\ ~hasHeaderToken(w.connection, "close")
                    /\ \/ negotiateVersion(request.version) = "1.1" /\ w.version = "1.1"
                       \/ hasHeaderToken(w.connection, "keep-alive")
    <2>5. SUFFICES keep <=> persists
      <3>1. clientPersists' <=> persists
        BY <1>2, <1>9, Zenon DEF clientPersists
      <3>. HIDE DEF persists
      <3>2. keep <=> itsKeepAlive'
        BY <1>1
      <3>3. QED
        BY <3>1, <3>2, Zenon DEF AgreeOnReuse
    <2>6. CASE ~keep
      BY <2>1, <2>4, <2>6, Zenon
    <2>7. CASE keep /\ version = "1.1"
      BY <2>1, <2>2, <2>4, <2>7, Zenon
    <2>8. CASE keep /\ version # "1.1"
      BY <2>1, <2>4, <2>8, Zenon
    <2>9. QED
      BY <2>6, <2>7, <2>8, Zenon
  <1>17. PromiseIsKept'
    <2>1. SUFFICES ASSUME ~keep, NEW n \in promised, n > 1
                   PROVE  \/ shutdownRequested
                          \/ hasHeaderToken(Elements(request.headers, "Connection"), "close")
                          \/ hasHeaderToken(r.connection, "close")
                          \/ itsResponseVersion = "1.0" /\ (r.kind = "chunked" \/ ~asksToKeep)
      <3>1. asksToKeep' <=> asksToKeep
        BY <1>2, Zenon DEF asksToKeep
      <3>2. Elements(request.headers, "Connection")' = Elements(request.headers, "Connection")
        BY <1>2, Zenon DEF Elements
      <3>3. keep <=> itsKeepAlive'
        BY <1>1
      <3>4. shutdownRequested' <=> shutdownRequested
        BY <1>2
      <3>5. QED
        BY <1>2, <3>1, <3>2, <3>3, <3>4, Zenon DEF PromiseIsKept
    <2>2. CASE itsKeepAlive
      <3>1. (r.kind = "chunked" /\ version # "1.1") \/ hasHeaderToken(r.connection, "close")
        BY <1>1, <2>1, <2>2, Zenon DEF keepsAlive
      <3>2. version # "1.1" => version = "1.0"
        BY DEF Versions
      <3>3. QED
        BY <1>1, <3>1, <3>2, Zenon
    <2>3. CASE ~itsKeepAlive
      <3>1. Refused
        BY <1>2, <1>3, <2>3 DEF NegotiationInv
      <3>2. ~(MaxKeepAliveRequests # 0 /\ itsRequestCount >= MaxKeepAliveRequests)
        <4>1. n \in Nat /\ itsRequestCount \in Nat /\ MaxKeepAliveRequests \in Nat
          BY <1>3, HeadAssumption DEF TypeOK
        <4>2. n <= MaxKeepAliveRequests - itsRequestCount + 1
          BY <1>2, <1>3 DEF PromiseInv
        <4>3. QED
          BY <2>1, <4>1, <4>2
      <3>3. itsKeepAliveEnabled
        BY <1>2, <1>3, <2>1 DEF EnabledInv
      <3>4. QED
        BY <3>1, <3>2, <3>3, Zenon DEF Refused
    <2>4. QED
      BY <2>2, <2>3
  <1>18. NotModifiedNamesHeld'
    <2>1. SUFFICES ASSUME w.status = "not_modified"
                   PROVE  \E t \in store : /\ t.etag = w.etag
                                           /\ \A u \in r.etag : t.body.data = u.data
                                           /\ ToSet(t.body.codings) \subseteq request.accept
      BY <1>2, <1>9, Zenon DEF NotModifiedNamesHeld
    <2>2. s.status = "not_modified" /\ r.status = "not_modified" /\ s.etag = r.etag
          /\ s.kind = "regular"
      <3>1. s.status = "not_modified" /\ r.status = "not_modified" /\ s.etag = r.etag
            /\ s.kind = r.kind
        BY <1>6, <1>8, <2>1, Zenon DEF SameHeaders, SameContent
      <3>2. QED
        BY <3>1
    <2>3. PICK d : d = data
      OBVIOUS
    <2>4. s.etag = {Tag(d, <<>>)} /\ Tag(d, <<>>).data = d /\ matching(req, d) # {}
      BY <1>4, <2>2, <2>3 DEF Tag
    <2>5. PICK h \in matching(req, d) : w.etag = {h}
      BY <1>8, <2>2, <2>4 DEF NamesHeld
    <2>6. h \in request.ifNoneMatch /\ h.data = d /\ ToSet(h.codings) \subseteq request.accept
      BY <1>4, <2>5 DEF matching
    <2>7. PICK t \in store : t.etag = {h} /\ t.body = h
      BY <1>3, <2>6 DEF HeldInv
    <2>8. \A u \in r.etag : u.data = d
      BY <2>2, <2>4
    <2>9. QED
      BY <2>5, <2>6, <2>7, <2>8, Zenon
  <1>19. HeadDescribesGet'
    <2>1. SUFFICES ASSUME head = TRUE
                   PROVE  w = [written(request, FALSE, r)' EXCEPT !.chunked = FALSE]
      BY <1>2, <1>4a, <1>9 DEF HeadDescribesGet
    <2>2. s.chunked = FALSE /\ (s.status # "ok" => s.kind = "regular")
      BY <1>6 DEF SameContent
    <2>3. w = [Sent(req, FALSE, s) EXCEPT !.chunked = FALSE]
      BY <1>5, <1>7, <2>1, <2>2, HeadIsGet, Zenon
    <2>4. QED
      BY <1>1, <1>4, <2>3, Zenon
  <1>20. EnabledInv'
    <2>1. keep => itsKeepAlive
      BY <1>1, Zenon DEF keepsAlive
    <2>2. w.keepAlive # {} => keep
      BY <1>6, <1>8 DEF SameHeaders, KeepAliveOf
    <2>3. QED
      BY <1>1, <1>2, <1>3, <1>9, <2>1, <2>2 DEF EnabledInv
  <1>21. QED
    BY <1>10, <1>11, <1>12, <1>13, <1>14, <1>15, <1>16, <1>17, <1>18, <1>19, <1>20
       DEF HeadInv, SentInv

\* The produced response, with the data or the entity-tag the client holds, and the stock
\* reply have nothing of a server in them yet.
LEMMA ProduceStep == HeadInv /\ produce => HeadInv'
  <1>1. SUFFICES ASSUME HeadInv, produce PROVE HeadInv'
    OBVIOUS
  <1>2. PICK d \in Nat : d = data
    BY <1>1 DEF HeadInv, TypeInv
  <1>3. Blank \in Response /\ Tag(d, <<>>) \in Tags
    <2>1. <<>> \in Seq(Text) /\ "" \in Text
      BY DEF Text
    <2>2. Tag(0, <<>>) \in Tags /\ Tag(d, <<>>) \in Tags
      BY <2>1 DEF Tag, Tags
    <2>3. QED
      BY <2>1, <2>2, Zenon DEF Blank, Response, Kinds, Sizes, Versions
  <1>4. PICK a \in Answers :
            IF matching(request, data) # {}
            THEN reply([Blank EXCEPT !.status = "not_modified", !.etag = {Tag(data, <<>>)},
                                     !.vary = a.vary, !.compressible = TRUE,
                                     !.cacheControl = a.cacheControl,
                                     !.connection = a.connection])
            ELSE reply([Blank EXCEPT !.kind = a.kind, !.size = a.size,
                                     !.body = Tag(data, <<>>), !.etag = {Tag(data, <<>>)},
                                     !.compressible = a.compressible, !.vary = a.vary,
                                     !.cacheControl = a.cacheControl,
                                     !.connection = a.connection])
    BY <1>1, Zenon DEF produce
  <1>5. /\ a.kind \in Kinds /\ a.size \in Sizes /\ a.compressible \in BOOLEAN
        /\ a.vary \in Seq(Text) /\ a.cacheControl \in Seq(Text) /\ a.connection \in Seq(Text)
        /\ IsInjective(a.vary) /\ IsInjective(a.cacheControl)
    <2>1. a \in Answer /\ IsInjective(a.vary) /\ IsInjective(a.cacheControl)
      BY HeadAssumption, Zenon
    <2>2. \A q \in Seq(STRING) : q \in Seq(Text)
      <3>1. STRING \subseteq Text
        BY DEF Text
      <3>2. QED
        BY <3>1, SeqMonotonic
    <2>3. QED
      BY <2>1, <2>2 DEF Answer
  <1>6. CASE matching(request, data) # {}
    <2>. DEFINE r == [Blank EXCEPT !.status = "not_modified", !.etag = {Tag(d, <<>>)},
                                   !.vary = a.vary, !.compressible = TRUE,
                                   !.cacheControl = a.cacheControl,
                                   !.connection = a.connection]
    <2>1. r \in Response
      BY <1>3, <1>5, Zenon DEF Response
    <2>2. /\ r.chunked = FALSE /\ r.kind = "regular" /\ r.status = "not_modified"
          /\ r.vary = a.vary /\ r.cacheControl = a.cacheControl /\ r.etag = {Tag(d, <<>>)}
      BY DEF Blank
    <2>3. reply(r)
      BY <1>2, <1>4, <1>6, Zenon
    <2>. HIDE DEF r
    <2>4. Single(r)
      BY <1>5, <2>2, Zenon DEF Single
    <2>5. r.status # "ok"
      BY <2>2
    <2>6. QED
      BY <1>1, <1>2, <1>6, <2>1, <2>2, <2>3, <2>4, <2>5, ReplyStep, Zenon
  <1>7. CASE matching(request, data) = {}
    <2>. DEFINE r == [Blank EXCEPT !.kind = a.kind, !.size = a.size, !.body = Tag(d, <<>>),
                                   !.etag = {Tag(d, <<>>)}, !.compressible = a.compressible,
                                   !.vary = a.vary, !.cacheControl = a.cacheControl,
                                   !.connection = a.connection]
    <2>1. r \in Response
      BY <1>3, <1>5, Zenon DEF Response
    <2>2. /\ r.chunked = FALSE /\ r.status = "ok" /\ r.contentEncoding = ""
          /\ r.vary = a.vary /\ r.cacheControl = a.cacheControl
          /\ r.etag = {Tag(d, <<>>)} /\ r.body = Tag(d, <<>>)
      BY DEF Blank
    <2>3. reply(r)
      BY <1>2, <1>4, <1>7, Zenon
    <2>. HIDE DEF r
    <2>4. Single(r) /\ Named(r)
      BY <1>5, <2>2, Zenon DEF Single, Named
    <2>5. Decodes(r)
      <3>1. Tag(d, <<>>).codings = <<>>
        BY DEF Tag
      <3>2. QED
        BY <2>2, <3>1, Zenon DEF Decodes
    <2>6. r.status # "not_modified"
      BY <2>2
    <2>7. QED
      BY <1>1, <2>1, <2>2, <2>3, <2>4, <2>5, <2>6, ReplyStep, Zenon
  <1>8. QED
    BY <1>6, <1>7

LEMMA StockStep == HeadInv /\ sendStockReply => HeadInv'
  <1>1. SUFFICES ASSUME HeadInv, sendStockReply PROVE HeadInv'
    OBVIOUS
  <1>. DEFINE r == [Blank EXCEPT !.status = "service_unavailable", !.size = "small",
                                 !.contentLength = {<<"small", Blank.body>>}]
  <1>2. r \in Response
    <2>1. <<>> \in Seq(Text) /\ "" \in Text
      BY DEF Text
    <2>2. Tag(0, <<>>) \in Tags
      BY <2>1 DEF Tag, Tags
    <2>3. Blank \in Response /\ Blank.body = Tag(0, <<>>)
      BY <2>1, <2>2, Zenon DEF Blank, Response, Kinds, Sizes, Versions
    <2>4. {<<"small", Blank.body>>} \in SUBSET (Sizes \X Tags) /\ "small" \in Sizes
      BY <2>2, <2>3 DEF Sizes
    <2>5. QED
      BY <2>3, <2>4, Zenon DEF Response
  <1>3. /\ r.chunked = FALSE /\ r.kind = "regular" /\ r.status = "service_unavailable"
        /\ r.vary = <<>> /\ r.cacheControl = <<>>
    BY DEF Blank
  <1>4. reply(r)
    BY <1>1, Zenon DEF sendStockReply
  <1>. HIDE DEF r
  <1>5. Single(r)
    <2>1. IsInjective(<<>>)
      BY DEF IsInjective
    <2>2. QED
      BY <1>3, <2>1, Zenon DEF Single
  <1>6. r.status # "ok" /\ r.status # "not_modified"
    BY <1>3
  <1>7. QED
    BY <1>1, <1>2, <1>3, <1>4, <1>5, <1>6, ReplyStep, Zenon

\* What the frontend has in its cache is as a server of this kind sent it.
LEMMA ReplayStep == HeadInv /\ replay => HeadInv'
  <1>1. SUFFICES ASSUME HeadInv, replay PROVE HeadInv'
    OBVIOUS
  <1>2. PICK c \in cached : reply([c EXCEPT !.kind = "regular"])
    BY <1>1, Zenon DEF replay
  <1>. DEFINE r == [c EXCEPT !.kind = "regular"]
  <1>3. c \in Response /\ Named(c) /\ Decodes(c) /\ Single(c) /\ c.status = "ok" /\ ~c.chunked
    BY <1>1 DEF HeadInv, TypeInv, StoreInv
  <1>4. r \in Response
    <2>1. "regular" \in Kinds
      BY DEF Kinds
    <2>2. QED
      BY <1>3, <2>1, Zenon DEF Response
  <1>5. /\ r.chunked = c.chunked /\ r.status = "ok" /\ r.kind = "regular"
        /\ r.etag = c.etag /\ r.body = c.body /\ r.contentEncoding = c.contentEncoding
        /\ r.vary = c.vary /\ r.cacheControl = c.cacheControl
    BY <1>3 DEF Response
  <1>6. reply(r)
    BY <1>2
  <1>. HIDE DEF r
  <1>7. r.chunked = FALSE
    BY <1>3, <1>5 DEF Response
  <1>8. Single(r) /\ Named(r) /\ Decodes(r)
    BY <1>3, <1>5, Zenon DEF Single, Named, Decodes
  <1>9. r.status # "not_modified"
    BY <1>5
  <1>10. QED
    BY <1>1, <1>4, <1>5, <1>6, <1>7, <1>8, <1>9, ReplyStep, Zenon

\* The data, the shutdown and steps of others leave what is said about a request.
LEMMA AloneStep ==
    ASSUME HeadInv, data' \in 0 .. MaxData, shutdownRequested' \in BOOLEAN,
           shutdownRequested => shutdownRequested',
           UNCHANGED <<pc, request, connection, itsResponse, ghosts, store, cached>>
    PROVE  HeadInv'
  <1>1. /\ TypeInv /\ TypeOK /\ NegotiationInv /\ PromiseInv /\ EnabledInv
        /\ HeldInv /\ StoreInv /\ SentInv
        /\ UNCHANGED <<pc, request, itsHeadRequest, itsResponseVersion, itsKeepAlive,
                       itsRequestCount, itsResponse, delivered, answer, promised, store,
                       cached>>
    BY DEF HeadInv, TypeInv, connection, ghosts
  <1>2. MaxData \in Nat
    BY HeadAssumption, Zenon
  <1>3. TypeInv'
    BY <1>1, <1>2 DEF TypeInv, TypeOK
  <1>4. NegotiationInv'
    BY <1>1 DEF NegotiationInv, OneHopOnly, Refused, asksToKeep, Elements
  <1>5. PromiseInv' /\ HeldInv' /\ StoreInv'
    BY <1>1 DEF PromiseInv, HeldInv, StoreInv
  <1>6. SentInv'
    <2>1. AgreeOnReuse'
      BY <1>1, Zenon DEF SentInv, AgreeOnReuse, clientPersists
    <2>2. PromiseIsKept'
      BY <1>1, Zenon DEF SentInv, PromiseIsKept, asksToKeep, Elements
    <2>3. NotModifiedNamesHeld'
      BY <1>1, Zenon DEF SentInv, NotModifiedNamesHeld
    <2>4. HeadDescribesGet'
      <3>1. written(request, FALSE, answer)' = written(request, FALSE, answer)
        BY <1>1, Zenon DEF written, setServerHeaders, setConnectionHeaders, setVersion,
                           keepsAlive, Remaining
      <3>2. QED
        BY <1>1, <3>1, Zenon DEF SentInv, HeadDescribesGet
    <2>5. QED
      BY <1>1, <2>1, <2>2, <2>3, <2>4, Zenon DEF SentInv, Named, Decodes, Single
  <1>7. EnabledInv'
    BY <1>1 DEF EnabledInv
  <1>8. QED
    BY <1>3, <1>4, <1>5, <1>6, <1>7 DEF HeadInv

\* The client asks.
LEMMA SendStep == HeadInv /\ sendRequest => HeadInv'
  <1>1. SUFFICES ASSUME HeadInv, sendRequest PROVE HeadInv'
    OBVIOUS
  <1>2. /\ pc = "idle" /\ pc' = "parsed"
        /\ UNCHANGED <<data, itsHeadRequest, itsResponseVersion, itsKeepAlive,
                       itsRequestCount, itsResponse, shutdownRequested, delivered, answer,
                       promised, store, cached>>
    BY <1>1 DEF sendRequest, connection, ghosts
  <1>3. PICK r \in Requests, held \in SUBSET {s.etag : s \in store} :
            request' = [head |-> r.head, version |-> r.version, headers |-> r.headers,
                        accept |-> r.accept, gzip |-> r.gzip, ifNoneMatch |-> UNION held]
    BY <1>1, Zenon DEF sendRequest
  <1>4. request'.head \in BOOLEAN
    BY <1>3, HeadAssumption
  <1>5. /\ TypeInv /\ TypeOK /\ NegotiationInv /\ PromiseInv /\ EnabledInv
        /\ HeldInv /\ StoreInv /\ SentInv
    BY <1>1 DEF HeadInv, TypeInv
  <1>6. TypeInv'
    BY <1>2, <1>5 DEF TypeInv, TypeOK
  <1>7. NegotiationInv' /\ PromiseInv'
    BY <1>2, <1>4, <1>5 DEF NegotiationInv, PromiseInv
  <1>8. HeldInv'
    <2>1. SUFFICES ASSUME NEW t \in request'.ifNoneMatch
                   PROVE  \E s \in store : s.etag = {t} /\ s.body = t
      BY <1>2, Zenon DEF HeldInv
    <2>2. PICK s \in store : t \in s.etag
      BY <1>3
    <2>3. s.etag = {s.body}
      BY <1>5, Zenon DEF StoreInv, Named
    <2>4. QED
      BY <2>2, <2>3
  <1>9. StoreInv'
    BY <1>2, <1>5 DEF StoreInv
  <1>10. SentInv'
    BY <1>2 DEF SentInv, AgreeOnReuse, PromiseIsKept, NotModifiedNamesHeld, HeadDescribesGet
  <1>11. EnabledInv'
    BY <1>2, <1>5 DEF EnabledInv
  <1>12. QED
    BY <1>6, <1>7, <1>8, <1>9, <1>10, <1>11 DEF HeadInv

\* What a handler may see of a request.
OneHop(seen, r) ==
    LET named == {Lower(n) : n \in hopByHop \cup ToSet(Elements(r.headers, "Connection"))}
        own   == "X-SmartMet-Original-Method"
    IN  /\ \A n \in DOMAIN seen \ {own} : Lower(n) \notin named \cup {Lower(own)}
        /\ own \in DOMAIN seen <=> r.head

\* What the handler sees has lost what is of this hop, and tells the method of the client.
LEMMA HandedOnOneHop ==
    ASSUME NEW r, r.head \in BOOLEAN
    PROVE  OneHop(handedOn(r), r)
  <1>. DEFINE own == "X-SmartMet-Original-Method"
              named == {Lower(n) : n \in hopByHop \cup ToSet(Elements(r.headers, "Connection"))}
              strip == stripHopByHopHeaders(r.headers)
              bare == removeHeaders(strip, {own})
  <1>1. \A n \in DOMAIN strip : Lower(n) \notin named
    BY DEF stripHopByHopHeaders, removeHeaders, Restrict
  <1>. HIDE DEF strip
  <1>2. \A n \in DOMAIN bare : n \in DOMAIN strip /\ Lower(n) # Lower(own)
    BY DEF removeHeaders, Restrict
  <1>3. \A n \in DOMAIN bare : Lower(n) \notin named \cup {Lower(own)}
    BY <1>1, <1>2
  <1>. HIDE DEF bare
  <1>4. own \notin DOMAIN bare
    BY <1>3
  <1>5. CASE r.head
    <2>1. handedOn(r) = setHeader(bare, own, <<"HEAD">>)
      BY <1>5, Zenon DEF handedOn, bare, strip
    <2>2. DOMAIN handedOn(r) = DOMAIN bare \cup {own}
      BY <2>1 DEF setHeader
    <2>. HIDE DEF named
    <2>3. QED
      BY <1>3, <1>5, <2>2 DEF named, OneHop
  <1>6. CASE ~r.head
    <2>1. handedOn(r) = bare
      BY <1>6, Zenon DEF handedOn, bare, strip
    <2>. HIDE DEF named
    <2>2. QED
      BY <1>3, <1>4, <1>6, <2>1 DEF named, OneHop
  <1>7. QED
    BY <1>5, <1>6

\* A connection that is not kept has one of the reasons for it.
LEMMA WhyRefused ==
    ASSUME NEW version \in Versions, NEW count \in Nat
    PROVE  LET kept == evaluateKeepAlive(request.headers, version, count)
           IN  /\ kept => MaxKeepAliveRequests = 0 \/ count < MaxKeepAliveRequests
               /\ kept => itsKeepAliveEnabled
               /\ ~kept =>
                     \/ ~itsKeepAliveEnabled
                     \/ shutdownRequested
                     \/ MaxKeepAliveRequests # 0 /\ count >= MaxKeepAliveRequests
                     \/ hasHeaderToken(Elements(request.headers, "Connection"), "close")
                     \/ version = "1.0" /\ ~asksToKeep
  <1>. DEFINE kept == evaluateKeepAlive(request.headers, version, count)
  <1>1. MaxKeepAliveRequests \in Nat
    BY HeadAssumption, Zenon
  <1>2. kept => MaxKeepAliveRequests = 0 \/ count < MaxKeepAliveRequests
    BY Zenon DEF evaluateKeepAlive
  <1>2a. kept => itsKeepAliveEnabled
    BY Zenon DEF evaluateKeepAlive
  <1>3. ~(count < MaxKeepAliveRequests) => count >= MaxKeepAliveRequests
    BY <1>1
  <1>4. CASE version = "1.1"
    BY <1>3, <1>4, Zenon DEF evaluateKeepAlive
  <1>5. CASE version = "1.0" /\ "Connection" \in DOMAIN request.headers
    <2>1. version # "1.1"
      BY <1>5
    <2>2. asksToKeep <=> hasHeaderToken(request.headers["Connection"], "keep-alive")
      BY <1>5, Zenon DEF asksToKeep, Elements
    <2>3. QED
      BY <1>2, <1>3, <1>5, <2>1, <2>2, Zenon DEF evaluateKeepAlive
  <1>6. CASE version = "1.0" /\ "Connection" \notin DOMAIN request.headers
    <2>1. version # "1.1"
      BY <1>6
    <2>2. asksToKeep <=>
              hasHeaderToken(Elements(request.headers, "Proxy-Connection"), "keep-alive")
      BY <1>6, Zenon DEF asksToKeep
    <2>3. QED
      BY <1>2, <1>3, <1>6, <2>1, <2>2, Zenon DEF evaluateKeepAlive
  <1>7. QED
    BY <1>2, <1>2a, <1>4, <1>5, <1>6, Zenon DEF Versions

LEMMA Negotiated ==
    ASSUME HeadInv, negotiated
    PROVE  /\ pc = "parsed" /\ itsResponseVersion' \in Versions
           /\ itsResponseVersion' = negotiateVersion(request.version)
           /\ itsRequestCount' = itsRequestCount + 1
           /\ itsRequestCount \in Nat /\ itsRequestCount' \in Nat
           /\ MaxKeepAliveRequests \in Nat
           /\ request.head \in BOOLEAN
  <1>1. itsRequestCount \in Nat /\ request.head \in BOOLEAN
    BY DEF HeadInv, TypeInv, TypeOK, NegotiationInv, negotiated
  <1>2. MaxKeepAliveRequests \in Nat
    BY HeadAssumption, Zenon
  <1>3. negotiateVersion(request.version) \in Versions
    BY Zenon DEF negotiateVersion, Versions
  <1>4. QED
    BY <1>1, <1>2, <1>3 DEF negotiated

LEMMA ParsedStep == HeadInv /\ handleParsedRequest => HeadInv'
  <1>1. SUFFICES ASSUME HeadInv, handleParsedRequest PROVE HeadInv'
    OBVIOUS
  <1>2. /\ negotiated /\ pc' = "handled" /\ itsHeadRequest' = request.head
        /\ itsKeepAlive' =
               evaluateKeepAlive(request.headers, itsResponseVersion', itsRequestCount')
        /\ delivered' = handedOn(request)
        /\ UNCHANGED <<data, request, itsResponse, shutdownRequested, answer, promised,
                       store, cached>>
    BY <1>1, Zenon DEF handleParsedRequest
  <1>3. /\ pc = "parsed" /\ itsResponseVersion' \in Versions
        /\ itsResponseVersion' = negotiateVersion(request.version)
        /\ itsRequestCount' = itsRequestCount + 1
        /\ itsRequestCount \in Nat /\ itsRequestCount' \in Nat
        /\ MaxKeepAliveRequests \in Nat
        /\ request.head \in BOOLEAN
    BY <1>1, <1>2, Negotiated
  <1>4. TypeInv /\ TypeOK /\ NegotiationInv /\ PromiseInv /\ EnabledInv /\ HeldInv /\ StoreInv
    BY <1>1 DEF HeadInv, TypeInv
  <1>5. itsKeepAlive' \in BOOLEAN
    BY <1>2 DEF evaluateKeepAlive
  <1>6. TypeInv'
    BY <1>2, <1>3, <1>4, <1>5 DEF TypeInv, TypeOK, Versions
  <1>7. PICK version \in Versions, count \in Nat :
            version = itsResponseVersion' /\ count = itsRequestCount'
    BY <1>3
  <1>8. NegotiationInv'
    <2>1. OneHopOnly'
      <3>1. PICK r : r = request
        OBVIOUS
      <3>2. r.head \in BOOLEAN
        BY <1>3, <3>1
      <3>3. OneHop(handedOn(r), r)
        BY <3>2, HandedOnOneHop
      <3>4. request' = r /\ delivered' = handedOn(r)
        BY <1>2, <3>1, Zenon
      <3>5. QED
        BY <3>3, <3>4, Zenon DEF OneHopOnly, OneHop
    <2>2. /\ itsKeepAlive' => itsKeepAliveEnabled
          /\ itsKeepAlive' => MaxKeepAliveRequests = 0 \/ count < MaxKeepAliveRequests
          /\ ~itsKeepAlive' =>
                \/ ~itsKeepAliveEnabled
                \/ shutdownRequested
                \/ MaxKeepAliveRequests # 0 /\ count >= MaxKeepAliveRequests
                \/ hasHeaderToken(Elements(request.headers, "Connection"), "close")
                \/ version = "1.0" /\ ~asksToKeep
      <3>. DEFINE kept == evaluateKeepAlive(request.headers, version, count)
      <3>1. /\ kept => itsKeepAliveEnabled
            /\ kept => MaxKeepAliveRequests = 0 \/ count < MaxKeepAliveRequests
            /\ ~kept =>
                  \/ ~itsKeepAliveEnabled
                  \/ shutdownRequested
                  \/ MaxKeepAliveRequests # 0 /\ count >= MaxKeepAliveRequests
                  \/ hasHeaderToken(Elements(request.headers, "Connection"), "close")
                  \/ version = "1.0" /\ ~asksToKeep
        BY WhyRefused, Zenon
      <3>2. itsKeepAlive' <=> kept
        <4>1. itsKeepAlive' = kept
          BY <1>2, <1>7, Zenon
        <4>2. QED
          BY <4>1
      <3>. HIDE DEF kept
      <3>3. QED
        BY <3>1, <3>2, Zenon
    <2>3. ~itsKeepAlive' => Refused'
      <3>1. asksToKeep' <=> asksToKeep
        BY <1>2, Zenon DEF asksToKeep
      <3>2. request' = request /\ (shutdownRequested => shutdownRequested')
        BY <1>2
      <3>3. QED
        BY <1>7, <2>2, <3>1, <3>2, Zenon DEF Refused
    <2>4. QED
      BY <1>2, <1>3, <1>7, <2>1, <2>2, <2>3, Zenon DEF NegotiationInv
  <1>9. PromiseInv'
    <2>1. \A n \in promised :
              MaxKeepAliveRequests # 0 /\ n <= MaxKeepAliveRequests - itsRequestCount
      BY <1>3, <1>4 DEF PromiseInv
    <2>2. \A n \in promised : n \in Nat
      BY <1>4 DEF TypeOK
    <2>3. QED
      BY <1>2, <1>3, <2>1, <2>2 DEF PromiseInv
  <1>10. HeldInv' /\ StoreInv'
    BY <1>2, <1>4 DEF HeldInv, StoreInv
  <1>11. SentInv'
    BY <1>2 DEF SentInv, AgreeOnReuse, PromiseIsKept, NotModifiedNamesHeld, HeadDescribesGet
  <1>12. EnabledInv'
    <2>1. itsKeepAlive' => itsKeepAliveEnabled
      BY <1>2, Zenon DEF evaluateKeepAlive
    <2>2. QED
      BY <1>2, <1>4, <2>1 DEF EnabledInv
  <1>13. QED
    BY <1>6, <1>8, <1>9, <1>10, <1>11, <1>12 DEF HeadInv

LEMMA MissingHostStep == HeadInv /\ missingHost => HeadInv'
  <1>1. SUFFICES ASSUME HeadInv, missingHost PROVE HeadInv'
    OBVIOUS
  <1>. DEFINE w == [Blank EXCEPT !.status = "bad_request", !.vary = <<"Accept-Encoding">>,
                                 !.version = "1.1", !.connection = <<"close">>,
                                 !.contentLength = {<<"empty", Blank.body>>}]
  <1>2. /\ negotiated /\ pc' = "sent" /\ itsKeepAlive' = FALSE /\ itsResponse' = w
        /\ UNCHANGED <<data, request, itsHeadRequest, shutdownRequested, delivered, answer,
                       promised, store, cached>>
    BY <1>1, Zenon DEF missingHost, ghosts
  <1>3. /\ pc = "parsed" /\ itsResponseVersion' \in Versions
        /\ itsResponseVersion' = negotiateVersion(request.version)
        /\ itsRequestCount' = itsRequestCount + 1
        /\ itsRequestCount \in Nat /\ itsRequestCount' \in Nat
        /\ MaxKeepAliveRequests \in Nat
    BY <1>1, <1>2, Negotiated
  <1>4. TypeInv /\ TypeOK /\ NegotiationInv /\ PromiseInv /\ EnabledInv /\ HeldInv /\ StoreInv
    BY <1>1 DEF HeadInv, TypeInv
  <1>5. w \in Response
    <2>1. "" \in Text /\ "close" \in Text /\ "Accept-Encoding" \in Text
      BY Zenon DEF Text
    <2>2. <<>> \in Seq(Text) /\ <<"close">> \in Seq(Text) /\ <<"Accept-Encoding">> \in Seq(Text)
      <3>1. \A e \in Text : <<e>> \in Seq(Text)
        OBVIOUS
      <3>2. <<>> \in Seq(Text)
        OBVIOUS
      <3>3. QED
        BY <2>1, <3>1, <3>2, Zenon
    <2>3. Tag(0, <<>>) \in Tags
      BY <2>2 DEF Tag, Tags
    <2>4. Blank \in Response /\ Blank.body = Tag(0, <<>>)
      BY <2>1, <2>2, <2>3, Zenon DEF Blank, Response, Kinds, Sizes, Versions
    <2>5. {<<"empty", Blank.body>>} \in SUBSET (Sizes \X Tags)
      BY <2>3, <2>4 DEF Sizes
    <2>6. QED
      BY <2>2, <2>4, <2>5, Zenon DEF Response, Versions
  <1>6. /\ w.status = "bad_request" /\ w.connection = <<"close">> /\ w.keepAlive = {}
        /\ w.vary = <<"Accept-Encoding">> /\ w.cacheControl = <<>>
    BY DEF Blank
  <1>. HIDE DEF w
  <1>7. TypeInv'
    <2>1. DOMAIN w = DOMAIN Blank
      BY <1>5 DEF Response, Blank
    <2>2. TypeOK'
      BY <1>2, <1>3, <1>4, <2>1 DEF TypeOK, Versions
    <2>3. QED
      BY <1>2, <1>4, <1>5, <2>2 DEF TypeInv
  <1>8. NegotiationInv' /\ HeldInv' /\ StoreInv'
    BY <1>2, <1>3, <1>4 DEF NegotiationInv, HeldInv, StoreInv
  <1>9. PromiseInv'
    <2>1. \A n \in promised :
              /\ n \in Nat
              /\ MaxKeepAliveRequests # 0 /\ n <= MaxKeepAliveRequests - itsRequestCount
      BY <1>3, <1>4 DEF PromiseInv, TypeOK
    <2>2. QED
      BY <1>2, <1>3, <1>6, <2>1 DEF PromiseInv
  <1>10. SentInv'
    <2>1. hasHeaderToken(w.connection, "close")
      <3>1. Lower("close") = "close"
        BY HeadAssumption, Zenon
      <3>2. QED
        BY <1>6, <3>1 DEF hasHeaderToken, ToSet
    <2>2. Single(w)
      <3>1. IsInjective(<<>>) /\ IsInjective(<<"Accept-Encoding">>)
        BY DEF IsInjective
      <3>2. QED
        BY <1>6, <3>1, Zenon DEF Single
    <2>3. AgreeOnReuse'
      BY <1>2, <2>1, Zenon DEF AgreeOnReuse, clientPersists
    <2>4. w.status # "ok" /\ w.status # "not_modified"
      BY <1>6
    <2>5. PromiseIsKept' /\ HeadDescribesGet'
      BY <1>2, <1>6, Zenon DEF PromiseIsKept, HeadDescribesGet
    <2>6. NotModifiedNamesHeld'
      BY <1>2, <2>4, Zenon DEF NotModifiedNamesHeld
    <2>7. QED
      BY <1>2, <2>2, <2>3, <2>4, <2>5, <2>6, Zenon DEF SentInv, Single
  <1>11. EnabledInv'
    BY <1>2, <1>4, <1>6 DEF EnabledInv
  <1>12. QED
    BY <1>7, <1>8, <1>9, <1>10, <1>11 DEF HeadInv

\* What is kept is what was sent, or was kept before.
LEMMA ReceiveStep == HeadInv /\ receive => HeadInv'
  <1>1. SUFFICES ASSUME HeadInv, receive PROVE HeadInv'
    OBVIOUS
  <1>2. /\ pc = "sent" /\ pc' = IF clientPersists THEN "idle" ELSE "closed"
        /\ store' \in Kept(store, Representation(itsResponse), MaxStored)
        /\ cached' \in Kept(cached, Verbatim(itsResponse), 1)
        /\ promised' = IF itsResponse.keepAlive # {} THEN itsResponse.keepAlive
                       ELSE {n - 1 : n \in {m \in promised : m > 0}}
        /\ request' = NoRequest /\ itsResponse' = Blank /\ itsKeepAlive' = FALSE
        /\ itsHeadRequest' = FALSE /\ itsResponseVersion' = "1.0"
        /\ delivered' = <<>> /\ answer' = Blank
        /\ UNCHANGED <<data, itsRequestCount, shutdownRequested>>
    BY <1>1, Zenon DEF receive
  <1>3. /\ TypeInv /\ TypeOK /\ NegotiationInv /\ PromiseInv /\ EnabledInv
        /\ HeldInv /\ StoreInv /\ SentInv
    BY <1>1 DEF HeadInv, TypeInv
  <1>4. pc' \in {"idle", "closed"}
    BY <1>2
  <1>5. PICK r \in Response : r = itsResponse
    BY <1>3 DEF TypeInv
  <1>6. r.status = "ok" => Named(r) /\ Decodes(r) /\ Single(r)
    BY <1>2, <1>3, <1>5, Zenon DEF SentInv
  <1>7. /\ store' = store \/ (r.status = "ok" /\ store' \subseteq store \cup {Representation(r)}
                               /\ Cardinality(store') <= MaxStored)
    BY <1>2, <1>5 DEF Kept, HasContent
  <1>8. /\ cached' = cached \/ (r.status = "ok" /\ cached' \subseteq cached \cup {Verbatim(r)}
                                 /\ Cardinality(cached') <= 1)
    BY <1>2, <1>5 DEF Kept, HasContent
  <1>9. /\ Representation(r) \in [etag : SUBSET Tags, contentEncoding : Text, body : Tags]
        /\ Representation(r).etag = r.etag /\ Representation(r).body = r.body
        /\ Representation(r).contentEncoding = r.contentEncoding
    BY DEF Representation, Response
  <1>10. /\ Verbatim(r) \in Response
         /\ Verbatim(r).etag = r.etag /\ Verbatim(r).body = r.body
         /\ Verbatim(r).contentEncoding = r.contentEncoding
         /\ Verbatim(r).vary = r.vary /\ Verbatim(r).cacheControl = r.cacheControl
         /\ Verbatim(r).status = r.status /\ Verbatim(r).chunked = FALSE
    <2>1. <<>> \in Seq(Text) /\ "1.0" \in Versions
      BY DEF Versions
    <2>2. Verbatim(r) \in Response
      BY <2>1, Zenon DEF Verbatim, Response
    <2>3. QED
      BY <2>2 DEF Verbatim, Response
  <1>11. Blank \in Response
    <2>1. <<>> \in Seq(Text) /\ "" \in Text
      BY DEF Text
    <2>2. Tag(0, <<>>) \in Tags
      BY <2>1 DEF Tag, Tags
    <2>3. QED
      BY <2>1, <2>2, Zenon DEF Blank, Response, Kinds, Sizes, Versions
  <1>12. \A n \in promised' : n \in Nat
    <2>1. r.keepAlive \in SUBSET Nat
      BY DEF Response
    <2>2. \A n \in promised : n \in Nat
      BY <1>3 DEF TypeOK
    <2>3. QED
      BY <1>2, <1>5, <2>1, <2>2
  <1>13. TypeInv'
    <2>1. Cardinality(store') <= MaxStored /\ Cardinality(cached') <= 1
      <3>1. Cardinality(store) <= MaxStored /\ Cardinality(cached) <= 1
        BY <1>3 DEF TypeOK
      <3>2. QED
        BY <1>7, <1>8, <3>1
    <2>2. TypeOK'
      BY <1>2, <1>3, <1>4, <1>12, <2>1 DEF TypeOK
    <2>3. store' \subseteq [etag : SUBSET Tags, contentEncoding : Text, body : Tags]
      BY <1>3, <1>7, <1>9, Zenon DEF TypeInv
    <2>4. cached' \subseteq Response
      BY <1>3, <1>8, <1>10, Zenon DEF TypeInv
    <2>5. QED
      BY <1>2, <1>3, <1>11, <2>2, <2>3, <2>4 DEF TypeInv
  <1>14. NegotiationInv'
    BY <1>4 DEF NegotiationInv
  <1>15. PromiseInv'
    <2>1. itsRequestCount \in Nat /\ MaxKeepAliveRequests \in Nat
      BY <1>3, HeadAssumption DEF TypeOK
    <2>2. \A n \in promised :
              n \in Nat /\ MaxKeepAliveRequests # 0
                /\ n <= MaxKeepAliveRequests - itsRequestCount + 1
      BY <1>2, <1>3 DEF PromiseInv, TypeOK
    <2>3. \A n \in itsResponse.keepAlive :
              MaxKeepAliveRequests # 0 /\ n <= MaxKeepAliveRequests - itsRequestCount
      BY <1>2, <1>3 DEF PromiseInv
    <2>4. \A n \in promised' :
              MaxKeepAliveRequests # 0 /\ n <= MaxKeepAliveRequests - itsRequestCount
      BY <1>2, <2>1, <2>2, <2>3
    <2>5. QED
      BY <1>2, <1>4, <2>4 DEF PromiseInv
  <1>16. HeldInv'
    BY <1>2 DEF HeldInv, NoRequest
  <1>17. StoreInv'
    <2>1. \A s \in store' : Named(s) /\ Decodes(s)
      <3>1. r.status = "ok" => Named(Representation(r)) /\ Decodes(Representation(r))
        BY <1>6, <1>9, Zenon DEF Named, Decodes
      <3>2. QED
        BY <1>3, <1>7, <3>1, Zenon DEF StoreInv
    <2>2. \A c \in cached' : Named(c) /\ Decodes(c) /\ Single(c) /\ c.status = "ok" /\ ~c.chunked
      <3>1. r.status = "ok" =>
                LET c == Verbatim(r)
                IN  Named(c) /\ Decodes(c) /\ Single(c) /\ c.status = "ok" /\ ~c.chunked
        BY <1>6, <1>10, Zenon DEF Named, Decodes, Single
      <3>2. QED
        BY <1>3, <1>8, <3>1, Zenon DEF StoreInv
    <2>3. QED
      BY <2>1, <2>2, Zenon DEF StoreInv, Named, Decodes, Single
  <1>18. SentInv'
    BY <1>4 DEF SentInv, AgreeOnReuse, PromiseIsKept, NotModifiedNamesHeld, HeadDescribesGet
  <1>19. EnabledInv'
    <2>1. promised' # {} => itsKeepAliveEnabled
      BY <1>2, <1>3 DEF EnabledInv
    <2>2. Blank.keepAlive = {}
      BY DEF Blank
    <2>3. QED
      BY <1>2, <2>1, <2>2 DEF EnabledInv
  <1>20. QED
    BY <1>13, <1>14, <1>15, <1>16, <1>17, <1>18, <1>19 DEF HeadInv

LEMMA ConnectStep == HeadInv /\ connect => HeadInv'
  <1>1. SUFFICES ASSUME HeadInv, connect PROVE HeadInv'
    OBVIOUS
  <1>2. /\ pc' = "idle" /\ itsRequestCount' = 0 /\ promised' = {}
        /\ UNCHANGED <<data, request, itsHeadRequest, itsResponseVersion, itsKeepAlive,
                       itsResponse, shutdownRequested, delivered, answer, store, cached>>
    BY <1>1 DEF connect
  <1>3. /\ TypeInv /\ TypeOK /\ HeldInv /\ StoreInv
    BY <1>1 DEF HeadInv, TypeInv
  <1>4. TypeInv'
    BY <1>2, <1>3 DEF TypeInv, TypeOK
  <1>5. NegotiationInv' /\ PromiseInv' /\ HeldInv' /\ StoreInv'
    BY <1>2, <1>3 DEF NegotiationInv, PromiseInv, HeldInv, StoreInv
  <1>6. SentInv'
    BY <1>2 DEF SentInv, AgreeOnReuse, PromiseIsKept, NotModifiedNamesHeld, HeadDescribesGet
  <1>7. EnabledInv'
    BY <1>1, <1>2 DEF EnabledInv, HeadInv
  <1>8. QED
    BY <1>4, <1>5, <1>6, <1>7 DEF HeadInv

-----------------------------------------------------------------------------

\* The inductive invariant holds in every behaviour.
THEOREM Invariance == Spec => []HeadInv
  <1>1. HeadInv /\ [Next]_vars => HeadInv'
    <2>1. SUFFICES ASSUME HeadInv, [Next]_vars PROVE HeadInv'
      OBVIOUS
    <2>2. /\ data \in 0 .. MaxData /\ shutdownRequested \in BOOLEAN /\ MaxData \in Nat
      BY <2>1, HeadAssumption DEF HeadInv, TypeInv, TypeOK
    <2>3. CASE dataChange
      <3>1. data' \in 0 .. MaxData /\ shutdownRequested' = shutdownRequested
        BY <2>2, <2>3 DEF dataChange
      <3>2. QED
        BY <2>1, <2>2, <2>3, <3>1, AloneStep DEF dataChange
    <2>4. CASE shutdown
      BY <2>1, <2>2, <2>4, AloneStep DEF shutdown
    <2>5. CASE UNCHANGED vars
      BY <2>1, <2>2, <2>5, AloneStep DEF vars
    <2>6. QED
      BY <2>1, <2>3, <2>4, <2>5, SendStep, ParsedStep, MissingHostStep, ProduceStep,
         ReplayStep, StockStep, ReceiveStep, ConnectStep DEF Next
  <1>2. QED
    BY InitHead, <1>1, PTL DEF Spec

\* Every variable keeps its type; a response is a record of headers with values of theirs,
\* and the client and the frontend keep no more than they have room for.
THEOREM TypeCorrectness == Spec => []TypeOK
  <1>1. HeadInv => TypeOK
    BY DEF HeadInv, TypeInv
  <1>2. QED
    BY Invariance, <1>1, PTL

\* setConnectionHeaders and the version of the response tell the client what the server
\* decided, and evaluateKeepAlive does not close on a promise that the Keep-Alive header of
\* an earlier response made.
THEOREM PersistenceAgreed == Spec => []PersistenceIsAgreed
  <1>1. HeadInv => PersistenceIsAgreed
    BY DEF HeadInv, TypeInv, SentInv, PersistenceIsAgreed
  <1>2. QED
    BY Invariance, <1>1, PTL

\* compress_response gives coded bytes a tag of their own, and the 304 of startRegularReply
\* names a representation that the client holds and can use.
THEOREM TagsTrue == Spec => []TagsAreTrue
  <1>1. ASSUME HeadInv PROVE TagsAreTrue
    <2>1. \A r \in store \cup cached : r.etag = {r.body}
      BY <1>1, Zenon DEF HeadInv, StoreInv, Named
    <2>2. TagNamesBytes
      BY <2>1 DEF TagNamesBytes
    <2>3. QED
      BY <1>1, <2>2 DEF HeadInv, SentInv, TagsAreTrue
  <1>2. QED
    BY Invariance, <1>1, PTL

\* A coding, an element of Vary or of Cache-Control that a server added is not added again
\* by the server in front of it.
THEOREM OnceApplied == Spec => []AppliedOnce
  <1>1. ASSUME HeadInv PROVE AppliedOnce
    <2>1. DecodesOnce
      BY <1>1, Zenon DEF HeadInv, StoreInv, DecodesOnce, Decodes
    <2>2. NothingDoubled
      BY <1>1, Zenon DEF HeadInv, SentInv, NothingDoubled, Single
    <2>3. QED
      BY <2>1, <2>2 DEF AppliedOnce
  <1>2. QED
    BY Invariance, <1>1, PTL

\* handleParsedRequest hands on a request without the headers of the hop, with the method of
\* the client; the answer to HEAD has the headers of the answer to GET.
THEOREM MeaningKept == Spec => []RequestMeansTheSame
  <1>1. ASSUME HeadInv PROVE RequestMeansTheSame
    <2>1. OneHopOnly
      BY <1>1 DEF HeadInv, NegotiationInv, OneHopOnly
    <2>2. QED
      BY <1>1, <2>1 DEF HeadInv, SentInv, RequestMeansTheSame
  <1>2. QED
    BY Invariance, <1>1, PTL

=============================================================================
