----------------------------- MODULE ResponseHead -----------------------------
(***************************************************************************)
(* What the header sections of a request and of its response say: the      *)
(* negotiation of version and persistence, the headers of one hop, HEAD,   *)
(* content coding, entity-tags and the headers every response gets, in     *)
(* source/AsyncConnection.cpp and source/Utility.cpp.                      *)
(*                                                                         *)
(* A client with a store of what it received polls one resource, whose     *)
(* data changes, over connections it reuses.  The handler is external: it  *)
(* produces the data, or replays a response of a server behind this one,   *)
(* from the cache of the frontend, with all the headers it had there.      *)
(*                                                                         *)
(* The headers of a request are a function from its header names to their  *)
(* comma-separated elements.  The header of a response is a sequence of    *)
(* elements, empty when it is missing.  A representation is its data and   *)
(* the codings that were applied to it, in order.                          *)
(***************************************************************************)
EXTENDS Integers, SequencesExt

CONSTANTS
    Lower(_),               \* lower case of a header name or element
    Requests,               \* requests, but for their If-None-Match
    Answers,                \* what the handler adds to the data
    Codings,                \* the codings offered, in order of preference
    itsKeepAliveEnabled,    \* keepalive.enabled of the configuration
    MaxKeepAliveRequests,   \* itsMaxKeepAliveRequests, 0 for no limit
    StaleDirectives,        \* the stale-* directives of the configuration
    MaxData, MaxStored      \* bounds: changes of the data, representations stored

Kinds == {"regular", "stream", "chunked"}
Sizes == {"empty", "small", "large"}
Stale == {"stale-while-revalidate", "stale-if-error"}
Answer == [kind : Kinds, size : Sizes, compressible : BOOLEAN, vary : Seq(STRING),
           cacheControl : Seq(STRING), connection : Seq(STRING)]

\* A handler that doubles an element itself is not this code's concern.
ASSUME HeadAssumption ==
    /\ itsKeepAliveEnabled \in BOOLEAN
    /\ MaxKeepAliveRequests \in Nat /\ MaxData \in Nat /\ MaxStored \in Nat \ {0}
    /\ \A s \in {"close", "keep-alive"} : Lower(s) = s
    /\ Lower("Accept-Encoding") = "accept-encoding"
    /\ \A r \in Requests :
           /\ DOMAIN r = {"head", "version", "headers", "accept", "gzip"}
           /\ r.head \in BOOLEAN /\ r.gzip \in BOOLEAN
    /\ \A a \in Answers : a \in Answer /\ IsInjective(a.vary) /\ IsInjective(a.cacheControl)
    /\ Codings \in Seq(STRING)
    /\ StaleDirectives \in Seq(Stale) /\ IsInjective(StaleDirectives)

VARIABLES
    pc,                     \* "idle", "parsed", "handled", "sent", "closed"
    data,                   \* the current data of the resource
    request, itsHeadRequest, itsResponseVersion, itsKeepAlive, itsRequestCount,
    itsResponse,
    shutdownRequested,
    delivered,              \* the headers that the handler sees
    answer,                 \* itsResponse as the handler left it
    promised,               \* further requests the client may send, if it was told
    store, cached           \* responses kept by the client, and by the frontend

connection == <<itsHeadRequest, itsResponseVersion, itsKeepAlive, itsRequestCount>>
ghosts == <<delivered, answer, promised>>
vars == <<pc, data, request, connection, itsResponse, shutdownRequested, ghosts,
          store, cached>>

Tag(d, codings) == [data |-> d, codings |-> codings]

Blank == [status |-> "ok", kind |-> "regular", version |-> "1.0", etag |-> {},
          contentEncoding |-> "", body |-> Tag(0, <<>>), size |-> "empty",
          compressible |-> FALSE, vary |-> <<>>, cacheControl |-> <<>>,
          connection |-> <<>>, keepAlive |-> {}, contentLength |-> {}, chunked |-> FALSE]

NoRequest == [head |-> FALSE, version |-> <<>>, headers |-> <<>>, accept |-> {},
              gzip |-> FALSE, ifNoneMatch |-> {}]

TypeOK ==
    /\ pc \in {"idle", "parsed", "handled", "sent", "closed"}
    /\ data \in 0 .. MaxData
    /\ itsHeadRequest \in BOOLEAN /\ itsKeepAlive \in BOOLEAN /\ shutdownRequested \in BOOLEAN
    /\ itsResponseVersion \in {"1.0", "1.1"} /\ itsRequestCount \in Nat
    /\ DOMAIN itsResponse = DOMAIN Blank /\ DOMAIN answer = DOMAIN Blank
    /\ \A n \in promised : n \in Nat
    /\ Cardinality(store) <= MaxStored /\ Cardinality(cached) <= 1

Init ==
    /\ pc = "idle" /\ data = 0 /\ request = NoRequest
    /\ itsHeadRequest = FALSE /\ itsResponseVersion = "1.0" /\ itsKeepAlive = FALSE
    /\ itsRequestCount = 0
    /\ itsResponse = Blank /\ answer = Blank /\ delivered = <<>>
    /\ shutdownRequested = FALSE /\ promised = {}
    /\ store = {} /\ cached = {}

-----------------------------------------------------------------------------
(* The request.                                                            *)

hasHeaderToken(value, token) == \E e \in ToSet(value) : Lower(e) = token

\* A version is <<major, minor>>, or empty when it has no such numbers.
negotiateVersion_AsAsked(version) ==
    CASE version \in {<<>>, <<1, 0>>} -> "1.0" [] version = <<1, 1>> -> "1.1" [] OTHER -> "2.0"
negotiateVersion(version) ==
    IF version # <<>> /\ (version[1] > 1 \/ (version[1] = 1 /\ version[2] >= 1))
    THEN "1.1" ELSE "1.0"

removeHeaders(headers, names) ==
    LET gone == {Lower(n) : n \in names}
    IN  Restrict(headers, {n \in DOMAIN headers : Lower(n) \notin gone})

setHeader(headers, name, value) ==
    [n \in DOMAIN headers \cup {name} |-> IF n = name THEN value ELSE headers[n]]

hopByHop == {"Connection", "Keep-Alive", "Proxy-Connection", "Proxy-Authenticate",
             "Proxy-Authorization", "TE", "Trailer"}

Elements(headers, name) == IF name \in DOMAIN headers THEN headers[name] ELSE <<>>

\* What the Connection header names is of this hop too.
stripHopByHopHeaders(headers) ==
    removeHeaders(headers, hopByHop \cup ToSet(Elements(headers, "Connection")))

evaluateKeepAlive(headers, version, count) ==
    /\ itsKeepAliveEnabled
    /\ ~shutdownRequested
    /\ MaxKeepAliveRequests = 0 \/ count < MaxKeepAliveRequests
    /\ CASE version = "1.1" -> ~hasHeaderToken(Elements(headers, "Connection"), "close")
         [] version = "1.0" /\ "Connection" \in DOMAIN headers ->
                hasHeaderToken(headers["Connection"], "keep-alive")
         [] OTHER -> hasHeaderToken(Elements(headers, "Proxy-Connection"), "keep-alive")

\* The method of the client is told to the handler, and believed from nobody else.
handedOn_StripLast(r) ==
    LET own == removeHeaders(r.headers, {"X-SmartMet-Original-Method"})
    IN  stripHopByHopHeaders(
            IF r.head THEN setHeader(own, "X-SmartMet-Original-Method", <<"HEAD">>) ELSE own)
handedOn(r) ==
    LET own == removeHeaders(stripHopByHopHeaders(r.headers), {"X-SmartMet-Original-Method"})
    IN  IF r.head THEN setHeader(own, "X-SmartMet-Original-Method", <<"HEAD">>) ELSE own

-----------------------------------------------------------------------------
(* The response.                                                           *)

statusHasNoBody(r) == r.status \in {"no_content", "not_modified"}

\* Spine: the first coding offered that the request accepts.
selectContentEncoding(req) ==
    LET Usable == {i \in 1 .. Len(Codings) : Codings[i] \in req.accept}
    IN  IF Usable = {} THEN "" ELSE Codings[CHOOSE i \in Usable : \A j \in Usable : i <= j]

select_content_encoding_Stacked(req, r) ==
    IF ~r.compressible THEN ""
    ELSE IF req.gzip THEN "gzip"
    ELSE IF r.size = "large" THEN selectContentEncoding(req) ELSE ""
select_content_encoding(req, r) ==
    IF r.contentEncoding # "" \/ ~r.compressible THEN ""
    ELSE IF req.gzip THEN "gzip"
    ELSE IF r.size = "large" THEN selectContentEncoding(req)
    ELSE ""                                 \* shorter than itsCompressLimit

contentCodedETag(tag, encoding) == Tag(tag.data, Append(tag.codings, encoding))

compress_response_SameTag(r, encoding) ==
    [r EXCEPT !.contentEncoding = encoding, !.body.codings = Append(@, encoding)]
compress_response(r, encoding) ==
    [r EXCEPT !.contentEncoding = encoding,
              !.body.codings = Append(@, encoding),
              !.etag = {contentCodedETag(t, encoding) : t \in @}]

\* Spine: the tags of If-None-Match that name these data in a coding the request accepts.
matching(req, d) == {t \in req.ifNoneMatch : t.data = d /\ ToSet(t.codings) \subseteq req.accept}

notModifiedETag(req, tag) ==
    LET held == matching(req, tag.data) IN IF held = {} THEN tag ELSE CHOOSE t \in held : TRUE

\* itsCanGzipResponse is set; a streamed response comes here only for HEAD.
encode(req, r) ==
    LET encoding == select_content_encoding(req, r)
    IN  IF r.kind # "regular" \/ encoding = "" THEN r ELSE compress_response(r, encoding)

nameHeldVariant_DataTag(req, r) == r
nameHeldVariant(req, r) ==
    IF r.status # "not_modified" THEN r
    ELSE [r EXCEPT !.etag = {notModifiedETag(req, t) : t \in @}]

frame(head, r) ==
    CASE statusHasNoBody(r) -> [r EXCEPT !.size = "empty", !.contentLength = {}, !.chunked = FALSE]
      [] ~statusHasNoBody(r) /\ head /\ r.kind = "chunked" ->
             [r EXCEPT !.contentLength = {}, !.chunked = FALSE]
      [] OTHER -> [r EXCEPT !.contentLength = {<<r.size, r.body>>}]

startRegularReply_HeadPlain(req, head, r) ==
    frame(head, nameHeldVariant(req, IF head THEN r ELSE encode(req, r)))
startRegularReply(req, head, r) == frame(head, nameHeldVariant(req, encode(req, r)))

startChunkedReply(r) == [r EXCEPT !.chunked = TRUE, !.contentLength = {}]
startStreamReply(r)  == [r EXCEPT !.contentLength = {<<r.size, r.body>>}]

\* Vary of setServerHeaders; the element is looked for whatever its case.
setVary(r) ==
    IF hasHeaderToken(r.vary, "accept-encoding") THEN r
    ELSE [r EXCEPT !.vary = Append(@, "Accept-Encoding")]

\* itsKeepAlive after setConnectionHeaders.
keepsAlive(r) ==
    /\ itsKeepAlive
    /\ r.kind = "chunked" => itsResponseVersion = "1.1"
    /\ ~hasHeaderToken(r.connection, "close")

\* Spine makes a chunked response HTTP/1.1.
setVersion_Fixed(r) == [r EXCEPT !.version = IF r.kind = "chunked" THEN "1.1" ELSE "1.0"]
setVersion(r) == [r EXCEPT !.version = IF r.kind = "chunked" THEN "1.1" ELSE itsResponseVersion]

Remaining_OneMore == IF MaxKeepAliveRequests = 0 THEN {}
                     ELSE {MaxKeepAliveRequests - itsRequestCount + 1}
Remaining == IF MaxKeepAliveRequests = 0 THEN {} ELSE {MaxKeepAliveRequests - itsRequestCount}

setConnectionHeaders(r) ==
    CASE ~keepsAlive(r) -> [r EXCEPT !.connection = <<"close">>, !.keepAlive = {}]
      [] keepsAlive(r) /\ itsResponseVersion = "1.1" ->
             [r EXCEPT !.connection = <<>>, !.keepAlive = {}]
      [] OTHER -> [r EXCEPT !.connection = <<"keep-alive">>, !.keepAlive = Remaining]

appendStaleDirectives_Always(r) ==
    IF "max-age" \notin ToSet(r.cacheControl) THEN r
    ELSE [r EXCEPT !.cacheControl = @ \o StaleDirectives]
appendStaleDirectives(r) ==
    IF "max-age" \notin ToSet(r.cacheControl) \/ ToSet(r.cacheControl) \cap Stale # {} THEN r
    ELSE [r EXCEPT !.cacheControl = @ \o StaleDirectives]

setServerHeaders(r) == appendStaleDirectives(setConnectionHeaders(setVersion(setVary(r))))

\* The reply paths of handleCompletedRead.
written(req, head, r) ==
    LET s == setServerHeaders(r)
    IN  CASE head \/ r.kind = "regular"       -> startRegularReply(req, head, s)
          [] ~head /\ r.kind = "chunked"      -> startChunkedReply(s)
          [] OTHER                            -> startStreamReply(s)

-----------------------------------------------------------------------------
(* One connection and the client on it.                                    *)

\* The client asks, naming any of what it holds.
sendRequest ==
    /\ pc = "idle"
    /\ \E r \in Requests, held \in SUBSET {s.etag : s \in store} :
           request' = [head |-> r.head, version |-> r.version, headers |-> r.headers,
                       accept |-> r.accept, gzip |-> r.gzip, ifNoneMatch |-> UNION held]
    /\ pc' = "parsed"
    /\ UNCHANGED <<data, connection, itsResponse, shutdownRequested, ghosts, store, cached>>

\* handleParsedRequest up to the choice of the handler.
negotiated ==
    /\ pc = "parsed"
    /\ itsRequestCount' = itsRequestCount + 1
    /\ itsResponseVersion' = negotiateVersion(request.version)

handleParsedRequest ==
    /\ negotiated
    /\ itsResponseVersion' = "1.1" => "Host" \in DOMAIN request.headers
    /\ itsKeepAlive' =
           evaluateKeepAlive(request.headers, itsResponseVersion', itsRequestCount')
    /\ itsHeadRequest' = request.head
    /\ delivered' = handedOn(request)
    /\ pc' = "handled"
    /\ UNCHANGED <<data, request, itsResponse, shutdownRequested, answer, promised,
                   store, cached>>

\* A request of HTTP/1.1 without Host is answered with a stock reply, and closed.
missingHost ==
    /\ negotiated
    /\ itsResponseVersion' = "1.1" /\ "Host" \notin DOMAIN request.headers
    /\ itsKeepAlive' = FALSE
    /\ itsResponse' = [Blank EXCEPT !.status = "bad_request", !.vary = <<"Accept-Encoding">>,
                                    !.version = "1.1", !.connection = <<"close">>,
                                    !.contentLength = {<<"empty", Blank.body>>}]
    /\ pc' = "sent"
    /\ UNCHANGED <<data, request, itsHeadRequest, shutdownRequested, ghosts, store, cached>>

reply(r) ==
    /\ pc = "handled"
    /\ answer' = r
    /\ itsKeepAlive' = keepsAlive(r)
    /\ itsResponse' = written(request, itsHeadRequest, r)
    /\ pc' = "sent"
    /\ UNCHANGED <<data, request, itsHeadRequest, itsResponseVersion, itsRequestCount,
                   shutdownRequested, delivered, promised, store, cached>>

\* The handler answers with the data, or 304 if the client holds them.
produce == \E a \in Answers :
    IF matching(request, data) # {}
    THEN reply([Blank EXCEPT !.status = "not_modified", !.etag = {Tag(data, <<>>)},
                             !.vary = a.vary, !.compressible = TRUE,
                             !.cacheControl = a.cacheControl, !.connection = a.connection])
    ELSE reply([Blank EXCEPT !.kind = a.kind, !.size = a.size, !.body = Tag(data, <<>>),
                             !.etag = {Tag(data, <<>>)}, !.compressible = a.compressible,
                             !.vary = a.vary, !.cacheControl = a.cacheControl,
                             !.connection = a.connection])

\* The frontend's cache holds every coding side by side.
replay == \E r \in cached :
    /\ ToSet(r.body.codings) \subseteq request.accept
    /\ reply([r EXCEPT !.kind = "regular"])

\* No handler, high load, a full queue: nothing of a handler is in the response.
sendStockReply ==
    reply([Blank EXCEPT !.status = "service_unavailable", !.size = "small",
                        !.contentLength = {<<"small", Blank.body>>}])

-----------------------------------------------------------------------------

\* RFC 9112 9.3, as the client that sent the request applies it.
clientPersists ==
    /\ ~hasHeaderToken(itsResponse.connection, "close")
    /\ \/ negotiateVersion(request.version) = "1.1" /\ itsResponse.version = "1.1"
       \/ hasHeaderToken(itsResponse.connection, "keep-alive")

HasContent(r) == r.status = "ok"

Representation(r) ==
    [etag |-> r.etag, contentEncoding |-> r.contentEncoding, body |-> r.body]

\* The frontend stores the headers verbatim, but for those of the hop.
Verbatim(r) == [r EXCEPT !.connection = <<>>, !.keepAlive = {}, !.version = "1.0",
                         !.contentLength = {}, !.chunked = FALSE]

\* What is kept next: the old, or with the new, as far as there is room.
Kept(old, new, room) ==
    IF ~HasContent(itsResponse) \/ itsHeadRequest THEN {old}
    ELSE {k \in SUBSET (old \cup {new}) : k = old \/ (new \in k /\ Cardinality(k) <= room)}

\* resetForNextRequest leaves nothing of the request and its response.
receive ==
    /\ pc = "sent"
    /\ store'  \in Kept(store, Representation(itsResponse), MaxStored)
    /\ cached' \in Kept(cached, Verbatim(itsResponse), 1)
    /\ promised' = IF itsResponse.keepAlive # {} THEN itsResponse.keepAlive
                   ELSE {n - 1 : n \in {m \in promised : m > 0}}
    /\ pc' = IF clientPersists THEN "idle" ELSE "closed"
    /\ request' = NoRequest /\ itsResponse' = Blank /\ itsKeepAlive' = FALSE
    /\ itsHeadRequest' = FALSE /\ itsResponseVersion' = "1.0"
    /\ delivered' = <<>> /\ answer' = Blank
    /\ UNCHANGED <<data, itsRequestCount, shutdownRequested>>

\* The client connects again.
connect ==
    /\ pc = "closed" /\ ~shutdownRequested
    /\ pc' = "idle" /\ itsRequestCount' = 0 /\ promised' = {}
    /\ UNCHANGED <<data, request, itsHeadRequest, itsResponseVersion, itsKeepAlive, itsResponse,
                   shutdownRequested, delivered, answer, store, cached>>

dataChange ==
    /\ data < MaxData /\ data' = data + 1
    /\ UNCHANGED <<pc, request, connection, itsResponse, shutdownRequested, ghosts,
                   store, cached>>

shutdown ==
    /\ ~shutdownRequested /\ shutdownRequested' = TRUE
    /\ UNCHANGED <<pc, data, request, connection, itsResponse, ghosts, store, cached>>

Next ==
    \/ sendRequest \/ handleParsedRequest \/ missingHost
    \/ produce \/ replay \/ sendStockReply
    \/ receive \/ connect \/ dataChange \/ shutdown

Spec == Init /\ [][Next]_vars

-----------------------------------------------------------------------------

\* The client reads from the response whether the connection stays open as the server
\* decided it: setConnectionHeaders and the version of the response.
AgreeOnReuse == pc = "sent" => (itsKeepAlive <=> clientPersists)

\* A client of HTTP/1.0 asks in Proxy-Connection only if it has no Connection header.
asksToKeep ==
    LET name == IF "Connection" \in DOMAIN request.headers THEN "Connection"
                ELSE "Proxy-Connection"
    IN  hasHeaderToken(Elements(request.headers, name), "keep-alive")

\* A client told how many more requests it may send is not closed on before, but for a
\* reason of its own, of the handler or of the shutdown: the max of the Keep-Alive header
\* in setConnectionHeaders, and the count of evaluateKeepAlive.
PromiseIsKept ==
    pc = "sent" /\ ~itsKeepAlive /\ (\E n \in promised : n > 1) =>
        \/ shutdownRequested
        \/ itsResponse.status = "bad_request"
        \/ hasHeaderToken(Elements(request.headers, "Connection"), "close")
        \/ hasHeaderToken(answer.connection, "close")
        \/ itsResponseVersion = "1.0" /\
               \/ answer.kind = "chunked"
               \/ ~asksToKeep

\* Both ends know whether the connection persists, and for how long:
\* setConnectionHeaders and evaluateKeepAlive.
PersistenceIsAgreed == TypeOK /\ AgreeOnReuse /\ PromiseIsKept

\* The same entity-tag means the same bytes (HTTP-Client-Guide.md:377), whichever server
\* coded them and whenever they were received: compress_response.
TagNamesBytes == \A r, s \in store \cup cached : r.etag = s.etag => r.body = s.body

\* What a client gets by undoing the coding that Content-Encoding names is the data, also
\* when the response passed two servers: select_content_encoding.
DecodesOnce ==
    \A r \in store \cup cached :
        r.body.codings = IF r.contentEncoding = "" THEN <<>> ELSE <<r.contentEncoding>>

\* A 304 names a representation that the client holds, can use and has the data that the
\* handler confirmed: the entity-tag of a 304 in startRegularReply.
NotModifiedNamesHeld ==
    pc = "sent" /\ itsResponse.status = "not_modified" =>
        \E s \in store : /\ s.etag = itsResponse.etag
                         /\ \A t \in answer.etag : s.body.data = t.data
                         /\ ToSet(s.body.codings) \subseteq request.accept

\* A tag means one thing to server, client and caches: compress_response and
\* startRegularReply.
TagsAreTrue == TagNamesBytes /\ NotModifiedNamesHeld

\* No element of Vary or Cache-Control is doubled by a second server on the way:
\* setServerHeaders and appendStaleDirectives.
NothingDoubled ==
    pc = "sent" => IsInjective(itsResponse.vary) /\ IsInjective(itsResponse.cacheControl)

\* What a server has applied to a response the next one does not apply again: the coding,
\* Vary, the stale directives.
AppliedOnce == DecodesOnce /\ NothingDoubled

\* The answer to HEAD has the header section of the answer to GET, but for the framing of a
\* stream of unknown length: the branch for HEAD in handleCompletedRead, startRegularReply.
HeadDescribesGet ==
    pc = "sent" /\ itsHeadRequest /\ itsResponse.status # "bad_request" =>
        itsResponse = [written(request, FALSE, answer) EXCEPT !.chunked = FALSE]

\* The handler sees no header of the client's hop, and the method of the client just as it
\* was: stripHopByHopHeaders and the X-SmartMet-Original-Method header.
OneHopOnly ==
    LET named == {Lower(n) : n \in hopByHop \cup ToSet(Elements(request.headers, "Connection"))}
        own   == "X-SmartMet-Original-Method"
    IN  pc = "handled" =>
            /\ \A n \in DOMAIN delivered \ {own} : Lower(n) \notin named \cup {Lower(own)}
            /\ own \in DOMAIN delivered <=> request.head

\* The handler sees the request as the client meant it for the end of the way, HEAD
\* included, and the client of a HEAD what it would get: handleParsedRequest.
RequestMeansTheSame == OneHopOnly /\ HeadDescribesGet

=============================================================================
