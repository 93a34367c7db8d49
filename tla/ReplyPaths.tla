------------------------------ MODULE ReplyPaths ------------------------------
(***************************************************************************)
(* How one connection writes its responses, and what the client makes of   *)
(* them: the reply paths of source/AsyncConnection.cpp, from               *)
(* handleCompletedRead to finishResponse.  One response is in flight at a  *)
(* time (OneRequestInFlight of AsyncConnection), so the steps are          *)
(* sequential; what varies is the plugin's answer, the streamer, how much  *)
(* of a string one async_write_some takes, the pool's queue and the        *)
(* client, which may go at any point.                                      *)
(*                                                                         *)
(* What is written is a sequence of tokens: a header section, a byte of    *)
(* content, or a chunk's size line (0 is the terminating chunk).  The      *)
(* client is the reader an HTTP library has: it finds the end of each      *)
(* message from the framing the header section announces.                  *)
(***************************************************************************)
EXTENDS Naturals, SequencesExt

CONSTANTS
    MaxBody,       \* bound: bytes of content one response may have
    QueueMayFill   \* whether a pool's task queue can be full in mid-body

ASSUME ReplyAssumption == MaxBody \in Nat \ {0} /\ QueueMayFill \in BOOLEAN

Lengths == 0 .. MaxBody

\* A request: its method and version, and whether persistence was negotiated.
Request == [head : BOOLEAN, v11 : BOOLEAN, persistent : BOOLEAN]

\* A plugin's answer.  "chunked" and "stream" come from a streamer, of unknown and
\* of announced length; status 1xx, 204 and 304 have no body; a backend's answer is
\* reported to the health hooks.  "stock" is written by the server itself.
Answer == [kind : {"regular", "stream", "chunked", "gateway", "stock"},
           length : Lengths, hasBody : BOOLEAN, backend : BOOLEAN]

Statuses == {"OK", "EXIT_OK", "EXIT_ERROR"}

VARIABLES
    pc,                \* the handler that runs next
    request, itsResponse,
    itsKeepAlive,
    itsResponseString, itsSentBytes,
    itsPendingHeaders,
    itsTotalStreamedBytes, itsDeclaredContentLength,
    itsBackendNotified,
    client,            \* the client's reader
    clientOpen,
    produced,          \* content bytes taken from the plugin for this response
    streamStatus,      \* status the streamer showed last
    queueFull,         \* the response was broken off by a full queue
    logged,            \* sizes written to the access log for this response
    notified           \* outcomes told to the health hooks for this response

writeVars  == <<itsResponseString, itsSentBytes, itsPendingHeaders>>
countVars  == <<itsTotalStreamedBytes, itsDeclaredContentLength>>
clientVars == <<client, clientOpen>>
ghostVars  == <<produced, streamStatus, queueFull>>
hookVars   == <<itsBackendNotified, logged, notified>>
vars == <<pc, request, itsResponse, itsKeepAlive, writeVars, countVars, clientVars,
          ghostVars, hookVars>>

-----------------------------------------------------------------------------
(* Tokens, and the client that reads them.                                 *)

HeaderSection(framing, length, persistent) ==
    [type |-> "head", framing |-> framing, length |-> length, persistent |-> persistent]
Chunk(size) == [type |-> "chunk", framing |-> "", length |-> size, persistent |-> FALSE]
Byte        == [type |-> "byte", framing |-> "", length |-> 0, persistent |-> FALSE]
Content(n)  == [i \in 1 .. n |-> Byte]

Modes == {"boundary", "length", "chunks", "close", "lost"}

\* Where the reader is, bytes to go in the body or chunk, content bytes read and
\* messages completed for the current request, and the announced persistence.
Fresh == [mode |-> "boundary", left |-> 0, body |-> 0, messages |-> 0, persistent |-> FALSE]

Complete(c) == [c EXCEPT !.mode = "boundary", !.left = 0, !.messages = @ + 1]

\* RFC 9112 6.3, as a client applies it to the answer of the request it sent.
AfterHead(c, h) ==
    LET d == [c EXCEPT !.persistent = h.persistent]
    IN  IF request.head \/ ~itsResponse.hasBody THEN Complete(d)
        ELSE CASE h.framing = "chunked" /\ request.v11  -> [d EXCEPT !.mode = "chunks"]
               [] h.framing = "length" /\ h.length = 0  -> Complete(d)
               [] h.framing = "length" /\ h.length > 0  -> [d EXCEPT !.mode = "length",
                                                                     !.left = h.length]
               [] OTHER                                 -> [d EXCEPT !.mode = "close"]

\* One more byte of a counted body or of a chunk, whatever it was meant to be.
Consume(c) == [c EXCEPT !.left = @ - 1, !.body = @ + 1]

Lost(c) == [c EXCEPT !.mode = "lost", !.left = 0]

Feed(c, token) ==
    CASE c.mode = "boundary" /\ token.type = "head" -> AfterHead(c, token)
      [] c.mode = "length" /\ c.left = 1            -> Complete(Consume(c))
      [] c.mode = "length" /\ c.left > 1            -> Consume(c)
      [] c.mode = "chunks" /\ c.left > 0            -> Consume(c)
      [] c.mode = "chunks" /\ c.left = 0 /\ token.type = "chunk" ->
             IF token.length = 0 THEN Complete(c) ELSE [c EXCEPT !.left = token.length]
      [] c.mode = "close"                           -> [c EXCEPT !.body = @ + 1]
      [] OTHER                                      -> Lost(c)

Read(tokens) == FoldLeft(Feed, client, tokens)

-----------------------------------------------------------------------------

Streamed == itsResponse.kind \in {"stream", "chunked", "gateway"}

TypeOK ==
    /\ pc \in {"idle", "parsed", "start", "getNextChunk", "getNextChunkedChunk",
               "writeRegularReply", "writeStreamReply", "writeChunkedReply",
               "finalizeChunkedReply", "sendStockReply", "finishResponse", "closed"}
    /\ request \in Request /\ itsResponse \in Answer
    /\ itsKeepAlive \in BOOLEAN /\ itsBackendNotified \in BOOLEAN
    /\ itsSentBytes \in 0 .. Len(itsResponseString) /\ Len(itsPendingHeaders) <= 1
    /\ itsTotalStreamedBytes \in Nat /\ itsDeclaredContentLength \in Lengths
    /\ client.mode \in Modes /\ client.left \in Lengths
    /\ clientOpen \in BOOLEAN /\ queueFull \in BOOLEAN
    /\ produced \in Lengths /\ streamStatus \in Statuses
    /\ Len(logged) <= 1 /\ Len(notified) <= 1

NoRequest == [head |-> FALSE, v11 |-> FALSE, persistent |-> FALSE]
Unset     == [kind |-> "stock", length |-> 0, hasBody |-> TRUE, backend |-> FALSE]

Init ==
    /\ pc = "idle" /\ request = NoRequest /\ itsResponse = Unset
    /\ itsKeepAlive = FALSE
    /\ itsResponseString = <<>> /\ itsSentBytes = 0 /\ itsPendingHeaders = <<>>
    /\ itsTotalStreamedBytes = 0 /\ itsDeclaredContentLength = 0
    /\ itsBackendNotified = FALSE
    /\ client = Fresh /\ clientOpen = TRUE
    /\ produced = 0 /\ streamStatus = "OK" /\ queueFull = FALSE
    /\ logged = <<>> /\ notified = <<>>

-----------------------------------------------------------------------------
(* Helpers of the handlers.                                                *)

Goto(from, to) == pc = from /\ pc' = to

\* The completion handler of the response removes itself when it has run.
finalizeStreamLogging ==
    logged' = IF Streamed /\ logged = <<>> THEN <<itsTotalStreamedBytes>> ELSE logged

notifyBackendFinished(status) ==
    IF itsBackendNotified \/ ~itsResponse.backend
    THEN UNCHANGED <<itsBackendNotified, notified>>
    ELSE itsBackendNotified' = TRUE /\ notified' = Append(notified, status)

\* A blocking write of everything, which fails only if the client is gone.
write(tokens) == client' = Read(tokens)

startWrite_SentKept(string, handler) ==
    /\ pc' = handler
    /\ itsResponseString' = string /\ UNCHANGED itsSentBytes
\* The string is handed to async_write_some; its completion handler comes next.
startWrite(string, handler) ==
    /\ pc' = handler
    /\ itsResponseString' = string /\ itsSentBytes' = 0

\* The completion handler of async_write_some, which took n tokens of the rest.
Sent(n) == SubSeq(itsResponseString, itsSentBytes + 1, itsSentBytes + n)
Rest    == Len(itsResponseString) - itsSentBytes
WrittenPart(handler) ==
    /\ pc = handler
    /\ \E n \in 1 .. Rest - 1 : write(Sent(n)) /\ itsSentBytes' = itsSentBytes + n
    /\ UNCHANGED <<pc, request, itsResponse, itsKeepAlive, itsResponseString,
                   itsPendingHeaders, countVars, clientOpen, ghostVars, hookVars>>
WrittenAll == write(Sent(Rest)) /\ itsSentBytes' = itsSentBytes + Rest

-----------------------------------------------------------------------------
(* The client, and the steps before the plugin is called.                  *)

ClientClose ==
    /\ clientOpen /\ clientOpen' = FALSE
    /\ UNCHANGED <<pc, request, itsResponse, itsKeepAlive, writeVars, countVars, client,
                   ghostVars, hookVars>>

\* handleParsedRequest: the next request, from a client that has kept its place.
\* The ghosts of the response before it are forgotten.
handleParsedRequest ==
    /\ Goto("idle", "parsed")
    /\ client.mode = "boundary"
    /\ request' \in Request
    /\ itsKeepAlive' = request'.persistent
    /\ itsResponse' = Unset
    /\ client' = Fresh
    /\ produced' = 0 /\ streamStatus' = "OK" /\ queueFull' = FALSE
    /\ logged' = <<>> /\ notified' = <<>>
    /\ UNCHANGED <<writeVars, countVars, clientOpen, itsBackendNotified>>

\* The connection ends while idle: a timeout, a read error, the shutdown.
closeIdle ==
    /\ Goto("idle", "closed")
    /\ UNCHANGED <<request, itsResponse, itsKeepAlive, writeVars, countVars, clientVars,
                   ghostVars, hookVars>>

\* OPTIONS *, no handler, high load, a full queue, a refused plugin.
replyWithStock ==
    /\ Goto("parsed", "sendStockReply")
    /\ UNCHANGED <<request, itsResponse, itsKeepAlive, writeVars, countVars, clientVars,
                   ghostVars, hookVars>>

StockLength == 1  \* its bytes of content, of which there always are some

\* sendStockReply and sendSimpleReply write header section and content, whatever the
\* method of the request was.
sendStockReply ==
    /\ pc = "sendStockReply"
    /\ \/ /\ write(<<HeaderSection("length", StockLength, itsKeepAlive)>>
                       \o Content(StockLength))
          /\ pc' = IF itsKeepAlive THEN "finishResponse" ELSE "closed"
          /\ UNCHANGED itsKeepAlive
       \/ /\ ~clientOpen
          /\ pc' = "closed" /\ itsKeepAlive' = FALSE
          /\ UNCHANGED client
    /\ UNCHANGED <<request, itsResponse, writeVars, countVars, clientOpen, ghostVars,
                   hookVars>>

finishResponse_NotifiedKept ==
    /\ pc = "finishResponse"
    /\ \/ /\ itsKeepAlive
          /\ pc' = "idle" /\ itsKeepAlive' = FALSE
          /\ itsResponseString' = <<>> /\ itsSentBytes' = 0
          /\ itsTotalStreamedBytes' = 0 /\ itsDeclaredContentLength' = 0
          /\ UNCHANGED itsBackendNotified
       \/ pc' = "closed" /\ UNCHANGED <<itsKeepAlive, itsResponseString, itsSentBytes,
                                        countVars, itsBackendNotified>>
    /\ UNCHANGED <<request, itsResponse, itsPendingHeaders, clientVars, ghostVars, logged,
                   notified>>
\* The per-request state is reset for reuse (the new response is taken by
\* handleParsedRequest), or the connection is left to the destructor: because it is
\* not persistent, has timed out or the server is shutting down.
finishResponse ==
    /\ pc = "finishResponse"
    /\ \/ /\ itsKeepAlive
          /\ pc' = "idle" /\ itsKeepAlive' = FALSE
          /\ itsResponseString' = <<>> /\ itsSentBytes' = 0
          /\ itsTotalStreamedBytes' = 0 /\ itsDeclaredContentLength' = 0
          /\ itsBackendNotified' = FALSE
       \/ pc' = "closed" /\ UNCHANGED <<itsKeepAlive, itsResponseString, itsSentBytes,
                                        countVars, itsBackendNotified>>
    /\ UNCHANGED <<request, itsResponse, itsPendingHeaders, clientVars, ghostVars, logged,
                   notified>>

-----------------------------------------------------------------------------
(* The plugin's answer, and the first step of its reply path.              *)

\* A gateway response is a backend's.
PluginAnswer(a) == a.kind # "stock" /\ (a.kind = "gateway" => a.backend)

\* A chunked answer to HTTP/1.0 and a plugin's Connection: close end persistence; what
\* is left of itsKeepAlive is announced in the header section.
setConnectionHeaders(chunked, vetoed) ==
    itsKeepAlive' = (itsKeepAlive /\ (chunked => request.v11) /\ ~vetoed)

\* handleCompletedRead after the plugin has returned.  setServerHeaders runs on every
\* path but the gateway's.
handleCompletedRead ==
    /\ pc = "parsed"
    /\ \E a \in Answer, vetoed \in BOOLEAN :
          /\ PluginAnswer(a)
          /\ itsResponse' = a
          /\ IF a.kind = "gateway" /\ ~request.head
             THEN UNCHANGED itsKeepAlive
             ELSE setConnectionHeaders(a.kind = "chunked", vetoed)
    /\ pc' = "start"
    /\ UNCHANGED <<request, writeVars, countVars, clientVars, ghostVars, hookVars>>

\* An exception on the way to the first write ends the connection without an answer.
replyAborted ==
    /\ pc \in {"parsed", "start"} /\ pc' = "closed"
    /\ UNCHANGED <<request, itsResponse, itsKeepAlive, writeVars, countVars, clientVars,
                   ghostVars, hookVars>>

\* The header section of a buffered response, or of any response to HEAD.
RegularFraming == IF ~itsResponse.hasBody \/ (request.head /\ itsResponse.kind = "chunked")
                  THEN "none" ELSE "length"

startRegularReply ==
    /\ pc = "start"
    /\ request.head \/ itsResponse.kind = "regular"
    /\ LET size == IF request.head \/ ~itsResponse.hasBody THEN 0 ELSE itsResponse.length
       IN  /\ startWrite(<<HeaderSection(RegularFraming, itsResponse.length, itsKeepAlive)>>
                             \o Content(size), "writeRegularReply")
           /\ produced' = size
    /\ UNCHANGED <<request, itsResponse, itsKeepAlive, itsPendingHeaders, countVars,
                   clientVars, streamStatus, queueFull, hookVars>>

startChunkedReply ==
    /\ Goto("start", "getNextChunkedChunk")
    /\ ~request.head /\ itsResponse.kind = "chunked"
    /\ itsPendingHeaders' = <<HeaderSection("chunked", 0, itsKeepAlive)>>
    /\ UNCHANGED <<request, itsResponse, itsKeepAlive, itsResponseString, itsSentBytes,
                   countVars, clientVars, ghostVars, hookVars>>

startStreamReply ==
    /\ Goto("start", "getNextChunk")
    /\ ~request.head /\ itsResponse.kind = "stream"
    /\ itsDeclaredContentLength' = itsResponse.length
    /\ itsPendingHeaders' = <<HeaderSection("length", itsResponse.length, itsKeepAlive)>>
    /\ UNCHANGED <<request, itsResponse, itsKeepAlive, itsResponseString, itsSentBytes,
                   itsTotalStreamedBytes, clientVars, ghostVars, hookVars>>

startGatewayReply_Reusable ==
    /\ Goto("start", "getNextChunk")
    /\ ~request.head /\ itsResponse.kind = "gateway"
    /\ UNCHANGED <<request, itsResponse, itsKeepAlive, writeVars, countVars, clientVars,
                   ghostVars, hookVars>>
startGatewayReply ==
    /\ Goto("start", "getNextChunk")
    /\ ~request.head /\ itsResponse.kind = "gateway"
    /\ itsKeepAlive' = FALSE
    /\ UNCHANGED <<request, itsResponse, writeVars, countVars, clientVars, ghostVars,
                   hookVars>>

-----------------------------------------------------------------------------
(* The streamers: getNextChunk and getNextChunkedChunk.                    *)

Getters == {"getNextChunk", "getNextChunkedChunk"}

\* The streamer has n more bytes.  They are counted before they are written.
TakeContent(n) ==
    /\ produced + n <= MaxBody
    /\ produced' = produced + n
    /\ itsTotalStreamedBytes' = itsTotalStreamedBytes + n

\* A gateway's stream brings its own header section, here in front of the first bytes.
ForwardedHead == IF itsResponse.kind = "gateway" /\ produced = 0
                 THEN <<HeaderSection("length", itsResponse.length, FALSE)>> ELSE <<>>

getNextChunk ==
    /\ pc = "getNextChunk"
    /\ \E n \in Lengths \ {0} :
          /\ TakeContent(n)
          /\ startWrite(itsPendingHeaders \o ForwardedHead \o Content(n), "writeStreamReply")
    /\ itsPendingHeaders' = <<>>
    /\ UNCHANGED <<request, itsResponse, itsKeepAlive, itsDeclaredContentLength, clientVars,
                   streamStatus, queueFull, hookVars>>

getNextChunkedChunk ==
    /\ pc = "getNextChunkedChunk"
    /\ \E n \in Lengths \ {0} :
          /\ TakeContent(n)
          /\ startWrite(itsPendingHeaders \o <<Chunk(n)>> \o Content(n), "writeChunkedReply")
    /\ itsPendingHeaders' = <<>>
    /\ UNCHANGED <<request, itsResponse, itsKeepAlive, itsDeclaredContentLength, clientVars,
                   streamStatus, queueFull, hookVars>>

\* scheduleChunkGetter and scheduleChunkedChunkGetter: the getter is queued, or the
\* queue is full and the response is broken off with the busy reply.
scheduleGetter(getter) ==
    \/ pc' = getter /\ UNCHANGED <<itsKeepAlive, queueFull>>
    \/ /\ QueueMayFill
       /\ pc' = "sendStockReply"
       /\ itsKeepAlive' = FALSE /\ queueFull' = TRUE

\* flushPendingHeaders: they are written on their own.
flushPendingHeaders ==
    /\ write(itsPendingHeaders)
    /\ itsPendingHeaders' = <<>>

\* The streamer is not ready: the header section goes out and the getter is queued anew.
streamerNotReady ==
    /\ pc \in Getters
    /\ flushPendingHeaders
    /\ scheduleGetter(pc)
    /\ UNCHANGED <<request, itsResponse, itsResponseString, itsSentBytes, countVars,
                   clientOpen, produced, streamStatus, hookVars>>

\* The flush for a streamer that is not ready fails: nothing more happens to this
\* response.
flushFails ==
    /\ pc \in Getters
    /\ itsPendingHeaders # <<>> /\ ~clientOpen
    /\ pc' = "closed" /\ itsPendingHeaders' = <<>>
    /\ UNCHANGED <<request, itsResponse, itsKeepAlive, itsResponseString, itsSentBytes,
                   countVars, clientVars, ghostVars, hookVars>>

StreamDelivered_NotShort == itsTotalStreamedBytes >= itsDeclaredContentLength
\* As many bytes as announced.
StreamDelivered == itsTotalStreamedBytes = itsDeclaredContentLength

streamEnds ==
    /\ Goto("getNextChunk", "finishResponse")
    /\ flushPendingHeaders
    /\ streamStatus' \in {"EXIT_OK", "EXIT_ERROR"}
    /\ finalizeStreamLogging
    /\ notifyBackendFinished(streamStatus')
    /\ itsKeepAlive' = (itsKeepAlive /\ StreamDelivered)
    /\ UNCHANGED <<request, itsResponse, itsResponseString, itsSentBytes, countVars,
                   clientOpen, produced, queueFull>>

\* A stream that ended before its first bytes owes its header section.  If that
\* cannot be written getNextChunk returns: nothing is logged, no hook is told.
streamEndsUnsent ==
    /\ Goto("getNextChunk", "closed")
    /\ itsPendingHeaders # <<>> /\ ~clientOpen
    /\ itsPendingHeaders' = <<>>
    /\ streamStatus' \in {"EXIT_OK", "EXIT_ERROR"}
    /\ UNCHANGED <<request, itsResponse, itsKeepAlive, itsResponseString, itsSentBytes,
                   countVars, clientVars, produced, queueFull, hookVars>>

\* A failed chunked stream is left unterminated; the flush may fail, the close does not.
chunkedStreamFails ==
    /\ Goto("getNextChunkedChunk", "closed")
    /\ streamStatus' = "EXIT_ERROR"
    /\ notifyBackendFinished("EXIT_ERROR")
    /\ flushPendingHeaders \/ (~clientOpen /\ itsPendingHeaders' = <<>> /\ UNCHANGED client)
    /\ finalizeStreamLogging
    /\ itsKeepAlive' = FALSE
    /\ UNCHANGED <<request, itsResponse, itsResponseString, itsSentBytes, countVars,
                   clientOpen, produced, queueFull>>

chunkedStreamEnds_AnyExit ==
    /\ pc = "getNextChunkedChunk"
    /\ streamStatus' \in {"EXIT_OK", "EXIT_ERROR"}
    /\ notifyBackendFinished(streamStatus')
    /\ startWrite(itsPendingHeaders \o <<Chunk(0)>>, "finalizeChunkedReply")
    /\ itsPendingHeaders' = <<>>
    /\ UNCHANGED <<request, itsResponse, itsKeepAlive, countVars, clientVars, produced,
                   queueFull, logged>>
\* A complete one gets its terminating chunk.
chunkedStreamEnds ==
    /\ pc = "getNextChunkedChunk"
    /\ streamStatus' = "EXIT_OK"
    /\ notifyBackendFinished("EXIT_OK")
    /\ startWrite(itsPendingHeaders \o <<Chunk(0)>>, "finalizeChunkedReply")
    /\ itsPendingHeaders' = <<>>
    /\ UNCHANGED <<request, itsResponse, itsKeepAlive, countVars, clientVars, produced,
                   queueFull, logged>>

\* An exception of the plugin's streamer is reported and goes no further: no handler
\* follows, and the connection goes with its last owner, neither logged nor reported.
getterAborted ==
    /\ pc \in Getters /\ pc' = "closed"
    /\ UNCHANGED <<request, itsResponse, itsKeepAlive, writeVars, countVars, clientVars,
                   ghostVars, hookVars>>

-----------------------------------------------------------------------------
(* The completion handlers of async_write_some.                            *)

WriteHandlers == {"writeRegularReply", "writeStreamReply", "writeChunkedReply",
                  "finalizeChunkedReply"}

writtenPart == \E handler \in WriteHandlers : WrittenPart(handler)

writeRegularReply ==
    /\ Goto("writeRegularReply", "finishResponse")
    /\ WrittenAll
    /\ notifyBackendFinished("EXIT_OK")
    /\ UNCHANGED <<request, itsResponse, itsKeepAlive, itsResponseString,
                   itsPendingHeaders, countVars, clientOpen, ghostVars, logged>>

writeStreamReply ==
    /\ pc = "writeStreamReply"
    /\ WrittenAll
    /\ scheduleGetter("getNextChunk")
    /\ UNCHANGED <<request, itsResponse, itsResponseString, itsPendingHeaders, countVars,
                   clientOpen, produced, streamStatus, hookVars>>

writeChunkedReply ==
    /\ pc = "writeChunkedReply"
    /\ WrittenAll
    /\ scheduleGetter("getNextChunkedChunk")
    /\ UNCHANGED <<request, itsResponse, itsResponseString, itsPendingHeaders, countVars,
                   clientOpen, produced, streamStatus, hookVars>>

finalizeChunkedReply_LogLast ==
    /\ Goto("finalizeChunkedReply", "finishResponse")
    /\ WrittenAll
    /\ IF itsKeepAlive THEN UNCHANGED logged ELSE finalizeStreamLogging
    /\ UNCHANGED <<request, itsResponse, itsKeepAlive, itsResponseString,
                   itsPendingHeaders, countVars, clientOpen, ghostVars,
                   itsBackendNotified, notified>>
finalizeChunkedReply ==
    /\ Goto("finalizeChunkedReply", "finishResponse")
    /\ WrittenAll
    /\ finalizeStreamLogging
    /\ UNCHANGED <<request, itsResponse, itsKeepAlive, itsResponseString,
                   itsPendingHeaders, countVars, clientOpen, ghostVars,
                   itsBackendNotified, notified>>

\* The error branch the four handlers have: the stock reply cannot be written either,
\* so the socket is closed; a streamed response is logged, and a streaming backend
\* reported with whatever status the streamer has.
writeError ==
    /\ pc \in WriteHandlers
    /\ ~clientOpen
    /\ pc' = "closed" /\ itsKeepAlive' = FALSE
    /\ IF pc = "writeRegularReply" THEN UNCHANGED logged ELSE finalizeStreamLogging
    /\ IF pc \in {"writeStreamReply", "writeChunkedReply"}
       THEN \E status \in Statuses : notifyBackendFinished(status)
       ELSE UNCHANGED <<itsBackendNotified, notified>>
    /\ UNCHANGED <<request, itsResponse, writeVars, countVars, clientVars, ghostVars>>

-----------------------------------------------------------------------------
Terminated == pc = "closed" /\ UNCHANGED vars

Next ==
    \/ ClientClose \/ handleParsedRequest \/ closeIdle
    \/ replyWithStock \/ sendStockReply \/ finishResponse
    \/ handleCompletedRead \/ replyAborted
    \/ startRegularReply \/ startChunkedReply \/ startStreamReply \/ startGatewayReply
    \/ getNextChunk \/ getNextChunkedChunk
    \/ streamerNotReady \/ flushFails \/ getterAborted
    \/ streamEnds \/ streamEndsUnsent \/ chunkedStreamFails \/ chunkedStreamEnds
    \/ writtenPart \/ writeRegularReply \/ writeStreamReply \/ writeChunkedReply
    \/ finalizeChunkedReply \/ writeError
    \/ Terminated

Spec == Init /\ [][Next]_vars

-----------------------------------------------------------------------------
(* Properties.                                                             *)

\* The connection waits for the next request after this response.
Reused == pc = "idle" /\ request.persistent

Over == pc \in {"idle", "closed"}

\* Two answers whose framing the code does not keep, each with a property below.
StockToHead      == request.head /\ itsResponse.kind = "stock"
StreamedBodiless == ~request.head /\ ~itsResponse.hasBody
                        /\ itsResponse.kind \in {"stream", "chunked"}

\* A connection is reused only when the client has found exactly one message, ending
\* where the server believes it ends, and has the whole content: on every reply path,
\* for both versions and methods, however the writes are split.
ReuseInSync ==
    (Reused /\ ~StockToHead /\ ~StreamedBodiless) =>
        /\ client.mode = "boundary" /\ client.messages = 1
        /\ itsResponse.kind # "stock" => client.body = produced

\* Persistence is never a surprise: a connection the server goes on to read from was
\* announced as persistent in the header section the client got.
ReuseAnnounced == Reused => client.persistent

\* Server and client agree, from the bytes alone, on where the next response begins and
\* on whether there is one: finishResponse after every reply path.
ReuseIsAgreed == TypeOK /\ ReuseInSync /\ ReuseAnnounced

\* A chunked body that a client finds complete is the whole of what the streamer had,
\* and the streamer ended well; every truncation stays visible.
CompleteMeansWhole ==
    (itsResponse.kind = "chunked" /\ request.v11 /\ ~request.head /\ itsResponse.hasBody
         /\ client.messages >= 1) =>
        streamStatus = "EXIT_OK" /\ client.body = produced

\* The one stream whose end goes by unnoticed (streamEndsUnsent): a Content-Length
\* stream that ended without content, to a client that got nothing at all.
SilentStream == itsResponse.kind = "stream" /\ produced = 0 /\ client = Fresh

\* A streamed response that was pulled to its end has one access-log entry, with the
\* size of what the streamer gave, on every other path and although the response
\* object and the byte count are replaced for the next request.
StreamsAreLogged ==
    (Over /\ Streamed /\ streamStatus # "OK" /\ ~SilentStream) => logged = <<produced>>

\* The health hooks hear of a backend exactly once for every response after which the
\* connection is reused, and hear the real end of every stream but the silent one; it
\* is not hidden by the response before it on the same connection.
BackendOutcomeReported ==
    itsResponse.backend =>
        /\ Over /\ streamStatus # "OK" /\ ~SilentStream => notified = <<streamStatus>>
        /\ Reused => Len(notified) = 1

-----------------------------------------------------------------------------
(* What the sources say of the reply paths and the code does not keep.     *)

\* "the body is dropped when the reply is written" (handleParsedRequest, of HEAD):
\* also when the reply is a stock one and the connection is kept.
HeadHasNoBody == (Reused /\ StockToHead) => client.mode = "boundary"

\* "For 1xx, 204 and 304, the body and length headers are removed" (developer guide):
\* also for a streamed response.
BodilessHasNoBody == (Reused /\ StreamedBodiless) => client.mode = "boundary"

\* "Aborting in the middle of the body leaves the response unframed"
\* (scheduleChunkGetter): a body broken off by a full queue is not taken for complete.
AbortedBodyIsUnframed ==
    (queueFull /\ pc = "closed") => ~(client.messages = 1 /\ client.body # produced)

\* "The stream has ended, one way or the other. Tell the backend heartbeat hooks ...
\* the Content-Length stream path does the same in getNextChunk()"
\* (getNextChunkedChunk): also when the header section cannot be sent any more.
EveryEndIsReported ==
    (pc = "closed" /\ itsResponse.kind = "stream" /\ itsResponse.backend
         /\ streamStatus # "OK") => notified = <<streamStatus>>

=============================================================================
