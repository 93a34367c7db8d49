----------------------------- MODULE RequestInput -----------------------------
(***************************************************************************)
(* How one connection turns bytes into requests: handleRead,               *)
(* handleIncompleteRequest and handleExpectContinue of                     *)
(* source/AsyncConnection.cpp, with the limits and answers they have of    *)
(* their own (413, 431, 400, 417) and the interim 100.                     *)
(*                                                                         *)
(* The client sends a script of messages one after another, without        *)
(* waiting for the responses.  Bytes are cells: a message is a head of     *)
(* some cells, the last of which completes the blank line, and a body.     *)
(* sent, received and consumed are positions in that stream, so that       *)
(* itsBuffer is what lies between consumed and received.  A client that    *)
(* expects 100-continue holds its body back until it sees an answer.  Of a *)
(* malformed message the parser (smartmet-library-spine) finds out sooner  *)
(* or later, at the latest when it is all there.                           *)
(***************************************************************************)
EXTENDS Integers, Sequences

CONSTANTS
    Scripts,           \* the sequences of messages a client may send
    SocketBuffer,      \* cells one read delivers at most
    itsMaxHeaderSize,  \* 0 = unlimited
    itsMaxRequestSize  \* 0 = unlimited

MessageType == [version : {"1.0", "1.1"}, expect : {"", "100-continue", "other"},
                head : Nat \ {0}, body : Nat, malformed : BOOLEAN]

ASSUME InputAssumption ==
    /\ \A s \in Scripts : s \in Seq(MessageType) /\ s # <<>>
    /\ SocketBuffer \in Nat \ {0}
    /\ itsMaxHeaderSize \in Nat /\ itsMaxRequestSize \in Nat

VARIABLES
    script,            \* what this client sends
    sent,              \* cells it has sent
    received,          \* cells handleRead has appended to itsBuffer
    consumed,          \* cells of the messages parsed
    served,            \* messages parsed
    itsReceivedBytes,
    itsExpectHandled,
    pc,
    replies            \* what was written, with the message it answers

vars == <<script, sent, received, consumed, served, itsReceivedBytes, itsExpectHandled,
          pc, replies>>

Size(m) == m.head + m.body

\* The cells of the first k messages.
StartOf(k) == LET upTo[i \in 0 .. Len(script)] ==
                      IF i = 0 THEN 0 ELSE upTo[i - 1] + Size(script[i])
              IN  upTo[k]

Buffered  == received - consumed
Exhausted == served = Len(script)
Current   == script[served + 1]
Codes     == {"100", "200", "400", "413", "417", "431"}

TypeOK ==
    /\ script \in Scripts
    /\ sent \in 0 .. StartOf(Len(script))
    /\ received \in 0 .. sent /\ consumed \in 0 .. received
    /\ served \in 0 .. Len(script)
    /\ itsReceivedBytes \in Nat /\ itsExpectHandled \in BOOLEAN
    /\ pc \in {"read", "parse", "expect", "answer", "posted", "closed"}
    /\ replies \in Seq([to : 1 .. Len(script), code : Codes])

Init ==
    /\ script \in Scripts
    /\ sent = 0 /\ received = 0 /\ consumed = 0 /\ served = 0
    /\ itsReceivedBytes = 0 /\ itsExpectHandled = FALSE
    /\ pc = "read" /\ replies = <<>>

-----------------------------------------------------------------------------
(* The client.                                                             *)

Answered(k) == \E i \in DOMAIN replies : replies[i].to = k

\* It has sent the head of a message whose body it holds back.
Holding(k) ==
    /\ script[k].expect = "100-continue" /\ script[k].body > 0
    /\ sent = StartOf(k - 1) + script[k].head
    /\ ~Answered(k)

\* HTTP/1.1 entitles it to an answer meanwhile.
Held == \E k \in 1 .. Len(script) : Holding(k) /\ script[k].version = "1.1"

Withholding == \E k \in 1 .. Len(script) : Holding(k)

ClientSends ==
    /\ sent < StartOf(Len(script)) /\ ~Withholding
    /\ sent' = sent + 1
    /\ UNCHANGED <<script, received, consumed, served, itsReceivedBytes,
                   itsExpectHandled, pc, replies>>

\* It need not wait for the interim response, or not for long.
ClientGoesAhead ==
    /\ Withholding
    /\ sent' = sent + 1
    /\ UNCHANGED <<script, received, consumed, served, itsReceivedBytes,
                   itsExpectHandled, pc, replies>>

-----------------------------------------------------------------------------
(* The server.                                                             *)

\* The reply to the message the server is at.
Reply(code) == replies' = Append(replies, [to |-> served + 1, code |-> code])

TooLarge(bytes) == itsMaxRequestSize > 0 /\ bytes > itsMaxRequestSize

\* What a read delivers is counted first and appended only if the count is allowed.
handleRead ==
    /\ pc = "read" /\ received < sent
    /\ \E n \in 1 .. (IF sent - received < SocketBuffer THEN sent - received
                                                        ELSE SocketBuffer) :
         /\ itsReceivedBytes' = itsReceivedBytes + n
         /\ IF TooLarge(itsReceivedBytes + n)
            THEN pc' = "closed" /\ Reply("413") /\ UNCHANGED received
            ELSE pc' = "parse" /\ received' = received + n /\ UNCHANGED replies
    /\ UNCHANGED <<script, sent, consumed, served, itsExpectHandled>>

\* The call posted by finishResponse for bytes that are already in the buffer.
handlePosted ==
    /\ pc = "posted"
    /\ IF TooLarge(itsReceivedBytes)
       THEN pc' = "closed" /\ Reply("413")
       ELSE pc' = "parse" /\ UNCHANGED replies
    /\ UNCHANGED <<script, sent, received, consumed, served, itsReceivedBytes,
                   itsExpectHandled>>

HeadComplete == Buffered >= Current.head
Complete_HeadOnly == Buffered >= Current.head
Complete     == Buffered >= Size(Current)

parseOneRequest_CountKept ==
    /\ pc = "parse" /\ Complete /\ ~Current.malformed
    /\ pc' = "answer"
    /\ consumed' = consumed + Size(Current)
    /\ UNCHANGED <<script, sent, received, served, itsReceivedBytes, itsExpectHandled,
                   replies>>
\* One message is taken from the buffer; what is left is counted for the next.
parseOneRequest ==
    /\ pc = "parse" /\ Complete /\ ~Current.malformed
    /\ pc' = "answer"
    /\ consumed' = consumed + Size(Current)
    /\ itsReceivedBytes' = received - consumed'
    /\ UNCHANGED <<script, sent, received, served, itsExpectHandled, replies>>

\* FAILED: something is fundamentally wrong with the request.
parseFails ==
    /\ pc = "parse" /\ Current.malformed
    /\ pc' = "closed" /\ Reply("400")
    /\ UNCHANGED <<script, sent, received, consumed, served, itsReceivedBytes,
                   itsExpectHandled>>

HeaderTooLarge_Unchecked == FALSE
HeaderTooLarge == itsMaxHeaderSize > 0 /\ Buffered > itsMaxHeaderSize /\ ~HeadComplete

handleIncompleteRequest ==
    /\ pc = "parse" /\ ~Complete
    /\ IF HeaderTooLarge
       THEN pc' = "closed" /\ Reply("431")
       ELSE pc' = "expect" /\ UNCHANGED replies
    /\ UNCHANGED <<script, sent, received, consumed, served, itsReceivedBytes,
                   itsExpectHandled>>

handleExpectContinue_NotRemembered ==
    /\ pc = "expect"
    /\ LET due == HeadComplete /\ Current.version = "1.1"
       IN  /\ pc' = IF due /\ Current.expect = "other" THEN "closed" ELSE "read"
           /\ CASE due /\ Current.expect = "100-continue" -> Reply("100")
                [] due /\ Current.expect = "other"        -> Reply("417")
                [] OTHER                                  -> UNCHANGED replies
    /\ UNCHANGED <<script, sent, received, consumed, served, itsReceivedBytes,
                   itsExpectHandled>>
\* One decision per request, as soon as the head is there; HTTP/1.0 has no Expect.
handleExpectContinue ==
    /\ pc = "expect"
    /\ itsExpectHandled' = (itsExpectHandled \/ HeadComplete)
    /\ LET due == HeadComplete /\ ~itsExpectHandled /\ Current.version = "1.1"
       IN  /\ pc' = IF due /\ Current.expect = "other" THEN "closed" ELSE "read"
           /\ CASE due /\ Current.expect = "100-continue" -> Reply("100")
                [] due /\ Current.expect = "other"        -> Reply("417")
                [] OTHER                                  -> UNCHANGED replies
    /\ UNCHANGED <<script, sent, received, consumed, served, itsReceivedBytes>>

\* The interim response cannot be written, or the connection ends between requests.
ConnectionEnds ==
    /\ pc \in {"expect", "read"}
    /\ pc' = "closed"
    /\ UNCHANGED <<script, sent, received, consumed, served, itsReceivedBytes,
                   itsExpectHandled, replies>>

finishResponse_ExpectKept ==
    /\ pc = "answer"
    /\ Reply("200")
    /\ served' = served + 1
    /\ pc' = IF Buffered > 0 THEN "posted" ELSE "read"
    /\ UNCHANGED <<script, sent, received, consumed, itsReceivedBytes, itsExpectHandled>>
\* The response is written and the connection kept: the next request starts with what
\* a pipelining client has sent of it.
finishResponse ==
    /\ pc = "answer"
    /\ Reply("200")
    /\ served' = served + 1
    /\ itsExpectHandled' = FALSE
    /\ pc' = IF Buffered > 0 THEN "posted" ELSE "read"
    /\ UNCHANGED <<script, sent, received, consumed, itsReceivedBytes>>

\* Nothing more to send or to read, or the connection is gone.
Done ==
    /\ \/ pc = "closed"
       \/ pc = "read" /\ received = sent /\ Exhausted
    /\ UNCHANGED vars

Server == \/ handleRead \/ handlePosted \/ parseOneRequest \/ parseFails
          \/ handleIncompleteRequest \/ handleExpectContinue \/ finishResponse

Next == ClientSends \/ ClientGoesAhead \/ Server \/ ConnectionEnds \/ Done

Spec == Init /\ [][Next]_vars

\* A patient client and a server that go on; nothing is assumed of the client that
\* does not wait, or of the connection's end.
FairSpec == Spec /\ WF_vars(ClientSends) /\ WF_vars(Server)

-----------------------------------------------------------------------------
(* Properties.                                                             *)

\* Memory is bounded while the server waits for more: what is buffered never exceeds
\* the limit on a request, nor, while the head is unfinished, the limit on headers.
BufferedIsBounded ==
    pc = "read" =>
        /\ itsMaxRequestSize > 0 => Buffered <= itsMaxRequestSize
        /\ (itsMaxHeaderSize > 0 /\ ~Exhausted /\ Buffered < Current.head)
               => Buffered <= itsMaxHeaderSize

\* However many requests a connection has carried, a 413 is written only when the
\* client has more outstanding than the limit: what earlier requests took is not held
\* against a later one.  What is outstanding is all that has been sent beyond the last
\* request parsed, so a request within the limit that has others close behind it can
\* get a 413 (OnlyLargeIsRefused).
OnlyExcessIsRefused ==
    (\E i \in DOMAIN replies : replies[i].code = "413")
        => sent - consumed > itsMaxRequestSize

\* The limits hold in both directions, at any place of the tests in handleRead and of
\* the splits between reads: the buffer stays within maxrequestsize and, for an
\* unfinished head, maxheadersize, and no 413 goes to a client whose outstanding bytes
\* are within maxrequestsize.
LimitsHold == TypeOK /\ BufferedIsBounded /\ OnlyExcessIsRefused

\* A 100 goes only to an HTTP/1.1 request that asked for it, once, and before its final
\* response: a second one, or one for another request, would be taken for the answer.
InterimIsExpected ==
    \A i \in DOMAIN replies : replies[i].code = "100" =>
        /\ script[replies[i].to].version = "1.1"
        /\ script[replies[i].to].expect = "100-continue"
        /\ \A j \in DOMAIN replies : replies[j].to = replies[i].to => i <= j
        /\ \A j \in DOMAIN replies : replies[j] = replies[i] => i = j

\* A client that holds its body back does not wait for ever: it is answered, on every
\* request of the connection, or the connection ends.  Only an HTTP/1.0 client, which
\* has no business waiting, may.
NobodyHoldsForEver == Held ~> (pc = "closed" \/ ~Held)

-----------------------------------------------------------------------------
(* What the documentation says of the limits and the code does not keep.   *)

\* "maxheadersize: Header section. Over -> 431" (developer guide): no request with a
\* longer head is handed on.
LongHeadersAreRefused ==
    \A i \in DOMAIN replies : replies[i].code = "200" /\ itsMaxHeaderSize > 0
        => script[replies[i].to].head <= itsMaxHeaderSize

\* "413: The whole request exceeds 128 kB" (HTTP client guide): no smaller one gets it.
OnlyLargeIsRefused ==
    \A i \in DOMAIN replies : replies[i].code = "413"
        => Size(script[replies[i].to]) > itsMaxRequestSize

=============================================================================
