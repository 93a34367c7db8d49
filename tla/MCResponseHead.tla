---------------------------- MODULE MCResponseHead ----------------------------
(***************************************************************************)
(* Requests that differ in what they accept, and requests that differ in   *)
(* what they say of the connection; answers of each kind, with the headers *)
(* a handler may have set itself.                                          *)
(***************************************************************************)
EXTENDS ResponseHead

MCLower(s) ==
    CASE s = "Close" -> "close" [] s = "Keep-Alive" -> "keep-alive"
      [] s = "Connection" -> "connection" [] s = "Proxy-Connection" -> "proxy-connection"
      [] s = "X-Note" -> "x-note" [] s = "Accept-Encoding" -> "accept-encoding"
      [] s = "X-SmartMet-Original-Method" -> "x-smartmet-original-method"
      [] OTHER -> s

Ask(head, version, headers, accept, gzip) ==
    [head |-> head, version |-> version, headers |-> headers, accept |-> accept,
     gzip |-> gzip]

Host == [n \in {"Host"} |-> <<"a">>]
With(name, value) == setHeader(Host, name, value)

MCRequests ==
    {Ask(FALSE, <<1, 1>>, Host, a, g) :
         a \in {{}, {"gzip"}, {"gzip", "zstd"}}, g \in BOOLEAN}
    \cup {Ask(FALSE, v, With("Connection", <<"", "Keep-Alive">>), {"gzip"}, FALSE) :
              v \in {<<1, 0>>, <<>>}}
    \cup {Ask(FALSE, <<1, 0>>, With("Proxy-Connection", <<"Keep-Alive">>), {}, TRUE),
          Ask(FALSE, <<2, 0>>, With("Connection", <<"Close">>), {}, FALSE),
          Ask(FALSE, <<1, 0>>, Host, {}, FALSE),
          Ask(FALSE, <<1, 0>>, setHeader(With("Proxy-Connection", <<"keep-alive">>),
                                         "Connection", <<"x-note">>), {}, FALSE),
          Ask(FALSE, <<1, 1>>, [n \in {"X-Note"} |-> <<"n">>], {}, FALSE),
          Ask(FALSE, <<1, 1>>, setHeader(With("X-Note", <<"n">>), "Connection", <<"x-note">>),
              {}, FALSE),
          Ask(TRUE, <<1, 1>>, With("X-SmartMet-Original-Method", <<"PUT">>), {"gzip"}, TRUE),
          Ask(TRUE, <<1, 1>>, With("Connection", <<"x-smartmet-original-method">>),
              {"gzip", "zstd"}, FALSE)}

Give(kind, size, compressible, vary, cacheControl, conn) ==
    [kind |-> kind, size |-> size, compressible |-> compressible, vary |-> vary,
     cacheControl |-> cacheControl, connection |-> conn]

MCAnswers ==
    {Give("regular", "large", TRUE, <<>>, <<"public", "max-age">>, <<>>),
     Give("regular", "small", TRUE, <<"Accept">>, <<"max-age", "stale-if-error">>, <<>>),
     Give("regular", "large", FALSE, <<"accept-encoding">>, <<"no-cache">>, <<"Close">>),
     Give("stream", "large", TRUE, <<>>, <<>>, <<"Keep-Alive">>),
     Give("chunked", "large", TRUE, <<>>, <<"max-age">>, <<>>)}

MCCodings == <<"zstd", "gzip">>
MCStaleDirectives == <<"stale-while-revalidate", "stale-if-error">>

=============================================================================
