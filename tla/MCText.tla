------------------------------- MODULE MCText -------------------------------
(***************************************************************************)
(* What reads and writes text: the HTTP parser, the URL parser and the uri *)
(* class.  A behaviour runs one of them, with the constants of its part,   *)
(* the others keep their initial state, and the state spaces add up.       *)
(***************************************************************************)
EXTENDS HttpParser, TLC

CONSTANTS Parts  \* Parts: what a run checks

VARIABLES part,  \* the component that this behaviour runs
          u_u, u_buf, u_after, u_ret, u_calls,
          p_base, p_ref, p_target,
          q_params, q_sent, q_escaped, q_normal,
          i_parts, i_text, i_u

Strings(Chars, n) == UNION {[1..k -> Chars] : k \in 0..n}

(* Messages that are written and read back. *)
Slash == <<"/", "b", "?", "7">>
Host == [field |-> <<"H", "ost">>, value |-> <<"a">>]
Conn(v) == [field |-> CONNECTION, value |-> v]
Request(method, uri, version, hlist) ==
  [ClearMessage(FALSE) EXCEPT !.method = method, !.uri = uri, !.version = version, !.hlist = hlist]
Response(code, version, hlist) ==
  [ClearMessage(FALSE) EXCEPT !.status_code = code, !.version = version, !.hlist = hlist]
Written(type, msgs) ==
  [type |-> type, guillotine |-> FALSE, want |-> msgs,
   wire |-> FoldLeft(LAMBDA r, m : r \o data(type, m), <<>>, msgs)]

\* A chunked response, with a trailer; the peer is not libten.
ChunkedHead == [ClearMessage(FALSE) EXCEPT !.status_code = 200,
                  !.hlist = <<[field |-> TRANSFER_ENCODING, value |-> CHUNKED]>>]
Chunk(b) == Decimal(Len(b)) \o <<CR, LF>> \o b \o <<CR, LF>>
ChunkedStream(next) ==
  [type |-> "RESPONSE", guillotine |-> FALSE,
   want |-> <<[ChunkedHead EXCEPT !.body = <<"x", "y", "z">>, !.hlist = Append(@, Host)], next>>,
   wire |-> data("RESPONSE", ChunkedHead) \o Chunk(<<"x", "y">>) \o Chunk(<<"z">>)
              \o <<"0", CR, LF>> \o hwrite(<<Host>>) \o data("RESPONSE", next)]

\* A response to HEAD: the length and no body; one without a length.
HeadStream ==
  LET head == Response(200, <<1, 1>>, <<[field |-> CONTENT_LENGTH, value |-> <<"3">>]>>)
  IN [type |-> "RESPONSE", guillotine |-> TRUE, want |-> <<head>>, wire |-> data("RESPONSE", head)]
EofStream ==
  LET m == [Response(200, <<1, 0>>, <<Host>>) EXCEPT !.body = <<"x", "y">>]
  IN [type |-> "RESPONSE", guillotine |-> FALSE, want |-> <<m>>, wire |-> data("RESPONSE", m)]

WrittenStreams ==
  {Written("REQUEST", <<Request(m, Slash, <<1, 1>>, <<Host>>)>>) :
     m \in DOMAIN method_strings \ {"CONNECT"}}
  \cup
  {Written("REQUEST", <<set_body(Request("POST", Slash, <<1, 0>>, <<Conn(KEEP_ALIVE)>>), <<"x", "y", "z">>),
                        Request("GET", <<"*">>, <<1, 1>>, <<Host, Conn(CLOSE)>>)>>),
   Written("REQUEST", <<Request("CONNECT", <<"b", ":", "7">>, <<1, 1>>, <<>>)>>),
   Written("RESPONSE", <<set_body(Response(404, <<1, 1>>, <<>>), [i \in 1..12 |-> "x"]),
                         Response(204, <<1, 1>>, <<Host>>)>>),
   ChunkedStream(set_body(Response(200, <<1, 1>>, <<>>), <<"x">>)),
   HeadStream, EofStream}

(* Whatever may follow a method, a start line, a header name, the name of  *)
(* a length, the head of a chunked response and its first chunk; and a     *)
(* header that is longer than any may be.                                  *)
Tails(type, head, tails) ==
  {[type |-> type, guillotine |-> FALSE, want |-> <<>>, wire |-> head \o t] : t \in tails}
Line == <<"G", "E", "T", SP, "/", LF>>
AnyStreams ==
  Tails("REQUEST", <<"G", "E", "T", SP>>, Strings({"/", "b", ":", SP, CR, LF}, 3))
    \cup Tails("REQUEST", Line, Strings({"a", ":", SP, CR, LF}, 3))
    \cup Tails("REQUEST", Line \o CONNECTION, Strings({":", SP, "c", "lose", CR, LF}, 3))
    \cup Tails("REQUEST", Line \o CONTENT_LENGTH \o <<":">>, Strings({SP, "2", CR, LF, "x"}, 3))
    \cup Tails("RESPONSE", data("RESPONSE", ChunkedHead), Strings({"0", "2", ";", CR, LF, "x"}, 3))
    \cup Tails("RESPONSE", data("RESPONSE", ChunkedHead) \o <<"1", CR, LF, "x">>,
               Strings({"0", CR, LF, "x"}, 3))
    \cup Tails("REQUEST", Line \o [i \in 1..24 |-> "a"], Strings({":", "b", LF}, 3))

(* URLs: every continuation of "a://", of "/" and of nothing, over the     *)
(* characters the two automata tell apart.                                 *)
SomeUrls ==
  {<<"a", ":", "/", "/">> \o x : x \in Strings({"b", "7", ":", "/", "@", "?", "[", "]"}, 4)}
    \cup {<<"/">> \o x : x \in Strings({"b", "/", "?", "#"}, 4)}
    \cup Strings({"b", "7", "6", ":", "@"}, 4)

(* The parts of uris. *)
SomeUsers == {<<>>, <<"h">>, <<"h", ":", "h">>, <<"h", ":">>, <<":", "h", ":", "8">>, <<"8", "h">>}
SomeHosts == {<<"h">>, <<"8", ".", "8">>, <<"h", ".", "h", "8">>}
SomePorts == {<<>>, <<"8">>, <<"8", "0">>, <<"8", "0", "8", "0">>}
SomePaths == {<<>>, <<"/">>, <<"/", "h">>, <<"/", "h", "/", "8">>, <<"/", "/", "@", ":">>}

(* Codes of hexadecimal digits, without 9. *)
SomeDigits == {48, 50, 53, 55, 56, 65, 97, 70, 102}

AnyBytes == INSTANCE HttpParser WITH
    HTTP_MAX_HEADER_SIZE <- 32, Streams <- AnyStreams

Cut == INSTANCE HttpUrl WITH Urls <- SomeUrls, Behind <- {<<>>}, Cleared <- TRUE,
                             MaxPort <- 77, MaxCalls <- 1, u <- u_u, buf <- u_buf,
                             after <- u_after, ret <- u_ret, calls <- u_calls

Resolve == INSTANCE UriPath WITH
    Names <- {"b"}, MaxSegments <- 3, base <- p_base, ref <- p_ref,
    target <- p_target

Escape == INSTANCE UriEscape WITH
    MaxParams <- 2, HexDigits <- SomeDigits, params <- q_params, sent <- q_sent,
    escaped <- q_escaped, normal <- q_normal

Uri == INSTANCE UriParse WITH
    Alpha <- {"h"}, Figures <- {"0", "8"}, Other <- {"."}, Users <- SomeUsers,
    Hosts <- SomeHosts, Ports <- SomePorts, Paths <- SomePaths, Authority <- TRUE,
    parts <- i_parts, text <- i_text, u <- i_u

parserVars == <<parser, msg, fed, wire, seen, stream>>
urlVars == <<u_u, u_buf, u_after, u_ret, u_calls>>
pathVars == <<p_base, p_ref, p_target>>
queryVars == <<q_params, q_sent, q_escaped, q_normal>>
uriVars == <<i_parts, i_text, i_u>>
NotParser == <<part, urlVars, pathVars, queryVars, uriVars>>
NotUrl == <<part, parserVars, pathVars, queryVars, uriVars>>
NotPath == <<part, parserVars, urlVars, queryVars, uriVars>>
NotQuery == <<part, parserVars, urlVars, pathVars, uriVars>>
NotUri == <<part, parserVars, urlVars, pathVars, queryVars>>
allVars == <<part, parserVars, urlVars, pathVars, queryVars, uriVars>>

Start ==
    /\ part \in Parts
    /\ IF part = "written" THEN Init
       ELSE IF part = "any" THEN AnyBytes!Init
       ELSE parser = 0 /\ msg = 0 /\ fed = 0 /\ wire = 0 /\ seen = 0 /\ stream = 0
    /\ Cut!Init
    /\ IF part = "path" THEN Resolve!Init
       ELSE p_base = 0 /\ p_ref = 0 /\ p_target = 0
    /\ Escape!Init
    /\ IF part = "uri" THEN Uri!Init
       ELSE i_parts = 0 /\ i_text = 0 /\ i_u = 0

Steps ==
    \/ part = "written" /\ Next /\ UNCHANGED NotParser
    \/ part = "any" /\ AnyBytes!Next /\ UNCHANGED NotParser
    \/ part = "url" /\ Cut!Next /\ UNCHANGED NotUrl
    \/ part = "path" /\ Resolve!Next /\ UNCHANGED NotPath
    \/ part = "query" /\ Escape!Query /\ UNCHANGED NotQuery
    \/ part = "normal" /\ Escape!Component /\ UNCHANGED NotQuery
    \/ part = "uri" /\ Uri!Next /\ UNCHANGED NotUri

Safe == Start /\ [][Steps]_allVars
-----------------------------------------------------------------------------
(* Properties: those of the modules, of the component that runs.           *)


\* The messages that request and response objects write arrive, each with its own bytes,
\* however the bytes are cut, and parse throws for none of them; a body that is read by
\* its length has the length the header spells.
ParserRoundTrip == part = "written" => RoundTrip /\ LengthKept

\* How the bytes were cut into pieces is of no account to the parser, whatever they are,
\* and the assertions of http_parser_execute hold.
ParserCutFree == part = "any" => AnyBytes!CutFree /\ AnyBytes!AssertsHold


=============================================================================
