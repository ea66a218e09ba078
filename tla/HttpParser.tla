----------------------------- MODULE HttpParser -----------------------------
(***************************************************************************)
(* http_parser_execute of http_parser.c, in the build's non-strict mode    *)
(* (HTTP_PARSER_STRICT=0), with the callbacks of http_message.cc that      *)
(* collect a request or a response from it.                                *)
(*                                                                         *)
(* A byte is a one-character string, or the tail of a word that the code   *)
(* compares letter by letter once its beginning has chosen the word:       *)
(* "content-length" is <<"c","o","n","t","ent-length">>.  A message is     *)
(* parsed from pieces cut anywhere, since a piece is what one recv         *)
(* returned.  HTTP_BOTH, pausing and callbacks that fail are left out:     *)
(* libten uses none of them.                                               *)
(***************************************************************************)
EXTENDS HttpChars, TLC

CONSTANTS ULLONG_MAX,            \* 2^64 - 1, the length of a message without one
          HTTP_MAX_HEADER_SIZE,
          Streams                \* [type, guillotine, wire, want]: what arrives

VARIABLES parser,  \* struct http_parser
          msg,     \* the http_request or http_response being filled
          fed,     \* history: the bytes given to this parser since parser_init
          wire,    \* the bytes that have not been parsed
          seen,    \* the messages that were completed
          stream   \* the member of Streams, and what parse threw

vars == <<parser, msg, fed, wire, seen, stream>>

CONNECTION == <<"c", "o", "n", "n", "ection">>
CONTENT_LENGTH == <<"c", "o", "n", "t", "ent-length">>
PROXY_CONNECTION == <<"p", "roxy-connection">>
TRANSFER_ENCODING == <<"t", "ransfer-encoding">>
UPGRADE == <<"u", "pgrade">>
CHUNKED == <<"c", "hunked">>
KEEP_ALIVE == <<"k", "eep-alive">>
CLOSE == <<"c", "lose">>

method_strings ==
  [DELETE |-> <<"D","E","L","E","T","E">>, GET |-> <<"G","E","T">>,
   HEAD |-> <<"H","E","A","D">>, POST |-> <<"P","O","S","T">>, PUT |-> <<"P","U","T">>,
   CONNECT |-> <<"C","O","N","N","E","C","T">>, OPTIONS |-> <<"O","P","T","I","O","N","S">>,
   TRACE |-> <<"T","R","A","C","E">>, COPY |-> <<"C","O","P","Y">>, LOCK |-> <<"L","O","C","K">>,
   MKCOL |-> <<"M","K","C","O","L">>, MOVE |-> <<"M","O","V","E">>,
   PROPFIND |-> <<"P","R","O","P","F","I","N","D">>,
   PROPPATCH |-> <<"P","R","O","P","P","A","T","C","H">>,
   SEARCH |-> <<"S","E","A","R","C","H">>, UNLOCK |-> <<"U","N","L","O","C","K">>,
   REPORT |-> <<"R","E","P","O","R","T">>,
   MKACTIVITY |-> <<"M","K","A","C","T","I","V","I","T","Y">>,
   CHECKOUT |-> <<"C","H","E","C","K","O","U","T">>, MERGE |-> <<"M","E","R","G","E">>,
   MSEARCH |-> <<"M","-","S","E","A","R","C","H">>, NOTIFY |-> <<"N","O","T","I","F","Y">>,
   SUBSCRIBE |-> <<"S","U","B","S","C","R","I","B","E">>,
   UNSUBSCRIBE |-> <<"U","N","S","U","B","S","C","R","I","B","E">>,
   PATCH |-> <<"P","A","T","C","H">>, PURGE |-> <<"P","U","R","G","E">>]

(* TOKEN(c): what may stand in a header name, lowercased. *)
IsToken(c) ==
  c \notin {CR, LF, TAB, "(", ")", "<", ">", "@", ",", ";", ":", "/", "[", "]", "?", "=", "{", "}"}

BodyStates == {"s_chunk_data", "s_chunk_data_almost_done", "s_chunk_data_done",
               "s_body_identity", "s_body_identity_eof", "s_message_done"}
PARSING_HEADER(s) == s \notin BodyStates

UrlStates == {"s_req_path", "s_req_schema", "s_req_schema_slash", "s_req_schema_slash_slash",
              "s_req_server_start", "s_req_server", "s_req_server_with_at",
              "s_req_query_string_start", "s_req_query_string", "s_req_fragment_start",
              "s_req_fragment"}

start_state(type) == IF type = "REQUEST" THEN "s_start_req" ELSE "s_start_res"

(* http_parser_init: memset, the type and the start state. *)
http_parser_init(t) ==
  [type |-> t, state |-> start_state(t), header_state |-> "h_general", index |-> 0, nread |-> 0,
   content_length |-> 0, flags |-> {}, http_major |-> 0, http_minor |-> 0, status_code |-> 0,
   method |-> "DELETE", upgrade |-> FALSE, http_errno |-> "OK", asserted |-> TRUE]

-----------------------------------------------------------------------------
(* The callbacks of http_message.cc.                                       *)

(* clear(): the version goes back to default_http_version. *)
ClearMessage(guillotine) ==
  [method |-> "", uri |-> <<>>, status_code |-> 0, version |-> <<1, 1>>, hlist |-> <<>>,
   got_header_field |-> FALSE, body |-> <<>>, complete |-> FALSE, guillotine |-> guillotine]

(* http_header_parse::field *)
HeaderField(m, at) ==
  LET h == IF m.got_header_field THEN m.hlist
           ELSE Append(m.hlist, [field |-> <<>>, value |-> <<>>])
  IN [m EXCEPT !.hlist = [h EXCEPT ![Len(h)].field = @ \o at], !.got_header_field = TRUE]

(* http_header_parse::value *)
HeaderValue(m, at) ==
  [m EXCEPT !.hlist[Len(m.hlist)].value = @ \o at, !.got_header_field = FALSE]

OnData(m, FOR, at) ==
  CASE FOR = "header_field" -> HeaderField(m, at)
    [] FOR = "header_value" -> HeaderValue(m, at)
    [] FOR = "url" -> [m EXCEPT !.uri = @ \o at]
    [] FOR = "body" -> [m EXCEPT !.body = @ \o at]

Versions == {<<0, 9>>, <<1, 0>>, <<1, 1>>}

(* _request_on_headers_complete and _response_on_headers_complete: the     *)
(* fields are set before a version that set_version does not know is       *)
(* refused.                                                                *)
OnHeadersComplete(p, m) ==
  LET version == <<p.http_major, p.http_minor>>
      named == IF p.type = "REQUEST" THEN [m EXCEPT !.method = p.method]
               ELSE [m EXCEPT !.status_code = p.status_code]
  IN IF version \notin Versions THEN [m |-> named, ret |-> -1]
     ELSE [m |-> [named EXCEPT !.version = version],
           ret |-> IF p.type = "RESPONSE" /\ m.guillotine THEN 1 ELSE 0]

-----------------------------------------------------------------------------
(* The context of one call: the parser, the message, the data, the place   *)
(* of the current byte, the marks (0: none), the bytes the body states     *)
(* skip, and what is returned once the call has stopped.                   *)

Fail(c, e) == [c EXCEPT !.p.http_errno = e, !.n = c.at - 1, !.stop = TRUE]
To(c, s) == [c EXCEPT !.p.state = s]
Matching(c, s) == [c EXCEPT !.p.header_state = s]
Flag(c, f) == [c EXCEPT !.p.flags = @ \cup {f}]
Check(c, cond) == [c EXCEPT !.p.asserted = @ /\ cond]

MARK(c, FOR) == IF c.mark[FOR] = 0 THEN [c EXCEPT !.mark[FOR] = c.at] ELSE c

(* CALLBACK_DATA(FOR): the bytes from the mark up to and not including end *)
CALLBACK_DATA(c, FOR, end) ==
  IF c.mark[FOR] = 0 THEN c
  ELSE [c EXCEPT !.m = OnData(c.m, FOR, SubSeq(c.data, c.mark[FOR], end - 1)),
                 !.mark[FOR] = 0]

(* NEW_MESSAGE(), then CALLBACK_NOTIFY(message_complete): _on_message_     *)
(* complete returns 1, so that the parser stops behind this byte.          *)
MessageComplete(c) ==
  [To(c, start_state(c.p.type)) EXCEPT !.m.complete = TRUE,
     !.p.http_errno = "CB_message_complete", !.n = c.at, !.stop = TRUE]

-----------------------------------------------------------------------------
(* The start line.                                                         *)

Fresh(c) == [c EXCEPT !.p.flags = {}, !.p.content_length = ULLONG_MAX]

StartRes(c, ch) ==
  CASE ch = "H" -> To(Fresh(c), "s_res_H")
    [] ch \in {CR, LF} -> Fresh(c)
    [] OTHER -> Fail(Fresh(c), "INVALID_CONSTANT")

(* The method that a first letter stands for until another letter, at the  *)
(* given place, turns it into a longer known one.                          *)
FirstMethod == [C |-> "CONNECT", D |-> "DELETE", G |-> "GET", H |-> "HEAD", L |-> "LOCK",
                M |-> "MKCOL", N |-> "NOTIFY", O |-> "OPTIONS", P |-> "POST", R |-> "REPORT",
                S |-> "SUBSCRIBE", T |-> "TRACE", U |-> "UNLOCK"]
OtherMethodShort ==  \* mutant: PUT is never PURGE
  {<<"CONNECT", 1, "H", "CHECKOUT">>, <<"CONNECT", 2, "P", "COPY">>, <<"MKCOL", 1, "O", "MOVE">>,
   <<"MKCOL", 1, "E", "MERGE">>, <<"MKCOL", 1, "-", "MSEARCH">>, <<"MKCOL", 2, "A", "MKACTIVITY">>,
   <<"SUBSCRIBE", 1, "E", "SEARCH">>, <<"POST", 1, "R", "PROPFIND">>, <<"POST", 1, "U", "PUT">>,
   <<"POST", 1, "A", "PATCH">>, <<"UNLOCK", 2, "S", "UNSUBSCRIBE">>,
   <<"PROPFIND", 4, "P", "PROPPATCH">>}
OtherMethod ==
  {<<"CONNECT", 1, "H", "CHECKOUT">>, <<"CONNECT", 2, "P", "COPY">>, <<"MKCOL", 1, "O", "MOVE">>,
   <<"MKCOL", 1, "E", "MERGE">>, <<"MKCOL", 1, "-", "MSEARCH">>, <<"MKCOL", 2, "A", "MKACTIVITY">>,
   <<"SUBSCRIBE", 1, "E", "SEARCH">>, <<"POST", 1, "R", "PROPFIND">>, <<"POST", 1, "U", "PUT">>,
   <<"POST", 1, "A", "PATCH">>, <<"PUT", 2, "R", "PURGE">>, <<"UNLOCK", 2, "S", "UNSUBSCRIBE">>,
   <<"PROPFIND", 4, "P", "PROPPATCH">>}

StartReq(c, ch) ==
  CASE ch \in {CR, LF} -> c
    [] ch \in DOMAIN FirstMethod ->
         [To(Fresh(c), "s_req_method") EXCEPT !.p.method = FirstMethod[ch], !.p.index = 1]
    [] OTHER -> Fail(Fresh(c), "INVALID_METHOD")

ReqMethod(c, ch) ==
  LET p == c.p
      matcher == method_strings[p.method]
      others == {o \in OtherMethod : o[1] = p.method /\ o[2] = p.index /\ o[3] = ch}
      on == [c EXCEPT !.p.index = @ + 1]
  IN CASE ch = SP /\ p.index = Len(matcher) -> To(on, "s_req_spaces_before_url")
       [] p.index < Len(matcher) /\ ch = matcher[p.index + 1] -> on
       [] others # {} -> [on EXCEPT !.p.method = (CHOOSE o \in others : TRUE)[4]]
       [] OTHER -> Fail(c, "INVALID_METHOD")

UrlByte(c, s, ch) ==
  IF parse_url_char(s, ch) = "s_dead" THEN Fail(To(c, "s_dead"), "INVALID_URL")
  ELSE To(c, parse_url_char(s, ch))

SpacesBeforeUrl(c, ch) ==
  IF ch = SP THEN c
  ELSE UrlByte(MARK(c, "url"),
               IF c.p.method = "CONNECT" THEN "s_req_server_start" ELSE c.p.state, ch)

(* A URL ends with a space, or with the line: then it is HTTP/0.9. *)
Url(c, ch) ==
  LET may_end == c.p.state \notin {"s_req_schema", "s_req_schema_slash",
                                   "s_req_schema_slash_slash", "s_req_server_start"}
      v09 == [c EXCEPT !.p.http_major = 0, !.p.http_minor = 9]
  IN CASE ch \in {SP, CR, LF} /\ ~may_end -> Fail(c, "INVALID_URL")
       [] ch = SP -> CALLBACK_DATA(To(c, "s_req_http_start"), "url", c.at)
       [] ch = CR -> CALLBACK_DATA(To(v09, "s_req_line_almost_done"), "url", c.at)
       [] ch = LF -> CALLBACK_DATA(To(v09, "s_header_field_start"), "url", c.at)
       [] OTHER -> UrlByte(c, c.p.state, ch)

ReqHttpStart(c, ch) ==
  CASE ch = "H" -> To(c, "s_req_http_H")
    [] ch = SP -> c
    [] OTHER -> Fail(c, "INVALID_CONSTANT")

(* The letters of HTTP/ are not looked at unless the parser is strict. *)
AfterHttp ==
  [s_res_H |-> "s_res_HT", s_res_HT |-> "s_res_HTT", s_res_HTT |-> "s_res_HTTP",
   s_res_HTTP |-> "s_res_first_http_major",
   s_req_http_H |-> "s_req_http_HT", s_req_http_HT |-> "s_req_http_HTT",
   s_req_http_HTT |-> "s_req_http_HTTP", s_req_http_HTTP |-> "s_req_first_http_major"]

(* One more digit of a number of at most three. *)
Digit(c, name, ch, e) ==
  LET v == 10 * c.p[name] + DigitOf[ch]
      d == [c EXCEPT !.p[name] = v]
  IN IF v > 999 THEN Fail(d, e) ELSE d

FirstMajor(c, ch) ==
  IF ~IS_NUM(ch) \/ (ch = "0" /\ c.p.type = "REQUEST") THEN Fail(c, "INVALID_VERSION")
  ELSE [To(c, IF c.p.type = "REQUEST" THEN "s_req_http_major" ELSE "s_res_http_major")
          EXCEPT !.p.http_major = DigitOf[ch]]

Major(c, ch) ==
  CASE ch = "." -> To(c, IF c.p.type = "REQUEST" THEN "s_req_first_http_minor"
                         ELSE "s_res_first_http_minor")
    [] IS_NUM(ch) -> Digit(c, "http_major", ch, "INVALID_VERSION")
    [] OTHER -> Fail(c, "INVALID_VERSION")

FirstMinor(c, ch) ==
  IF ~IS_NUM(ch) THEN Fail(c, "INVALID_VERSION")
  ELSE [To(c, IF c.p.type = "REQUEST" THEN "s_req_http_minor" ELSE "s_res_http_minor")
          EXCEPT !.p.http_minor = DigitOf[ch]]

Minor(c, ch) ==
  CASE ch = SP /\ c.p.type = "RESPONSE" -> To(c, "s_res_first_status_code")
    [] ch = CR /\ c.p.type = "REQUEST" -> To(c, "s_req_line_almost_done")
    [] ch = LF /\ c.p.type = "REQUEST" -> To(c, "s_header_field_start")
    [] IS_NUM(ch) -> Digit(c, "http_minor", ch, "INVALID_VERSION")
    [] OTHER -> Fail(c, "INVALID_VERSION")

FirstStatusCode(c, ch) ==
  CASE IS_NUM(ch) -> [To(c, "s_res_status_code") EXCEPT !.p.status_code = DigitOf[ch]]
    [] ch = SP -> c
    [] OTHER -> Fail(c, "INVALID_STATUS")

StatusCode(c, ch) ==
  CASE IS_NUM(ch) -> Digit(c, "status_code", ch, "INVALID_STATUS")
    [] ch = SP -> To(c, "s_res_status")
    [] ch = CR -> To(c, "s_res_line_almost_done")
    [] ch = LF -> To(c, "s_header_field_start")
    [] OTHER -> Fail(c, "INVALID_STATUS")

Status(c, ch) ==
  CASE ch = CR -> To(c, "s_res_line_almost_done")
    [] ch = LF -> To(c, "s_header_field_start")
    [] OTHER -> c

LineAlmostDone(c, ch) ==
  IF c.p.type = "REQUEST" /\ ch # LF THEN Fail(c, "LF_EXPECTED")
  ELSE To(c, "s_header_field_start")

-----------------------------------------------------------------------------
(* The headers.                                                            *)

(* sizeof(WORD)-1 is Len(word): the next letter is compared until the last *)
(* one has matched.                                                        *)
Words ==
  [h_matching_connection |-> <<CONNECTION, "h_connection">>,
   h_matching_proxy_connection |-> <<PROXY_CONNECTION, "h_connection">>,
   h_matching_content_length |-> <<CONTENT_LENGTH, "h_content_length">>,
   h_matching_transfer_encoding |-> <<TRANSFER_ENCODING, "h_transfer_encoding">>,
   h_matching_upgrade |-> <<UPGRADE, "h_upgrade">>,
   h_matching_transfer_encoding_chunked |-> <<CHUNKED, "h_transfer_encoding_chunked">>,
   h_matching_connection_keep_alive |-> <<KEEP_ALIVE, "h_connection_keep_alive">>,
   h_matching_connection_close |-> <<CLOSE, "h_connection_close">>]

MatchNext(c, ch) ==
  LET word == Words[c.p.header_state][1]
      index == c.p.index + 1
      d == [c EXCEPT !.p.index = index]
  IN IF index >= Len(word) \/ LOWER(ch) # word[index + 1] THEN Matching(d, "h_general")
     ELSE IF index = Len(word) - 1 THEN Matching(d, Words[c.p.header_state][2]) ELSE d

FieldBegins == [c |-> "h_C", p |-> "h_matching_proxy_connection",
                t |-> "h_matching_transfer_encoding", u |-> "h_matching_upgrade"]

http_message_needs_eof(p) ==
  /\ p.type = "RESPONSE"
  /\ p.status_code \div 100 # 1 /\ p.status_code \notin {204, 304}
  /\ p.flags \cap {"SKIPBODY", "CHUNKED"} = {}
  /\ p.content_length = ULLONG_MAX

HeadersDoneCounts(c) ==  \* mutant: the bytes of the header stay counted
  LET p == c.p
  IN CASE p.upgrade \/ "SKIPBODY" \in p.flags -> MessageComplete(c)
       [] "CHUNKED" \in p.flags -> To(c, "s_chunk_size_start")
       [] p.content_length = 0 -> MessageComplete(c)
       [] p.content_length # ULLONG_MAX -> To(c, "s_body_identity")
       [] http_message_needs_eof(p) -> To(c, "s_body_identity_eof")
       [] OTHER -> MessageComplete(c)

(* on_headers_complete may forbid a body (1) or refuse the message; the    *)
(* rest is s_headers_done, for the same byte: what follows is decided.     *)
HeadersDone(c) ==
  LET p == c.p
      d == [c EXCEPT !.p.nread = 0]
  IN CASE p.upgrade \/ "SKIPBODY" \in p.flags -> MessageComplete(d)
       [] "CHUNKED" \in p.flags -> To(d, "s_chunk_size_start")
       [] p.content_length = 0 -> MessageComplete(d)
       [] p.content_length # ULLONG_MAX -> To(d, "s_body_identity")
       [] http_message_needs_eof(p) -> To(d, "s_body_identity_eof")
       [] OTHER -> MessageComplete(d)

HeadersAlmostDone(c) ==
  LET d == [To(c, "s_headers_done") EXCEPT
              !.p.upgrade = "UPGRADE" \in c.p.flags \/ c.p.method = "CONNECT"]
      r == OnHeadersComplete(d.p, d.m)
      e == [d EXCEPT !.m = r.m]
  IN CASE "TRAILING" \in c.p.flags -> MessageComplete(c)
       [] r.ret = -1 -> Fail(e, "CB_headers_complete")
       [] r.ret = 1 -> HeadersDone(Flag(e, "SKIPBODY"))
       [] OTHER -> HeadersDone(e)

HeaderFieldStart(c, ch) ==
  CASE ch = CR -> To(c, "s_headers_almost_done")
    [] ch = LF -> HeadersAlmostDone(c)
    [] ~IsToken(ch) -> Fail(c, "INVALID_HEADER_TOKEN")
    [] OTHER -> [To(MARK(c, "header_field"), "s_header_field") EXCEPT !.p.index = 0,
                   !.p.header_state = IF LOWER(ch) \in DOMAIN FieldBegins
                                      THEN FieldBegins[LOWER(ch)] ELSE "h_general"]

(* A letter of a header name. *)
FieldLetter(c, ch) ==
  LET h == c.p.header_state
      d == [c EXCEPT !.p.index = @ + 1]
      l == LOWER(ch)
  IN CASE h = "h_general" -> c
       [] h = "h_C" -> Matching(d, IF l = "o" THEN "h_CO" ELSE "h_general")
       [] h = "h_CO" -> Matching(d, IF l = "n" THEN "h_CON" ELSE "h_general")
       [] h = "h_CON" -> Matching(d, CASE l = "n" -> "h_matching_connection"
                                       [] l = "t" -> "h_matching_content_length"
                                       [] OTHER -> "h_general")
       [] h \in DOMAIN Words -> MatchNext(c, ch)
       [] h \in {"h_connection", "h_content_length", "h_transfer_encoding", "h_upgrade"} ->
            IF ch # SP THEN Matching(c, "h_general") ELSE c
       [] OTHER -> Check(c, FALSE)

HeaderFieldByte(c, ch) ==
  CASE IsToken(ch) -> FieldLetter(c, ch)
    [] ch = ":" -> CALLBACK_DATA(To(c, "s_header_value_start"), "header_field", c.at)
    [] ch = CR -> CALLBACK_DATA(To(c, "s_header_almost_done"), "header_field", c.at)
    [] ch = LF -> CALLBACK_DATA(To(c, "s_header_field_start"), "header_field", c.at)
    [] OTHER -> Fail(c, "INVALID_HEADER_TOKEN")

(* The first byte of a value. *)
ValueBegins(c, ch) ==
  LET h == c.p.header_state
      l == LOWER(ch)
  IN CASE h = "h_upgrade" -> Matching(Flag(c, "UPGRADE"), "h_general")
       [] h = "h_transfer_encoding" /\ l = "c" -> Matching(c, "h_matching_transfer_encoding_chunked")
       [] h = "h_content_length" /\ ~IS_NUM(ch) -> Fail(c, "INVALID_CONTENT_LENGTH")
       [] h = "h_content_length" -> [c EXCEPT !.p.content_length = DigitOf[ch]]
       [] h = "h_connection" /\ l = "k" -> Matching(c, "h_matching_connection_keep_alive")
       [] h = "h_connection" /\ l = "c" -> Matching(c, "h_matching_connection_close")
       [] OTHER -> Matching(c, "h_general")

HeaderValueStart(c, ch) ==
  LET d == [To(MARK(c, "header_value"), "s_header_value") EXCEPT !.p.index = 0]
  IN CASE ch \in {SP, TAB} -> c
       [] ch = CR -> CALLBACK_DATA(Matching(To(d, "s_header_almost_done"), "h_general"),
                                   "header_value", c.at)
       [] ch = LF -> CALLBACK_DATA(To(d, "s_header_field_start"), "header_value", c.at)
       [] OTHER -> ValueBegins(d, ch)

LengthDigitWrong(c, base, digit) ==  \* mutant: the new digit is the high one
  [c EXCEPT !.p.content_length = @ + base * digit]

(* One more digit of a length, in 64 bits, with the code's test for        *)
(* overflow.                                                               *)
LengthDigit(c, base, digit) ==
  LET t == (c.p.content_length * base + digit) % (ULLONG_MAX + 1)
  IN IF t < c.p.content_length \/ t = ULLONG_MAX THEN Fail(c, "INVALID_CONTENT_LENGTH")
     ELSE [c EXCEPT !.p.content_length = t]

ValueLetter(c, ch) ==
  LET h == c.p.header_state
  IN CASE h \in {"h_connection", "h_transfer_encoding"} -> Check(c, FALSE)
       [] h = "h_content_length" /\ ch = SP -> c
       [] h = "h_content_length" /\ ~IS_NUM(ch) -> Fail(c, "INVALID_CONTENT_LENGTH")
       [] h = "h_content_length" -> LengthDigit(c, 10, DigitOf[ch])
       [] h \in DOMAIN Words -> MatchNext(c, ch)
       [] h \in {"h_transfer_encoding_chunked", "h_connection_keep_alive", "h_connection_close"}
            /\ ch = SP -> c
       [] OTHER -> Matching(c, "h_general")

(* The end of a line of headers: a matched value sets its flag. *)
HeaderAlmostDone(c) ==
  LET h == c.p.header_state
      d == To(c, "s_header_value_lws")
  IN CASE h = "h_connection_keep_alive" -> Flag(d, "KEEP_ALIVE")
       [] h = "h_connection_close" -> Flag(d, "CLOSE")
       [] h = "h_transfer_encoding_chunked" -> Flag(d, "CHUNKED")
       [] OTHER -> d

HeaderValueByte(c, ch) ==
  CASE ch = CR -> CALLBACK_DATA(To(c, "s_header_almost_done"), "header_value", c.at)
    [] ch = LF -> HeaderAlmostDone(CALLBACK_DATA(c, "header_value", c.at))
    [] OTHER -> ValueLetter(c, ch)

(* A line that begins with white space continues the value. *)
HeaderValueLws(c, ch) ==
  IF ch \in {SP, TAB} THEN To(c, "s_header_value_start") ELSE HeaderFieldStart(To(c, "s_header_field_start"), ch)

-----------------------------------------------------------------------------
(* The body.                                                               *)

ToRead(c) == LET left == Len(c.data) - c.at + 1
             IN IF c.p.content_length < left THEN c.p.content_length ELSE left

(* As much of the body as is there; at is left on its last byte. *)
Read(c) == [Check(MARK(c, "body"), c.p.content_length \notin {0, ULLONG_MAX}) EXCEPT
              !.p.content_length = @ - ToRead(c), !.at = @ + ToRead(c) - 1]

BodyIdentity(c) ==
  LET d == Read(c)
  IN IF d.p.content_length # 0 THEN d
     ELSE MessageComplete(CALLBACK_DATA(To(d, "s_message_done"), "body", d.at + 1))

BodyIdentityEof(c) == [MARK(c, "body") EXCEPT !.at = Len(c.data)]

Chunked(c) == Check(c, "CHUNKED" \in c.p.flags)

ChunkSizeStart(c, ch) ==
  LET d == Check(Chunked(c), c.p.nread = 1)
  IN IF ch \in DOMAIN unhex
     THEN [To(d, "s_chunk_size") EXCEPT !.p.content_length = unhex[ch]]
     ELSE Fail(d, "INVALID_CHUNK_SIZE")

ChunkSize(c, ch) ==
  LET d == Chunked(c)
  IN CASE ch = CR -> To(d, "s_chunk_size_almost_done")
       [] ch \in DOMAIN unhex -> LengthDigit(d, 16, unhex[ch])
       [] ch \in {";", SP} -> To(d, "s_chunk_parameters")
       [] OTHER -> Fail(d, "INVALID_CHUNK_SIZE")

ChunkParameters(c, ch) ==
  IF ch = CR THEN To(Chunked(c), "s_chunk_size_almost_done") ELSE Chunked(c)

(* The chunk of size 0 is the last: what follows are the trailers. *)
ChunkSizeAlmostDone(c) ==
  LET d == [Chunked(c) EXCEPT !.p.nread = 0]
  IN IF c.p.content_length = 0 THEN To(Flag(d, "TRAILING"), "s_header_field_start")
     ELSE To(d, "s_chunk_data")

ChunkData(c) ==
  LET d == Read(Chunked(c))
  IN IF d.p.content_length = 0 THEN To(d, "s_chunk_data_almost_done") ELSE d

ChunkDataAlmostDone(c) ==
  CALLBACK_DATA(To(Check(Chunked(c), c.p.content_length = 0), "s_chunk_data_done"), "body", c.at)

ChunkDataDone(c) == [To(Chunked(c), "s_chunk_size_start") EXCEPT !.p.nread = 0]

-----------------------------------------------------------------------------
(* The switch of http_parser_execute. *)
Switch(c, ch) ==
  LET s == c.p.state
  IN CASE s = "s_start_res" -> StartRes(c, ch)
       [] s = "s_start_req" -> StartReq(c, ch)
       [] s \in DOMAIN AfterHttp -> To(c, AfterHttp[s])
       [] s \in {"s_res_first_http_major", "s_req_first_http_major"} -> FirstMajor(c, ch)
       [] s \in {"s_res_http_major", "s_req_http_major"} -> Major(c, ch)
       [] s \in {"s_res_first_http_minor", "s_req_first_http_minor"} -> FirstMinor(c, ch)
       [] s \in {"s_res_http_minor", "s_req_http_minor"} -> Minor(c, ch)
       [] s = "s_res_first_status_code" -> FirstStatusCode(c, ch)
       [] s = "s_res_status_code" -> StatusCode(c, ch)
       [] s = "s_res_status" -> Status(c, ch)
       [] s \in {"s_res_line_almost_done", "s_req_line_almost_done"} -> LineAlmostDone(c, ch)
       [] s = "s_req_method" -> ReqMethod(c, ch)
       [] s = "s_req_spaces_before_url" -> SpacesBeforeUrl(c, ch)
       [] s \in UrlStates -> Url(c, ch)
       [] s = "s_req_http_start" -> ReqHttpStart(c, ch)
       [] s = "s_header_field_start" -> HeaderFieldStart(c, ch)
       [] s = "s_header_field" -> HeaderFieldByte(c, ch)
       [] s = "s_header_value_start" -> HeaderValueStart(c, ch)
       [] s = "s_header_value" -> HeaderValueByte(c, ch)
       [] s = "s_header_almost_done" -> HeaderAlmostDone(c)
       [] s = "s_header_value_lws" -> HeaderValueLws(c, ch)
       [] s = "s_headers_almost_done" -> HeadersAlmostDone(c)
       [] s = "s_body_identity" -> BodyIdentity(c)
       [] s = "s_body_identity_eof" -> BodyIdentityEof(c)
       [] s = "s_chunk_size_start" -> ChunkSizeStart(c, ch)
       [] s = "s_chunk_size" -> ChunkSize(c, ch)
       [] s = "s_chunk_parameters" -> ChunkParameters(c, ch)
       [] s = "s_chunk_size_almost_done" -> ChunkSizeAlmostDone(c)
       [] s = "s_chunk_data" -> ChunkData(c)
       [] s = "s_chunk_data_almost_done" -> ChunkDataAlmostDone(c)
       [] s = "s_chunk_data_done" -> ChunkDataDone(c)
       [] OTHER -> Fail(Check(c, FALSE), "INVALID_INTERNAL_STATE")

(* One turn of the loop: bytes of a header are counted, and limited. *)
Byte(before, i) ==
  LET counted == PARSING_HEADER(before.p.state)
      c == [before EXCEPT !.at = i, !.p.nread = IF counted THEN @ + 1 ELSE @]
  IN IF before.stop \/ i <= before.at THEN before
     ELSE IF counted /\ c.p.nread > HTTP_MAX_HEADER_SIZE THEN Fail(c, "HEADER_OVERFLOW")
     ELSE Switch(c, c.data[i])

Marks == {"header_field", "header_value", "url", "body"}

(* What was marked before the data ran out: at most one piece, which the   *)
(* code asserts.                                                           *)
Leftover(c) ==
  LET set == {x \in Marks : c.mark[x] # 0}
      d == Check(c, set = {} \/ \E x \in set : set = {x})
      flush(e, x) == CALLBACK_DATA(e, x, Len(c.data) + 1)
  IN IF c.stop THEN c
     ELSE [FoldLeft(flush, d, <<"header_field", "header_value", "url", "body">>)
             EXCEPT !.n = Len(c.data)]

FirstMarksFewer(p) ==  \* mutant: a value that was cut is not taken up again
  [x \in Marks |-> IF \/ x = "header_field" /\ p.state = "s_header_field"
                      \/ x = "url" /\ p.state \in UrlStates
                   THEN 1 ELSE 0]

(* The marks that are still open from the data before. *)
FirstMarks(p) ==
  [x \in Marks |-> IF \/ x = "header_field" /\ p.state = "s_header_field"
                      \/ x = "header_value" /\ p.state = "s_header_value"
                      \/ x = "url" /\ p.state \in UrlStates
                   THEN 1 ELSE 0]

(* len = 0 says that the connection has ended. *)
EndOfData(c) ==
  CASE c.p.state = "s_body_identity_eof" ->
         [c EXCEPT !.m.complete = TRUE, !.p.http_errno = "CB_message_complete"]
    [] c.p.state \in {"s_start_req", "s_start_res"} -> c
    [] OTHER -> [c EXCEPT !.p.http_errno = "INVALID_EOF_STATE", !.n = 1]

(* The bytes i to j one after the other; by halves, so that the recursion  *)
(* is not deep.                                                            *)
RECURSIVE Bytes(_, _, _)
Bytes(c, i, j) ==
  LET mid == (i + j) \div 2
  IN IF i = j THEN Byte(c, i)
     ELSE CHOOSE d \in {Bytes(b, mid + 1, j) : b \in {Bytes(c, i, mid)}} : TRUE

http_parser_execute(p, m, data) ==
  LET c == [p |-> p, m |-> m, data |-> data, at |-> 0, mark |-> FirstMarks(p), n |-> 0, stop |-> FALSE]
  IN IF p.http_errno # "OK" THEN c
     ELSE IF data = <<>> THEN EndOfData(c)
     ELSE Leftover(Bytes(c, 1, Len(data)))

-----------------------------------------------------------------------------
(* What the other end of a libten connection writes.                       *)

http_version == [v \in Versions |-> CASE v = <<0, 9>> -> <<"H", "T", "T", "P", "/", "0", ".", "9">>
                                     [] v = <<1, 0>> -> <<"H", "T", "T", "P", "/", "1", ".", "0">>
                                     [] v = <<1, 1>> -> <<"H", "T", "T", "P", "/", "1", ".", "1">>]

(* A number as operator<< writes it. *)
Decimal(n) ==
  LET digit(d) == CHOOSE c \in DOMAIN DigitOf : DigitOf[c] = d
  IN IF n < 10 THEN <<digit(n)>>
     ELSE IF n < 100 THEN <<digit(n \div 10), digit(n % 10)>>
     ELSE <<digit(n \div 100), digit((n \div 10) % 10), digit(n % 10)>>

(* http_headers::_hwrite *)
hwrite(hlist) ==
  FoldLeft(LAMBDA w, h : w \o h.field \o <<":", SP>> \o h.value \o <<CR, LF>>, <<>>, hlist)
    \o <<CR, LF>>

(* http_request::data and http_response::data, and the body behind them. *)
data(type, m) ==
  (IF type = "REQUEST"
   THEN method_strings[m.method] \o <<SP>> \o m.uri \o <<SP>> \o http_version[m.version]
   ELSE http_version[m.version] \o <<SP>> \o Decimal(m.status_code) \o <<SP, "reason">>)
    \o <<CR, LF>> \o hwrite(m.hlist) \o m.body

(* set_body: the length of the body as a header. *)
set_body(m, body) ==
  [m EXCEPT !.body = body,
            !.hlist = Append(@, [field |-> CONTENT_LENGTH, value |-> Decimal(Len(body))])]

-----------------------------------------------------------------------------
(* parser_init, and parse with the next k bytes of what has arrived: an    *)
(* exception when not all of them were taken and no message is complete.   *)

Init ==
  \E s \in Streams :
    /\ stream = s @@ [threw |-> FALSE]
    /\ parser = http_parser_init(s.type)
    /\ msg = ClearMessage(s.guillotine)
    /\ fed = <<>> /\ wire = s.wire /\ seen = <<>>

Parsed(k) ==
  LET r == http_parser_execute(parser, msg, SubSeq(wire, 1, k))
  IN /\ wire' = SubSeq(wire, r.n + 1, Len(wire))
     /\ stream' = [stream EXCEPT !.threw = ~r.m.complete /\ r.n # k]
     /\ IF r.m.complete
        THEN /\ seen' = Append(seen, r.m)
             /\ parser' = [http_parser_init(stream.type) EXCEPT !.asserted = r.p.asserted]
             /\ msg' = ClearMessage(stream.guillotine)
             /\ fed' = <<>>
        ELSE /\ parser' = r.p /\ msg' = r.m /\ UNCHANGED seen
             /\ fed' = fed \o SubSeq(wire, 1, k)

(* Bound: what a recv gives is a byte, two, or all that is on the way. *)
Pieces == {1, 2, Len(wire)} \cap 1..Len(wire)

Parse == ~stream.threw /\ \E k \in Pieces : Parsed(k)

(* The other side has closed the connection. *)
End == ~stream.threw /\ wire = <<>> /\ Parsed(0)

Next == Parse \/ End

Spec == Init /\ [][Next]_vars

-----------------------------------------------------------------------------
Whole == http_parser_execute(http_parser_init(stream.type), ClearMessage(stream.guillotine), fed)

(* How the bytes were cut into pieces is of no account: the parser and the *)
(* message are those of one call with all the bytes, although marks are    *)
(* closed and opened again at every cut.                                   *)
CutFree ==
  fed # <<>> /\ parser.http_errno = "OK" =>
    msg = Whole.m /\ parser = [Whole.p EXCEPT !.asserted = parser.asserted]

(* The assertions of http_parser_execute hold for every input: at most one *)
(* mark is open when the data ends, a chunk size is the first byte that is *)
(* counted, a body is read only with a length, no header state is unknown. *)
AssertsHold == parser.asserted

Essence(m) == <<m.method, m.uri, m.status_code, m.version, m.hlist, m.body>>

(* The messages that were written arrive, each with its own bytes and no   *)
(* byte of the next, and parse throws for none of them.                    *)
RoundTrip ==
  /\ ~stream.threw
  /\ Len(seen) <= Len(stream.want)
  /\ \A i \in DOMAIN seen : Essence(seen[i]) = Essence(stream.want[i])
  /\ wire = <<>> /\ parser.state # "s_body_identity_eof" => Len(seen) = Len(stream.want)

Number(digits) == FoldLeft(LAMBDA v, d : 10 * v + DigitOf[d], 0, digits)

(* A body that is read by its length has the length the header spells:     *)
(* what does not fit the parser's 64 bits was refused.                     *)
LengthKept ==
  parser.state = "s_body_identity" =>
    \E i \in DOMAIN msg.hlist :
      /\ msg.hlist[i].field = CONTENT_LENGTH
      /\ parser.content_length + Len(msg.body) = Number(msg.hlist[i].value)

=============================================================================
