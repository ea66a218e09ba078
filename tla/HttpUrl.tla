------------------------------- MODULE HttpUrl -------------------------------
(***************************************************************************)
(* http_parser_parse_url of http_parser.c, which cuts a URL into fields.   *)
(* u is the caller's http_parser_url, which may serve for one URL after    *)
(* another; offsets count from 0 as in the code.                           *)
(***************************************************************************)
EXTENDS HttpChars, FiniteSets

CONSTANTS Urls,         \* the strings a caller passes, as sequences of characters
          Behind,       \* what may lie in memory behind the buflen characters
          Cleared,        \* TRUE: a caller clears u before each call
          MaxPort,      \* 0xffff
          MaxCalls      \* bound: calls with the same structure

VARIABLES u,      \* struct http_parser_url
          buf,    \* the URL of the last call
          after,  \* what lay in memory behind it
          ret,    \* what the last call returned; -1: no call yet
          calls   \* calls made

vars == <<u, buf, after, ret, calls>>

-----------------------------------------------------------------------------
(* http_parse_host_char *)
http_parse_host_char(s, ch) ==
  CASE s \in {"userinfo", "userinfo_start"} /\ ch = "@" -> "host_start"
    [] s \in {"userinfo", "userinfo_start"} /\ IS_USERINFO_CHAR(ch) -> "userinfo"
    [] s = "host_start" /\ ch = "[" -> "host_v6_start"
    [] s \in {"host_start", "host"} /\ IS_HOST_CHAR(ch) -> "host"
    [] s \in {"host", "host_v6_end"} /\ ch = ":" -> "host_port_start"
    [] s = "host_v6" /\ ch = "]" -> "host_v6_end"
    [] s \in {"host_v6", "host_v6_start"} /\ (ch \in DOMAIN unhex \/ ch \in {":", "."}) -> "host_v6"
    [] s \in {"host_port", "host_port_start"} /\ IS_NUM(ch) -> "host_port"
    [] OTHER -> "host_dead"

-----------------------------------------------------------------------------
Fields == {"SCHEMA", "HOST", "PORT", "PATH", "QUERY", "FRAGMENT", "USERINFO"}
ZeroUrl == [port |-> 0, field_set |-> {}, off |-> [x \in Fields |-> 0], len |-> [x \in Fields |-> 0]]

HostField == [host |-> "HOST", host_v6 |-> "HOST", host_port |-> "PORT", userinfo |-> "USERINFO"]

(* The character at an offset; a C string ends what lies in memory. *)
At(mem, p) == IF p < Len(mem) THEN mem[p + 1] ELSE "nul"

(* Mutant: the host keeps the offset of the user info before it. *)
HostCharKeeps(h, p) ==
  LET new_s == http_parse_host_char(h.s, At(h.mem, p))
      uf == HostField[new_s]
  IN IF h.s = "host_dead" THEN h
     ELSE IF new_s \notin DOMAIN HostField THEN [h EXCEPT !.s = new_s]
     ELSE [h EXCEPT !.s = new_s, !.u.len[uf] = @ + 1, !.u.field_set = @ \cup {uf},
                    !.u.off[uf] = IF new_s # h.s /\ uf # "HOST" THEN p ELSE @]

(* One character of http_parse_host: a field that begins gets its offset,  *)
(* and any but the host, whose length was zeroed before, its length 0 and  *)
(* its bit.                                                                *)
HostChar(h, p) ==
  LET new_s == http_parse_host_char(h.s, At(h.mem, p))
      uf == HostField[new_s]
      begins == new_s # h.s
  IN IF h.s = "host_dead" THEN h
     ELSE IF new_s \notin DOMAIN HostField THEN [h EXCEPT !.s = new_s]
     ELSE [h EXCEPT !.s = new_s,
            !.u.off[uf] = IF begins THEN p ELSE @,
            !.u.len[uf] = IF begins /\ uf # "HOST" THEN 1 ELSE @ + 1,
            !.u.field_set = IF begins /\ uf # "HOST" THEN @ \cup {uf} ELSE @]

(* Mutant: an empty host is a host. *)
HostUnfinishedMore == {"host_v6_start", "host_v6", "host_port_start", "userinfo",
                       "userinfo_start", "host_dead"}

HostUnfinished == {"host_start", "host_v6_start", "host_v6", "host_port_start",
                   "userinfo", "userinfo_start", "host_dead"}

(* http_parse_host: buflen is what field_data says of the host. *)
http_parse_host(mem, v, found_at) ==
  LET first == v.off["HOST"]
      end == first + v.len["HOST"]
      start == [s |-> IF found_at THEN "userinfo_start" ELSE "host_start",
                u |-> [v EXCEPT !.len["HOST"] = 0], mem |-> mem]
      h == FoldLeft(HostChar, start, [i \in 1..(end - first) |-> first + i - 1])
  IN [u |-> h.u, ret |-> IF h.s \in HostUnfinished THEN 1 ELSE 0]

UrlField == [s_req_schema |-> "SCHEMA", s_req_server_with_at |-> "HOST", s_req_server |-> "HOST",
             s_req_path |-> "PATH", s_req_query_string |-> "QUERY", s_req_fragment |-> "FRAGMENT"]

(* One character of http_parser_parse_url. *)
UrlChar(c, p) ==
  LET s == parse_url_char(c.s, c.mem[p + 1])
      uf == UrlField[s]
  IN IF c.s = "s_dead" THEN c
     ELSE IF s \notin DOMAIN UrlField THEN [c EXCEPT !.s = s]
     ELSE IF uf = c.old_uf
     THEN [c EXCEPT !.s = s, !.u.len[uf] = @ + 1, !.found_at = @ \/ s = "s_req_server_with_at"]
     ELSE [c EXCEPT !.s = s, !.u.off[uf] = p, !.u.len[uf] = 1,
            !.u.field_set = @ \cup {uf}, !.old_uf = uf,
            !.found_at = @ \/ s = "s_req_server_with_at"]

(* strtoul(buf + off, NULL, 10): the digits it finds, wherever they end. *)
strtoul(mem, off) ==
  LET digits == {n \in 0..(Len(mem) - off) : \A i \in 1..n : IS_NUM(mem[off + i])}
      n == CHOOSE k \in digits : \A j \in digits : j <= k
  IN FoldLeft(LAMBDA v, i : 10 * v + DigitOf[mem[off + i]], 0, [i \in 1..n |-> i])

(* Mutant: the port is looked for where the host is. *)
FinishUrlHost(c, is_connect) ==
  LET hst == IF c.u.field_set \cap {"SCHEMA", "HOST"} # {}
             THEN http_parse_host(c.mem, c.u, c.found_at) ELSE [u |-> c.u, ret |-> 0]
      port == strtoul(c.mem, hst.u.off["HOST"])
  IN IF hst.ret # 0 \/ (is_connect /\ hst.u.field_set # {"HOST", "PORT"}) \/ port > MaxPort
     THEN [u |-> hst.u, ret |-> 1] ELSE [u |-> [hst.u EXCEPT !.port = port], ret |-> 0]

(* After the fields: the host is taken apart, a CONNECT request must hold  *)
(* host and port only, and the port is converted.                          *)
FinishUrl(c, is_connect) ==
  LET hst == IF c.u.field_set \cap {"SCHEMA", "HOST"} # {}
             THEN http_parse_host(c.mem, c.u, c.found_at) ELSE [u |-> c.u, ret |-> 0]
      v == hst.u
      port == strtoul(c.mem, v.off["PORT"])
  IN IF hst.ret # 0 \/ (is_connect /\ v.field_set # {"HOST", "PORT"}) THEN [u |-> v, ret |-> 1]
     ELSE IF "PORT" \notin v.field_set THEN [u |-> v, ret |-> 0]
     ELSE IF port > MaxPort THEN [u |-> v, ret |-> 1]
     ELSE [u |-> [v EXCEPT !.port = port], ret |-> 0]

http_parser_parse_url(mem, buflen, is_connect, v) ==
  LET start == [s |-> IF is_connect THEN "s_req_server_start" ELSE "s_req_spaces_before_url",
                u |-> [v EXCEPT !.port = 0, !.field_set = {}], mem |-> mem,
                old_uf |-> "MAX", found_at |-> FALSE]
      c == FoldLeft(UrlChar, start, [i \in 1..buflen |-> i - 1])
  IN IF c.s = "s_dead" THEN [u |-> c.u, ret |-> 1] ELSE FinishUrl(c, is_connect)

-----------------------------------------------------------------------------
Init == u = ZeroUrl /\ buf = <<>> /\ after = <<>> /\ ret = -1 /\ calls = 0

(* A caller parses one more URL, into the same structure. *)
ParseUrl(b, is_connect) ==
  /\ calls' = calls + 1
  /\ \E mem \in Behind :
       LET r == http_parser_parse_url(b \o mem, Len(b), is_connect,
                                      IF Cleared THEN ZeroUrl ELSE u)
       IN u' = r.u /\ ret' = r.ret /\ buf' = b /\ after' = mem

Next == calls < MaxCalls /\ \E b \in Urls, is_connect \in BOOLEAN : ParseUrl(b, is_connect)

Spec == Init /\ [][Next]_vars

-----------------------------------------------------------------------------
Span(uf) == (u.off[uf] + 1)..(u.off[uf] + u.len[uf])

(* A URL that http_parser_parse_url accepts is cut without loss: the       *)
(* fields lie in the URL, no two share a character, and what is in none of *)
(* them is punctuation.                                                    *)
FieldsCover ==
  ret = 0 =>
    /\ \A x \in u.field_set : Span(x) \subseteq DOMAIN buf
    /\ \A x, y \in u.field_set : x # y => Span(x) \cap Span(y) = {}
    /\ \A i \in DOMAIN buf \ UNION {Span(x) : x \in u.field_set} :
         buf[i] \in {":", "/", "?", "#", "@", "[", "]"}

(* "host must be present if there is a schema": a URL with a schema and no *)
(* host is refused.                                                        *)
HostPresent == ret = 0 /\ "SCHEMA" \in u.field_set => "HOST" \in u.field_set

(* The number in u.port is the one the port field of the URL spells.       *)
PortIsField ==
  ret = 0 /\ "PORT" \in u.field_set =>
    u.port = FoldLeft(LAMBDA v, i : 10 * v + DigitOf[buf[u.off["PORT"] + i]], 0,
                      [i \in 1..u.len["PORT"] |-> i])

=============================================================================
