------------------------------ MODULE UriParse ------------------------------
(***************************************************************************)
(* uri::parse, by the machine URI of uri_grammar.rl and the actions of     *)
(* uri_parser.rl, and uri::compose.  A string is a sequence of characters. *)
(* The machine is given by what it has recorded at each delimiter: the     *)
(* position in mark, and the fields assigned from it.  Hosts in brackets   *)
(* are left out.                                                           *)
(***************************************************************************)
EXTENDS Integers, Sequences, SequencesExt, FiniteSetsExt

CONSTANTS Alpha, Figures,  \* the letters and digits that texts have
          Other,         \* other characters of reg_name: unreserved, sub_delims, %
          Users, Hosts, Ports, Paths,  \* the parts that are written; <<>> for none
          Authority                    \* whether there is a host, after "//"

VARIABLES parts,  \* what was written
          text,   \* the string
          u       \* the uri object

vars == <<parts, text, u>>

RegName == Alpha \cup Figures \cup Other
Pchar == RegName \cup {":", "@"}

Error == [error |-> TRUE]

(* The first position of a character of set in s at i or after, or the end. *)
Find(s, i, set) == Min({Len(s) + 1} \cup {k \in i..Len(s) : s[k] \in set})
Sub(s, i, j) == SubSeq(s, i, j - 1)
All(s, i, j, set) == \A k \in i..j - 1 : s[k] \in set

(* strtol(mark, NULL, 0): a leading 0 means octal, up to the first digit   *)
(* that is not; the result goes into 16 bits.                              *)
Numeral == [d \in {"0", "1", "2", "3", "4", "5", "6", "7", "8", "9"} |->
              CHOOSE n \in 0..9 : <<"0", "1", "2", "3", "4", "5", "6", "7", "8", "9">>[n + 1] = d]
Value(s, b) == FoldLeft(LAMBDA v, d : v * b + Numeral[d], 0, s)
strtol(s) ==
  IF s = <<>> THEN 0
  ELSE IF s[1] = "0" THEN Value(Sub(s, 1, Find(s, 1, {"8", "9"})), 8)
  ELSE Value(s, 10)

UserMarkPort(s, a, at) ==  \* mutant: every port mark replaces it
  LET c == Find(s, a, {":"}) IN IF c + 1 < at THEN c + 1 ELSE a

(* Up to "@" the machine does not know whether it reads a userinfo or a    *)
(* host and its port: the mark of a port that seems to begin after the     *)
(* first ":" replaces the mark of the userinfo.                            *)
UserMark(s, a, at) ==
  LET c == Find(s, a, {":"})
  IN IF c + 1 < at /\ s[c + 1] \in Figures THEN c + 1 ELSE a

(* What follows the path, which ends at q. *)
TailOf(s, q) ==
  LET f == Find(s, q, {"#"})
  IN [ok |-> All(s, q + 1, f, Pchar \cup {"/", "?"}) /\ All(s, f + 1, Len(s) + 1, Pchar \cup {"/", "?"}),
      query |-> Sub(s, q, f), fragment |-> Sub(s, f, Len(s) + 1)]

(* "//" authority path_abempty; the authority begins at a. *)
WithAuthority(s, a, scheme) ==
  LET e == Find(s, a, {"/", "?", "#"})
      at == Find(s, a, {"@"})
      user == at < e
      h == IF user THEN at + 1 ELSE a
      c == Min({e, Find(s, h, {":"})})
      q == Find(s, e, {"?", "#"})
      t == TailOf(s, q)
  IN IF /\ user => All(s, a, at, RegName \cup {":"})
        /\ All(s, h, c, RegName) /\ All(s, c + 1, e, Figures)
        /\ All(s, e, q, Pchar \cup {"/"}) /\ t.ok
     THEN [scheme |-> scheme,
           userinfo |-> IF user THEN Sub(s, UserMark(s, a, at), at) ELSE <<>>,
           host |-> Sub(s, h, c),
           port |-> strtol(Sub(s, c + 1, e)) % 65536,
           path |-> Sub(s, e, q), query |-> t.query, fragment |-> t.fragment]
     ELSE Error

(* The other paths have no mark of their own: the last one was set at the  *)
(* beginning of the scheme.                                                *)
WithoutAuthority(s, b, scheme) ==
  LET q == Find(s, b, {"?", "#"})
      t == TailOf(s, q)
  IN IF All(s, b, q, Pchar \cup {"/"}) /\ t.ok
     THEN [scheme |-> scheme, userinfo |-> <<>>, host |-> <<>>, port |-> 0,
           path |-> Sub(s, 1, q), query |-> t.query, fragment |-> t.fragment]
     ELSE Error

parse(s) ==
  LET c == Find(s, 1, {":"})
      scheme == Sub(s, 1, c)
  IN IF c = 1 \/ c > Len(s) \/ s[1] \notin Alpha \/ ~All(s, 2, c, Alpha \cup Figures \cup {"+", "-", "."})
     THEN Error
     ELSE IF Sub(s, c + 1, Min({c + 3, Len(s) + 1})) = <<"/", "/">>
     THEN WithAuthority(s, c + 3, scheme)
     ELSE WithoutAuthority(s, c + 1, scheme)

-----------------------------------------------------------------------------
Decimal(n) ==
  LET digit == <<"0", "1", "2", "3", "4", "5", "6", "7", "8", "9">>
      RECURSIVE dec(_)
      dec(k) == (IF k < 10 THEN <<>> ELSE dec(k \div 10)) \o <<digit[(k % 10) + 1]>>
  IN dec(n)

compose(o) ==
  (IF o.scheme # <<>> THEN o.scheme \o <<":">> ELSE <<>>)
  \o (IF o.userinfo # <<>> \/ o.host # <<>> THEN <<"/", "/">> ELSE <<>>)
  \o (IF o.userinfo # <<>> THEN o.userinfo \o <<"@">> ELSE <<>>)
  \o (IF o.host # <<>>
      THEN o.host \o (IF o.port # 0 THEN <<":">> \o Decimal(o.port) ELSE <<>>)
      ELSE <<>>)
  \o (IF o.path # <<>> /\ o.path[1] # "/" THEN <<"/">> ELSE <<>>)
  \o o.path \o o.query \o o.fragment

-----------------------------------------------------------------------------
(* A program that is given a uri of known parts, assigns it and composes   *)
(* it again.                                                               *)
Char == {"h", "8", ".", "/", "?", "@", ":"}

(* The text of the parts, and the object that must come of it. *)
Write(p) ==
  p.scheme \o <<":">>
  \o (IF Authority THEN <<"/", "/">> ELSE <<>>)
  \o (IF p.user # <<>> THEN p.user \o <<"@">> ELSE <<>>) \o p.host
  \o (IF p.port # <<>> THEN <<":">> \o p.port ELSE <<>>)
  \o p.path \o p.query \o p.fragment

Meant(p) ==
  [scheme |-> p.scheme, userinfo |-> p.user, host |-> p.host, port |-> Value(p.port, 10),
   path |-> p.path, query |-> p.query, fragment |-> p.fragment]

Init ==
  /\ parts \in [scheme : {<<"h">>, <<"h", "8">>}, user : Users, host : Hosts, port : Ports, path : Paths,
                query : {<<>>} \cup {<<"?">> \o q : q \in {<<>>} \cup {<<c>> : c \in Char}},
                fragment : {<<>>} \cup {<<"#">> \o q : q \in {<<>>} \cup {<<c>> : c \in Char}}]
  /\ text = Write(parts)
  /\ u = Error

assign == u = Error /\ u' = parse(text) /\ u' # Error /\ UNCHANGED <<parts, text>>
recompose == u # Error /\ text' = compose(u) /\ u' = Error /\ UNCHANGED parts

Next == assign \/ recompose

Spec == Init /\ [][Next]_vars

-----------------------------------------------------------------------------
(* parse gives each part of the text to its field, as the parts of         *)
(* test_uri.cc (ParseParts), and composing what was parsed gives the text  *)
(* again (Compose).                                                        *)
ReturnsParts == /\ u # Error => u = Meant(parts)
                /\ text = Write(parts)
=============================================================================
