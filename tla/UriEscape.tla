----------------------------- MODULE UriEscape ------------------------------
(***************************************************************************)
(* The percent encoding of uri_parser.rl: normalize_pct_encoded, encode,   *)
(* decode, and query_params, with a program that builds a query, sends and *)
(* parses it, and one that normalizes a component.  Characters are their   *)
(* codes, 0 to 255.                                                        *)
(***************************************************************************)
EXTENDS Integers, Sequences, SequencesExt

CONSTANTS MaxParams,  \* bound on the parameters of a query
          HexDigits   \* the codes of the digits in the escapes that are normalized

VARIABLES params,   \* the parameters that were appended and not erased
          sent,     \* the query as str() gave it
          escaped,  \* a component, of well-formed escapes and other characters
          normal    \* and as normalize_pct_encoded left it

vars == <<params, sent, escaped, normal>>

Percent == 37
Plus == 43
Space == 32
Amp == 38
Equals == 61
Question == 63

Digits == 48..57
Upper == 65..90
Lower == 97..122
isxdigit(c) == c \in Digits \cup 65..70 \cup 97..102
toupper(c) == IF c \in Lower THEN c - 32 ELSE c

UnescapedToo == Upper \cup Lower \cup Digits \cup {37, 45, 46, 95, 126}  \* mutant: % as well

(* The characters that normalize_pct_encoded leaves unescaped: alpha,      *)
(* digit, hyphen, period, underscore, tilde.                               *)
Unescaped == Upper \cup Lower \cup Digits \cup {45, 46, 95, 126}

HexAt(s, i) == i <= Len(s) /\ isxdigit(s[i])

(* "convert hex to character", from digits in upper case; c is a char, of  *)
(* which codes above 127 are negative and in no case unescaped.            *)
HexValue(d) == IF d < 57 THEN d - 48 ELSE d - 55
PctValue(d1, d2) == (HexValue(toupper(d1)) * 16 + HexValue(toupper(d2))) % 256

(* The machine normalize_pct_encoded, on the string from i on: "%" and two *)
(* digits, "%u" and four, or any other character as it is.                 *)
NormalizeFrom(s) ==
  LET RECURSIVE from(_)
      from(i) ==
        IF i > Len(s) THEN <<>>
        ELSE IF s[i] = Percent /\ HexAt(s, i + 1) /\ HexAt(s, i + 2)
        THEN LET c == PctValue(s[i + 1], s[i + 2])
             IN (IF c \in Unescaped THEN <<c>> ELSE <<Percent, toupper(s[i + 1]), toupper(s[i + 2])>>)
                \o from(i + 3)
        ELSE IF s[i] = Percent /\ i < Len(s) /\ s[i + 1] = 117 /\ \A k \in 2..5 : HexAt(s, i + k)
        THEN <<Percent, 117>> \o [k \in 1..4 |-> toupper(s[i + 1 + k])] \o from(i + 6)
        ELSE <<s[i]>> \o from(i + 1)
  IN from(1)

normalize_pct_encoded(s) == NormalizeFrom(s)

-----------------------------------------------------------------------------
HexDigit(n) == IF n > 9 THEN 65 + n - 10 ELSE 48 + n
char2hex(c) == <<HexDigit(c \div 16), HexDigit(c % 16)>>

hexDigit(d) == IF d >= 65 THEN toupper(d) - 65 + 10 ELSE d - 48
hex2char(first, second) == hexDigit(first) * 16 + hexDigit(second)

(* The characters that encode writes as they are: alphanumeric, and - _ .  *)
(* ! ~ * ' ( ).                                                            *)
Plain == Upper \cup Lower \cup Digits \cup {45, 95, 46, 33, 126, 42, 39, 40, 41}


encode(src) ==
  FlattenSeq([i \in DOMAIN src |->
    IF src[i] = Space THEN <<Plus>>
    ELSE IF src[i] \in Plain THEN <<src[i]>>
    ELSE <<Percent>> \o char2hex(src[i])])

(* decode: a "%" that two digits do not follow passes; what follows the    *)
(* end of the string is its terminating 0, which is no digit.              *)
decode(src) ==
  LET RECURSIVE from(_)
      from(i) ==
        IF i > Len(src) THEN <<>>
        ELSE IF src[i] = Plus THEN <<Space>> \o from(i + 1)
        ELSE IF src[i] = Percent /\ HexAt(src, i + 1) /\ HexAt(src, i + 2)
        THEN <<hex2char(src[i + 1], src[i + 2])>> \o from(i + 3)
        ELSE <<src[i]>> \o from(i + 1)
  IN from(1)

-----------------------------------------------------------------------------
(* query_params: str and the constructor from a query. *)
Str(ps) ==
  IF ps = <<>> THEN <<>>
  ELSE <<Question>> \o FlattenSeq([i \in DOMAIN ps |->
         (IF i = 1 THEN <<>> ELSE <<Amp>>) \o encode(ps[i][1]) \o <<Equals>> \o encode(ps[i][2])])

(* boost::split at c. *)
Split(s, c) ==
  LET RECURSIVE from(_)
      from(r) == IF ~Contains(r, c) THEN <<r>>
                 ELSE LET k == SelectInSeq(r, LAMBDA x : x = c)
                      IN <<SubSeq(r, 1, k - 1)>> \o from(SubSeq(r, k + 1, Len(r)))
  IN from(s)

Param(s) ==
  LET pos == SelectInSeq(s, LAMBDA x : x = Equals)
  IN IF pos = 0 THEN <<s, <<>>>>
     ELSE <<decode(SubSeq(s, 1, pos - 1)), decode(SubSeq(s, pos + 1, Len(s)))>>

query_params(query) ==
  IF Len(query) <= 1 THEN <<>>
  ELSE LET splits == Split(Tail(query), Amp) IN [i \in DOMAIN splits |-> Param(splits[i])]

(* find and erase of a key. *)
find(ps, k) == SelectInSeq(ps, LAMBDA p : p[1] = k)
erase(ps, k) == SelectSeq(ps, LAMBDA p : p[1] # k)

-----------------------------------------------------------------------------
(* One of each kind of character: a letter, space + % & = ? /, a digit, a  *)
(* character above 127.                                                    *)
Kinds == {97, 32, 43, 37, 38, 61, 63, 47, 53, 191}
Keys == {<<>>} \cup {<<a>> : a \in Kinds} \cup {<<37, 50, 66>>}

Init == params = <<>> /\ sent = <<>> /\ escaped = <<>> /\ normal = <<>>

append(k, v) == /\ Len(params) < MaxParams
                /\ params' = Append(params, <<k, v>>)
                /\ sent' = Str(params')
                /\ UNCHANGED <<escaped, normal>>

Erase(k) == /\ params' = erase(params, k) /\ sent' = Str(params')
            /\ UNCHANGED <<escaped, normal>>

Add(piece) == /\ Len(escaped) <= 4
              /\ escaped' = escaped \o piece
              /\ normal' = normalize_pct_encoded(escaped')
              /\ UNCHANGED <<params, sent>>

Pieces == {<<c>> : c \in {97, 47, 53}} \cup {<<Percent, d1, d2>> : d1, d2 \in HexDigits}

Query == \/ \E k, v \in Keys : append(k, v)
         \/ \E k \in Keys : Erase(k)
Component == \E piece \in Pieces : Add(piece)

Next == Query \/ Component

Spec == Init /\ [][Next]_vars

-----------------------------------------------------------------------------
(* A query that is parsed again has the parameters it was built from,      *)
(* whichever characters their keys and values have; and decode undoes      *)
(* encode on each.                                                         *)
QueryReturns == query_params(sent) = params

(* "simple machine to normalize percent encoding in uris": the component   *)
(* still names what it named, "convert hex to character" and all, and a    *)
(* second call changes nothing.                                            *)
KeepsMeaning == /\ decode(normal) = decode(escaped)
                /\ normalize_pct_encoded(normal) = normal
=============================================================================
