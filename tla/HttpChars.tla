------------------------------ MODULE HttpChars ------------------------------
(***************************************************************************)
(* The character classes of http_parser.c and parse_url_char, the URL      *)
(* automaton that http_parser_execute and http_parser_parse_url share, in  *)
(* the build's non-strict mode (HTTP_PARSER_STRICT=0).  A character is a   *)
(* one-character string.                                                   *)
(***************************************************************************)
EXTENDS Integers, Sequences, SequencesExt

CR == "\r"
LF == "\n"
SP == " "
TAB == "\t"

Capitals == <<"A","B","C","D","E","F","G","H","I","J","K","L","M",
              "N","O","P","Q","R","S","T","U","V","W","X","Y","Z">>
Smalls == <<"a","b","c","d","e","f","g","h","i","j","k","l","m",
            "n","o","p","q","r","s","t","u","v","w","x","y","z">>
LowerOf == [c \in ToSet(Capitals) |->
              Smalls[CHOOSE i \in 1..26 : Capitals[i] = c]]
LOWER(c) == IF c \in DOMAIN LowerOf THEN LowerOf[c] ELSE c
Letters == ToSet(Capitals) \cup ToSet(Smalls)
DigitOf == [c \in {"0","1","2","3","4","5","6","7","8","9"} |->
              (CHOOSE i \in 1..10 :
                 <<"0","1","2","3","4","5","6","7","8","9">>[i] = c) - 1]
unhex == [c \in DOMAIN DigitOf \cup {"a","b","c","d","e","f","A","B","C","D","E","F"} |->
            IF c \in DOMAIN DigitOf THEN DigitOf[c]
            ELSE 9 + CHOOSE i \in 1..6 : Smalls[i] = LOWER(c)]
IS_ALPHA(c) == c \in Letters
IS_NUM(c) == c \in DOMAIN DigitOf
IS_USERINFO_CHAR(c) ==
  IS_ALPHA(c) \/ IS_NUM(c)
    \/ c \in {"-","_",".","!","~","*","'","(",")","%",";",":","&","=","+","$",","}
IS_HOST_CHAR(c) == IS_ALPHA(c) \/ IS_NUM(c) \/ c \in {".","-","_"}
IS_URL_CHAR(c) == c \notin {CR, LF, SP, "?", "#"}

-----------------------------------------------------------------------------
ServerChar(ch) ==
  CASE ch = "/" -> "s_req_path"
    [] ch = "?" -> "s_req_query_string_start"
    [] ch = "@" -> "s_req_server_with_at"
    [] IS_USERINFO_CHAR(ch) \/ ch \in {"[", "]"} -> "s_req_server"
    [] OTHER -> "s_dead"

(* static enum state parse_url_char(enum state s, const char ch) *)
parse_url_char(s, ch) ==
  CASE ch \in {SP, CR, LF} -> "s_dead"
    [] s = "s_req_spaces_before_url" /\ ch \in {"/", "*"} -> "s_req_path"
    [] s = "s_req_spaces_before_url" /\ IS_ALPHA(ch) -> "s_req_schema"
    [] s = "s_req_schema" /\ IS_ALPHA(ch) -> s
    [] s = "s_req_schema" /\ ch = ":" -> "s_req_schema_slash"
    [] s = "s_req_schema_slash" /\ ch = "/" -> "s_req_schema_slash_slash"
    [] s = "s_req_schema_slash_slash" /\ ch = "/" -> "s_req_server_start"
    [] s = "s_req_server_with_at" /\ ch = "@" -> "s_dead"
    [] s \in {"s_req_server_with_at", "s_req_server_start", "s_req_server"} -> ServerChar(ch)
    [] s = "s_req_path" /\ IS_URL_CHAR(ch) -> s
    [] s \in {"s_req_path"} /\ ch = "?" -> "s_req_query_string_start"
    [] s \in {"s_req_query_string_start", "s_req_query_string"} /\ (IS_URL_CHAR(ch) \/ ch = "?")
         -> "s_req_query_string"
    [] s \in {"s_req_path", "s_req_query_string_start", "s_req_query_string"} /\ ch = "#"
         -> "s_req_fragment_start"
    [] s \in {"s_req_fragment_start", "s_req_fragment"} /\ (IS_URL_CHAR(ch) \/ ch = "?")
         -> "s_req_fragment"
    [] s \in {"s_req_fragment_start", "s_req_fragment"} /\ ch = "#" -> s
    [] OTHER -> "s_dead"

=============================================================================
