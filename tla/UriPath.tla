------------------------------ MODULE UriPath -------------------------------
(***************************************************************************)
(* remove_dot_segments, merge_path and uri::transform (uri_parser.rl).  A  *)
(* path is the sequence of the segments between its slashes: "" is <<"">>, *)
(* "/" is <<"", "">>, "/a/.." is <<"", "a", "..">>.                        *)
(***************************************************************************)
EXTENDS Naturals, Sequences, SequencesExt

CONSTANTS Names,       \* segments other than "", "." and ".."
          MaxSegments  \* bound on the length of a path

EmptyPath == <<"">>
Slash == <<"", "">>
StartsWithSlash(p) == Len(p) > 1 /\ p[1] = ""


(* After ".." at i was erased: i goes back over the empty segments to the  *)
(* segment to clear.                                                       *)
Previous(s, i) ==
  LET stop == {j \in 1..i : s[j] # "" \/ j = 1}
  IN CHOOSE j \in stop : \A k \in stop : k <= j

PathLoop(s0) ==
  LET RECURSIVE loop(_, _)
      loop(s, i) ==
        IF i > Len(s) THEN s
        ELSE IF s[i] = "." THEN loop([s EXCEPT ![i] = ""], i + 1)
        ELSE IF s[i] = ".." THEN LET t == RemoveAt(s, i)
                                     j == Previous(t, i - 1)
                                 IN loop([t EXCEPT ![j] = ""], j + 1)
        ELSE loop(s, i + 1)
  IN loop(s0, 1)

(* The segments that are left, and the trailing slash. *)
Reassemble(s) ==
  LET full == SelectSeq(s, LAMBDA seg : seg # "")
      path == <<"">> \o full
  IN IF s[Len(s)] = "" THEN path \o <<"">> ELSE path

remove_dot_segments(path) ==
  IF path = EmptyPath THEN Slash
  ELSE IF path = Slash THEN path
  ELSE Reassemble(PathLoop(path))

(* merge_path: the base up to its last slash; the second search for it     *)
(* begins at the slash that the first has found, and finds it again.       *)
merge_path(base, r) ==
  IF base \in {EmptyPath, Slash} THEN <<"">> \o r
  ELSE SubSeq(base, 1, Len(base) - 1) \o r

(* transform, for the components of a reference that a program sets or     *)
(* parses: "" stands for a component that is empty.                        *)
transform(base, r) ==
  LET own(p) == [scheme |-> r.scheme, host |-> r.host,
                 path |-> remove_dot_segments(p), query |-> r.query]
      withBase(p, q) == [scheme |-> base.scheme, host |-> base.host, path |-> p, query |-> q]
  IN IF r.scheme # "" THEN own(r.path)
     ELSE IF r.host # "" THEN [own(r.path) EXCEPT !.scheme = base.scheme]
     ELSE IF r.path = EmptyPath
          THEN withBase(base.path, IF r.query # "" THEN r.query ELSE base.query)
     ELSE IF StartsWithSlash(r.path) THEN withBase(remove_dot_segments(r.path), r.query)
     ELSE withBase(remove_dot_segments(merge_path(base.path, r.path)), r.query)

-----------------------------------------------------------------------------
(* The program: a base and a reference are set, and the reference is       *)
(* resolved.                                                               *)
VARIABLES base, ref, target

vars == <<base, ref, target>>

Segments == Names \cup {".", ".."}
Inner == UNION {[1..n -> Segments] : n \in 0..MaxSegments}
Absolute == {EmptyPath, Slash} \cup
            {<<"">> \o s \o t : s \in Inner \ {<<>>}, t \in {<<>>, <<"">>}}
Relative == {s \o t : s \in Inner \ {<<>>}, t \in {<<>>, <<"">>}}

None == [scheme |-> "", host |-> "", path |-> EmptyPath, query |-> ""]

Init ==
  /\ base \in {[scheme |-> "http", host |-> "a", path |-> p, query |-> q] : p \in Absolute, q \in {"?q"}}
  /\ \/ ref \in {[scheme |-> s, host |-> h, path |-> p, query |-> q] :
                    s \in {"", "ftp"}, h \in {"", "g"}, p \in Absolute, q \in {"", "?y"}}
     \/ ref \in {[None EXCEPT !.path = p, !.query = q] : p \in Relative, q \in {"", "?y"}}
  /\ target = None

Resolve == target = None /\ target' = transform(base, ref) /\ UNCHANGED <<base, ref>>

(* The target is the base when the reference is followed again, while its  *)
(* path is not longer than the first ones.                                 *)
Follow == target # None /\ Len(target.path) <= MaxSegments + 1 /\ base' = target /\ target' = None /\ UNCHANGED ref

Next == Resolve \/ Follow

Spec == Init /\ [][Next]_vars

-----------------------------------------------------------------------------
(* The definition of RFC 3986, section 5.2: a stack of output segments.    *)
RfcStep(out, seg) == IF seg = "." THEN out
                     ELSE IF seg = ".." THEN SubSeq(out, 1, Len(out) - 1)
                     ELSE Append(out, seg)
RfcRemoveDots(path) ==
  LET last == path[Len(path)]
      out == FoldLeft(RfcStep, <<>>, Tail(path))
  IN IF path = EmptyPath THEN Slash
     ELSE <<"">> \o out \o (IF last \in {".", ".."} THEN <<"">> ELSE <<>>)

RfcPath(b, r) ==
  IF r.scheme # "" \/ r.host # "" THEN RfcRemoveDots(r.path)
  ELSE IF r.path = EmptyPath THEN b.path
  ELSE IF StartsWithSlash(r.path) THEN RfcRemoveDots(r.path)
  ELSE IF b.path = EmptyPath THEN RfcRemoveDots(<<"">> \o r.path)
  ELSE RfcRemoveDots(SubSeq(b.path, 1, Len(b.path) - 1) \o r.path)

(* "examples from http://tools.ietf.org/html/rfc3986#section-5.4.1"        *)
(* (test_uri.cc:96), for every base and reference and not only the         *)
(* examples: transform resolves as the RFC does.  (An empty reference path *)
(* against an empty base path stays empty in both.)                        *)
ResolvesAsRfc ==
  target # None => target.path = RfcPath(base, ref)
=============================================================================
