---------------------------- MODULE QueueTheorems ----------------------------
(* What the operations on a queue do to the set of its elements. *)
EXTENDS Queues, Integers, TLAPS

\* Leaves with many hypotheses need more than the few seconds the provers get by default.
USE SMTT(30), ZenonT(30)

\* What the provers know of sequences: their length and domain, functions that are
\* sequences, and the places of a sequence that was changed at one end.
LEMMA SeqLength ==
    ASSUME NEW S, NEW q \in Seq(S)
    PROVE  Len(q) \in Nat /\ DOMAIN q = 1..Len(q) /\ q \in [1..Len(q) -> S]
  OBVIOUS

\* A function on 1..n is a sequence of that length.
LEMMA SeqMake ==
    ASSUME NEW S, NEW n \in Nat, NEW q \in [1..n -> S]
    PROVE  q \in Seq(S) /\ Len(q) = n
  OBVIOUS

\* The empty sequence is a sequence; any other has a positive length.
LEMMA SeqEmpty ==
    ASSUME NEW S
    PROVE  <<>> \in Seq(S) /\ Len(<<>>) = 0 /\ \A q \in Seq(S) : q # <<>> => Len(q) \in Nat \ {0}
  OBVIOUS

\* What Append returns, position by position.
LEMMA SeqAppend ==
    ASSUME NEW S, NEW q \in Seq(S), NEW e \in S
    PROVE  /\ Append(q, e) \in Seq(S) /\ Append(q, e) # <<>> /\ Len(Append(q, e)) = Len(q) + 1
           /\ Append(q, e)[Len(q) + 1] = e
           /\ \A i \in 1..Len(q) : Append(q, e)[i] = q[i]
  OBVIOUS

\* What Head and Tail return, position by position.
LEMMA SeqTail ==
    ASSUME NEW S, NEW q \in Seq(S), q # <<>>
    PROVE  /\ Head(q) \in S /\ Tail(q) \in Seq(S) /\ Len(Tail(q)) = Len(q) - 1
           /\ \A i \in 1..Len(Tail(q)) : Tail(q)[i] = q[i + 1]
  OBVIOUS

\* What concatenation returns, position by position.
LEMMA SeqConcat ==
    ASSUME NEW S, NEW q \in Seq(S), NEW r \in Seq(S)
    PROVE  /\ q \o r \in Seq(S) /\ Len(q \o r) = Len(q) + Len(r)
           /\ \A i \in 1..(Len(q) + Len(r)) :
                 (q \o r)[i] = IF i <= Len(q) THEN q[i] ELSE r[i - Len(q)]
  OBVIOUS

\* push_back adds one element, and keeps the elements distinct when it is new.
LEMMA AppendLemma ==
    ASSUME NEW S, NEW q \in Seq(S), NEW e \in S
    PROVE  /\ Append(q, e) \in Seq(S) /\ Append(q, e) # <<>>
           /\ Range(Append(q, e)) = Range(q) \cup {e}
           /\ IsInjective(q) /\ e \notin Range(q) => IsInjective(Append(q, e))
  <1> DEFINE r == Append(q, e)
             n == Len(q)
  <1>1. /\ r \in Seq(S) /\ r # <<>> /\ n \in Nat
        /\ DOMAIN q = 1..n /\ DOMAIN r = 1..(n + 1)
        /\ \A i \in 1..n : r[i] = q[i]
        /\ r[n + 1] = e
    BY SeqAppend, SeqLength
  <1> HIDE DEF r, n
  <1>2. Range(r) = Range(q) \cup {e}
    <2>1. ASSUME NEW x \in Range(r) PROVE x \in Range(q) \cup {e}
      BY <1>1 DEF Range
    <2>2. ASSUME NEW x \in Range(q) PROVE x \in Range(r)
      BY <1>1 DEF Range
    <2>3. e \in Range(r)
      BY <1>1 DEF Range
    <2> QED BY <2>1, <2>2, <2>3
  <1>3. ASSUME IsInjective(q), e \notin Range(q) PROVE IsInjective(r)
    <2> SUFFICES ASSUME NEW i \in 1..(n + 1), NEW j \in 1..(n + 1), r[i] = r[j]
                 PROVE  i = j
      BY <1>1 DEF IsInjective
    <2>1. \A k \in 1..n : q[k] # e
      BY <1>1, <1>3 DEF Range
    <2>2. CASE i \in 1..n /\ j \in 1..n
      BY <1>1, <1>3, <2>2 DEF IsInjective
    <2>3. CASE i = n + 1 \/ j = n + 1
      BY <1>1, <2>1, <2>3
    <2> QED BY <1>1, <2>2, <2>3
  <1> QED BY <1>1, <1>2, <1>3 DEF r

\* push_front does the same.
LEMMA PushFrontLemma ==
    ASSUME NEW S, NEW q \in Seq(S), NEW e \in S
    PROVE  /\ PushFront(q, e) \in Seq(S) /\ PushFront(q, e) # <<>>
           /\ Range(PushFront(q, e)) = Range(q) \cup {e}
           /\ IsInjective(q) /\ e \notin Range(q) => IsInjective(PushFront(q, e))
  <1> DEFINE r == PushFront(q, e)
             n == Len(q)
  <1>1. /\ r \in Seq(S) /\ n \in Nat
        /\ Len(r) = n + 1
        /\ DOMAIN q = 1..n /\ DOMAIN r = 1..(n + 1)
        /\ r[1] = e
        /\ \A i \in 1..n : r[i + 1] = q[i]
    <2>1. <<e>> \in Seq(S) /\ Len(<<e>>) = 1 /\ <<e>>[1] = e
      OBVIOUS
    <2> QED BY <2>1, SeqConcat, SeqLength DEF PushFront
  <1> HIDE DEF r, n
  <1>2. r # <<>>
    BY <1>1, SeqEmpty
  <1>3. \A i \in 1..(n + 1) : i = 1 \/ (i - 1 \in 1..n /\ r[i] = q[i - 1])
    <2> SUFFICES ASSUME NEW i \in 1..(n + 1), i # 1
                 PROVE  i - 1 \in 1..n /\ r[i] = q[i - 1]
      OBVIOUS
    <2>1. i - 1 \in 1..n /\ (i - 1) + 1 = i
      BY <1>1
    <2> QED BY <1>1, <2>1
  <1>4. Range(r) = Range(q) \cup {e}
    <2>1. ASSUME NEW x \in Range(r) PROVE x \in Range(q) \cup {e}
      <3>1. PICK i \in 1..(n + 1) : x = r[i]
        BY <1>1 DEF Range
      <3>2. CASE i = 1
        BY <1>1, <3>1, <3>2
      <3>3. CASE i - 1 \in 1..n /\ r[i] = q[i - 1]
        BY <1>1, <3>1, <3>3 DEF Range
      <3> QED BY <1>3, <3>2, <3>3
    <2>2. ASSUME NEW x \in Range(q) PROVE x \in Range(r)
      <3>1. PICK i \in 1..n : x = q[i]
        BY <1>1 DEF Range
      <3>2. i + 1 \in 1..(n + 1) /\ r[i + 1] = x
        BY <1>1, <3>1
      <3> QED BY <1>1, <3>2 DEF Range
    <2>3. e \in Range(r)
      BY <1>1 DEF Range
    <2> QED BY <2>1, <2>2, <2>3
  <1>5. ASSUME IsInjective(q), e \notin Range(q) PROVE IsInjective(r)
    <2> SUFFICES ASSUME NEW i \in 1..(n + 1), NEW j \in 1..(n + 1), r[i] = r[j]
                 PROVE  i = j
      BY <1>1 DEF IsInjective
    <2>1. \A k \in 1..n : q[k] # e
      BY <1>1, <1>5, Zenon DEF Range
    <2>2. \A k, m \in 1..n : q[k] = q[m] => k = m
      BY <1>1, <1>5, Zenon DEF IsInjective
    <2>3. CASE i = 1 \/ j = 1
      BY <1>1, <1>3, <2>1, <2>3
    <2>4. CASE i # 1 /\ j # 1
      <3>1. i - 1 = j - 1
        BY <1>3, <2>2, <2>4
      <3> QED BY <1>1, <3>1
    <2> QED BY <2>3, <2>4
  <1> QED BY <1>1, <1>2, <1>4, <1>5 DEF r

\* pop_front removes the first element, and no other one when they are distinct.
LEMMA TailLemma ==
    ASSUME NEW S, NEW q \in Seq(S), q # <<>>
    PROVE  /\ Head(q) \in S /\ Tail(q) \in Seq(S)
           /\ Head(q) \in Range(q)
           /\ IsInjective(q) => /\ IsInjective(Tail(q))
                                /\ Range(Tail(q)) = Range(q) \ {Head(q)}
  <1> DEFINE r == Tail(q)
             n == Len(q) - 1
  <1>1. /\ Head(q) \in S /\ r \in Seq(S) /\ n \in Nat
        /\ DOMAIN q = 1..(n + 1) /\ DOMAIN r = 1..n
        /\ Head(q) = q[1]
        /\ \A i \in 1..n : r[i] = q[i + 1] /\ i + 1 \in 1..(n + 1)
    BY SeqTail, SeqLength, SeqEmpty
  <1> HIDE DEF r, n
  <1>2. Head(q) \in Range(q)
    BY <1>1 DEF Range
  <1>3. ASSUME IsInjective(q) PROVE IsInjective(r)
    <2> SUFFICES ASSUME NEW i \in 1..n, NEW j \in 1..n, r[i] = r[j] PROVE i = j
      BY <1>1 DEF IsInjective
    <2>1. q[i + 1] = q[j + 1] /\ i + 1 \in DOMAIN q /\ j + 1 \in DOMAIN q
      BY <1>1
    <2>2. i + 1 = j + 1
      BY <1>3, <2>1 DEF IsInjective
    <2> QED BY <1>1, <2>2
  <1>4. ASSUME IsInjective(q) PROVE Range(r) = Range(q) \ {Head(q)}
    <2>1. ASSUME NEW x \in Range(r) PROVE x \in Range(q) \ {Head(q)}
      <3>1. PICK i \in 1..n : x = r[i]
        BY <1>1 DEF Range
      <3>2. x = q[i + 1] /\ i + 1 \in DOMAIN q /\ i + 1 # 1 /\ 1 \in DOMAIN q
        BY <1>1, <3>1
      <3> QED BY <1>1, <1>4, <3>2, Zenon DEF Range, IsInjective
    <2>2. ASSUME NEW x \in Range(q), x # Head(q) PROVE x \in Range(r)
      <3>1. PICK i \in 1..(n + 1) : x = q[i]
        BY <1>1 DEF Range
      <3>2. i - 1 \in 1..n /\ (i - 1) + 1 = i
        BY <1>1, <2>2, <3>1
      <3>3. r[i - 1] = x
        BY <1>1, <3>1, <3>2
      <3> QED BY <1>1, <3>2, <3>3 DEF Range
    <2> QED BY <2>1, <2>2
  <1> QED BY <1>1, <1>2, <1>3, <1>4 DEF r

\* An element of a queue is the first one, or one of the rest.
LEMMA HeadOrTail ==
    ASSUME NEW S, NEW q \in Seq(S), q # <<>>
    PROVE  Range(q) \subseteq Range(Tail(q)) \cup {Head(q)}
  <1> DEFINE r == Tail(q)
             n == Len(q) - 1
  <1>1. /\ n \in Nat /\ DOMAIN q = 1..(n + 1) /\ DOMAIN r = 1..n
        /\ Head(q) = q[1]
        /\ \A i \in 1..n : r[i] = q[i + 1]
    BY SeqTail, SeqLength, SeqEmpty
  <1> HIDE DEF r, n
  <1>2. ASSUME NEW x \in Range(q), x # Head(q) PROVE x \in Range(r)
    <2>1. PICK i \in 1..(n + 1) : x = q[i]
      BY <1>1 DEF Range
    <2>2. i - 1 \in 1..n /\ (i - 1) + 1 = i
      BY <1>1, <1>2, <2>1
    <2>3. r[i - 1] = x
      BY <1>1, <2>1, <2>2
    <2> QED BY <1>1, <2>2, <2>3 DEF Range
  <1> QED BY <1>2 DEF r

\* erase removes the element it has found, and no other one.
LEMMA WithoutLemma ==
    ASSUME NEW S, NEW q \in Seq(S), NEW e \in Range(q)
    PROVE  /\ Without(q, e) \in Seq(S)
           /\ IsInjective(q) => /\ IsInjective(Without(q, e))
                                /\ Range(Without(q, e)) = Range(q) \ {e}
  <1> DEFINE k == CHOOSE i \in DOMAIN q : q[i] = e
             n == Len(q) - 1
             at(i) == IF i < k THEN i ELSE i + 1
             r == Without(q, e)
  <1>1. k \in DOMAIN q /\ q[k] = e
    <2>1. \E i \in DOMAIN q : q[i] = e
      BY DEF Range
    <2> QED BY <2>1
  <1>2. n \in Nat /\ DOMAIN q = 1..(n + 1) /\ k \in 1..(n + 1)
    BY <1>1, SeqLength
  <1>3. r = [i \in 1..n |-> IF i < k THEN q[i] ELSE q[i + 1]]
    BY DEF Without
  <1> HIDE DEF k, n, r
  <1>4. \A i \in 1..n : at(i) \in DOMAIN q /\ at(i) # k /\ r[i] = q[at(i)]
    BY <1>2, <1>3
  <1>5. \A i, j \in 1..n : at(i) = at(j) => i = j
    BY <1>2
  <1>6. \A j \in DOMAIN q : j # k => \E i \in 1..n : at(i) = j
    <2> SUFFICES ASSUME NEW j \in DOMAIN q, j # k PROVE \E i \in 1..n : at(i) = j
      OBVIOUS
    <2>1. CASE j < k
      BY <1>2, <2>1
    <2>2. CASE j > k
      <3>1. j - 1 \in 1..n /\ at(j - 1) = j
        BY <1>2, <2>2
      <3> QED BY <3>1
    <2> QED BY <1>2, <2>1, <2>2
  <1>7. DOMAIN r = 1..n
    BY <1>3
  <1> HIDE DEF at
  <1>8. r \in Seq(S)
    <2>1. \A i \in DOMAIN q : q[i] \in S
      BY SeqLength
    <2>2. r \in [1..n -> S]
      BY <1>3, <1>4, <1>7, <2>1
    <2> QED BY <1>2, <2>2, SeqMake
  <1>9. ASSUME IsInjective(q) PROVE IsInjective(r) /\ Range(r) = Range(q) \ {e}
    <2>1. IsInjective(r)
      BY <1>4, <1>5, <1>7, <1>9 DEF IsInjective
    <2>2. ASSUME NEW x \in Range(r) PROVE x \in Range(q) /\ x # e
      BY <1>1, <1>4, <1>7, <1>9 DEF IsInjective, Range
    <2>3. ASSUME NEW x \in Range(q), x # e PROVE x \in Range(r)
      BY <1>1, <1>4, <1>6, <1>7, <2>3 DEF Range
    <2> QED BY <2>1, <2>2, <2>3
  <1> QED BY <1>8, <1>9 DEF r

\* The empty queue.
LEMMA EmptyLemma == ASSUME NEW S PROVE <<>> \in Seq(S) /\ Range(<<>>) = {} /\ IsInjective(<<>>)
  <1>1. <<>> \in Seq(S) /\ DOMAIN <<>> = {}
    OBVIOUS
  <1> QED BY <1>1 DEF Range, IsInjective

\* A queue of tasks holds tasks.
LEMMA RangeLemma == ASSUME NEW S, NEW q \in Seq(S) PROVE Range(q) \subseteq S
  <1>1. \A i \in DOMAIN q : q[i] \in S
    BY SeqLength
  <1> QED BY <1>1 DEF Range
=============================================================================
