----------------------------- MODULE QutexProof -----------------------------
(***************************************************************************)
(* The theorems about Qutex, for any number of tasks: mutual exclusion,    *)
(* the hand-over, and that it implements FifoLock.                         *)
(***************************************************************************)
EXTENDS Qutex, QueueTheorems

\* Leaves with many hypotheses need more than the few seconds the provers get by default.
USE SMTT(30), ZenonT(30)

-----------------------------------------------------------------------------
(* A queue that begins with one more element: FifoLock keeps the owner at the
   head of its line, Qutex beside the list of those who wait. *)

\* Two queues are equal when they have the same elements in the same places.
LEMMA SameQueue ==
    ASSUME NEW S, NEW q \in Seq(S), NEW r \in Seq(S), Len(q) = Len(r),
           \A i \in 1..Len(q) : q[i] = r[i]
    PROVE  q = r
  OBVIOUS

\* The places of a queue with an element pushed to its front.
LEMMA FrontPlaces ==
    ASSUME NEW S, NEW q \in Seq(S), NEW e \in S
    PROVE  /\ PushFront(q, e) \in Seq(S) /\ Len(PushFront(q, e)) = Len(q) + 1
           /\ PushFront(q, e)[1] = e
           /\ \A i \in 2..(Len(q) + 1) : PushFront(q, e)[i] = q[i - 1]
  <1>1. <<e>> \in Seq(S) /\ Len(<<e>>) = 1 /\ <<e>>[1] = e
    OBVIOUS
  <1> QED BY <1>1, SeqConcat, SeqLength DEF PushFront

\* The first element, and the rest, of a queue; push_back commutes with push_front.
LEMMA FrontLemma ==
    ASSUME NEW S, NEW q \in Seq(S), NEW e \in S
    PROVE  /\ Head(PushFront(q, e)) = e
           /\ Tail(PushFront(q, e)) = q
           /\ \A x \in S : Append(PushFront(q, e), x) = PushFront(Append(q, x), e)
           /\ q # <<>> => PushFront(Tail(q), Head(q)) = q
           /\ q = <<>> => PushFront(q, e) = Append(<<>>, e)
  <1> DEFINE r == PushFront(q, e)
             n == Len(q)
  <1>1. /\ r \in Seq(S) /\ n \in Nat /\ Len(r) = n + 1 /\ r[1] = e /\ r # <<>>
        /\ \A i \in 2..(n + 1) : r[i] = q[i - 1]
    BY FrontPlaces, PushFrontLemma, SeqLength
  <1>2. Head(r) = e
    BY <1>1, SeqTail
  <1>3. Tail(r) = q
    <2>1. Tail(r) \in Seq(S) /\ Len(Tail(r)) = n /\ \A i \in 1..n : Tail(r)[i] = r[i + 1]
      BY <1>1, SeqTail
    <2> HIDE DEF r, n
    <2>2. ASSUME NEW i \in 1..n PROVE r[i + 1] = q[i]
      <3>1. i + 1 \in 2..(n + 1) /\ (i + 1) - 1 = i
        BY <1>1
      <3> QED BY <1>1, <3>1
    <2> QED BY <1>1, <2>1, <2>2, SameQueue DEF n
  <1>4. ASSUME NEW x \in S PROVE Append(r, x) = PushFront(Append(q, x), e)
    <2> DEFINE s == Append(r, x)
               u == Append(q, x)
               v == PushFront(u, e)
    <2>1. /\ s \in Seq(S) /\ Len(s) = n + 2 /\ \A i \in 1..(n + 1) : s[i] = r[i]
          /\ s[n + 2] = x
      BY <1>1, SeqAppend
    <2>2. u \in Seq(S) /\ Len(u) = n + 1 /\ (\A i \in 1..n : u[i] = q[i]) /\ u[n + 1] = x
      BY <1>1, SeqAppend
    <2>3. /\ v \in Seq(S) /\ Len(v) = n + 2 /\ v[1] = e
          /\ \A i \in 2..(n + 2) : v[i] = u[i - 1]
      <3> HIDE DEF u, r, n
      <3>0. u \in Seq(S)
        BY <2>2
      <3>1. /\ v \in Seq(S) /\ Len(v) = Len(u) + 1 /\ v[1] = e
            /\ \A i \in 2..(Len(u) + 1) : v[i] = u[i - 1]
        BY <3>0, FrontPlaces
      <3> HIDE DEF v
      <3> QED BY <1>1, <2>2, <3>1
    <2> HIDE DEF s, u, v, r, n
    <2>4. ASSUME NEW i \in 1..(n + 2) PROVE s[i] = v[i]
      <3>1. CASE i = 1
        BY <1>1, <2>1, <2>3, <3>1
      <3>2. CASE i \in 2..(n + 1)
        <4>1. i - 1 \in 1..n /\ i \in 2..(n + 2)
          BY <1>1, <3>2
        <4>2. s[i] = r[i] /\ r[i] = q[i - 1]
          BY <1>1, <2>1, <3>2, <4>1
        <4>3. v[i] = u[i - 1] /\ u[i - 1] = q[i - 1]
          BY <1>1, <2>2, <2>3, <4>1
        <4> QED BY <4>1, <4>2, <4>3
      <3>3. CASE i = n + 2
        <4>1. i \in 2..(n + 2) /\ i - 1 = n + 1
          BY <1>1, <3>3
        <4> QED BY <2>1, <2>2, <2>3, <3>3, <4>1
      <3> QED BY <1>1, <3>1, <3>2, <3>3
    <2>5. s = v
      BY <2>1, <2>3, <2>4, SameQueue
    <2> QED BY <2>5 DEF s, u, v, r
  <1>5. ASSUME q # <<>> PROVE PushFront(Tail(q), Head(q)) = q
    <2>1. /\ Head(q) \in S /\ Head(q) = q[1] /\ Tail(q) \in Seq(S) /\ n > 0
          /\ Len(Tail(q)) = n - 1 /\ \A i \in 1..(n - 1) : Tail(q)[i] = q[i + 1]
      BY <1>1, <1>5, SeqTail, SeqEmpty
    <2> DEFINE v == PushFront(Tail(q), Head(q))
    <2>2. v \in Seq(S) /\ Len(v) = n /\ v[1] = q[1] /\ \A i \in 2..n : v[i] = Tail(q)[i - 1]
      <3>0. PICK h \in S, w \in Seq(S) : h = Head(q) /\ w = Tail(q)
        BY <2>1, Zenon
      <3>1. /\ PushFront(w, h) \in Seq(S) /\ Len(PushFront(w, h)) = Len(w) + 1
            /\ PushFront(w, h)[1] = h
            /\ \A i \in 2..(Len(w) + 1) : PushFront(w, h)[i] = w[i - 1]
        BY ONLY h \in S, w \in Seq(S), FrontPlaces, SMTT(30)
      <3>3. v = PushFront(w, h)
        BY <3>0
      <3> HIDE DEF v, n
      <3>2. (n - 1) + 1 = n
        BY <1>1
      <3> QED BY <2>1, <3>0, <3>1, <3>2, <3>3
    <2> HIDE DEF v, n
    <2>3. ASSUME NEW i \in 1..n PROVE v[i] = q[i]
      <3>1. CASE i = 1
        BY <2>2, <3>1
      <3>2. CASE i \in 2..n
        <4>1. i - 1 \in 1..(n - 1) /\ (i - 1) + 1 = i
          BY <1>1, <3>2
        <4> QED BY <2>1, <2>2, <3>2, <4>1
      <3> QED BY <1>1, <3>1, <3>2
    <2>4. v = q
      BY <2>2, <2>3, SameQueue DEF n
    <2> QED BY <2>4 DEF v
  <1>6. ASSUME q = <<>> PROVE r = Append(<<>>, e)
    BY <1>6 DEF PushFront
  <1> QED BY <1>2, <1>3, <1>4, <1>5, <1>6

\* erase from a queue with an element pushed to its front.
LEMMA FrontWithout ==
    ASSUME NEW S, NEW q \in Seq(S), NEW e \in S, IsInjective(q), e \notin Range(q)
    PROVE  /\ Without(PushFront(q, e), e) = q
           /\ \A x \in Range(q) : Without(PushFront(q, e), x) = PushFront(Without(q, x), e)
  <1> DEFINE r == PushFront(q, e)
             n == Len(q)
  <1>1. /\ r \in Seq(S) /\ n \in Nat /\ Len(r) = n + 1 /\ r[1] = e /\ IsInjective(r)
        /\ Range(r) = Range(q) \cup {e} /\ DOMAIN r = 1..(n + 1) /\ DOMAIN q = 1..n
        /\ \A i \in 1..n : r[i + 1] = q[i]
        /\ \A i \in 2..(n + 1) : r[i] = q[i - 1]
    <2>1. n \in Nat /\ DOMAIN q = 1..n
      BY SeqLength
    <2>2. r \in Seq(S) /\ IsInjective(r) /\ Range(r) = Range(q) \cup {e}
      BY PushFrontLemma
    <2>3. Len(r) = n + 1 /\ r[1] = e /\ \A i \in 2..(n + 1) : r[i] = q[i - 1]
      BY FrontPlaces
    <2> HIDE DEF r, n
    <2>5. ASSUME NEW i \in 1..n PROVE r[i + 1] = q[i]
      <3>1. i + 1 \in 2..(n + 1) /\ (i + 1) - 1 = i
        BY <2>1
      <3> QED BY <2>3, <3>1
    <2>4. DOMAIN r = 1..(n + 1)
      BY <2>2, <2>3, SeqLength
    <2> QED BY <2>1, <2>2, <2>3, <2>4, <2>5
  <1> HIDE DEF r, n
  <1>2. \A x \in Range(r) : \A i \in DOMAIN r : r[i] = x => (CHOOSE j \in DOMAIN r : r[j] = x) = i
    BY <1>1 DEF IsInjective
  <1>3. Without(r, e) = q
    <2>1. (CHOOSE j \in DOMAIN r : r[j] = e) = 1
      BY <1>1, <1>2
    <2>2. Without(r, e) = [i \in 1..n |-> r[i + 1]]
      <3>1. Without(r, e) = [i \in 1..(Len(r) - 1) |-> IF i < 1 THEN r[i] ELSE r[i + 1]]
        BY <2>1, Zenon DEF Without
      <3>2. Len(r) - 1 = n
        BY <1>1
      <3> QED BY <1>1, <3>1, <3>2
    <2>3. Without(r, e) \in Seq(S)
      BY <1>1, WithoutLemma
    <2>4. Len(Without(r, e)) = n
      BY <1>1, <2>2, <2>3, SeqLength
    <2> QED BY <1>1, <2>2, <2>3, <2>4, SameQueue DEF n
  <1>4. ASSUME NEW x \in Range(q) PROVE Without(r, x) = PushFront(Without(q, x), e)
    <2> DEFINE k == CHOOSE j \in DOMAIN q : q[j] = x
               w == Without(q, x)
               v == PushFront(w, e)
               u == Without(r, x)
    <2>1. k \in 1..n /\ q[k] = x
      <3>1. \E i \in DOMAIN q : q[i] = x
        BY DEF Range
      <3> QED BY <1>1, <3>1
    <2>2. w = [i \in 1..(n - 1) |-> IF i < k THEN q[i] ELSE q[i + 1]]
      BY DEF Without, n
    <2>3. (CHOOSE j \in DOMAIN r : r[j] = x) = k + 1
      <3> HIDE DEF k
      <3>1. k + 1 \in DOMAIN r /\ r[k + 1] = x
        BY <1>1, <2>1
      <3> QED BY <1>1, <1>2, <3>1
    <2>4. u = [i \in 1..n |-> IF i < k + 1 THEN r[i] ELSE r[i + 1]]
      <3>1. u = [i \in 1..(Len(r) - 1) |-> IF i < k + 1 THEN r[i] ELSE r[i + 1]]
        BY <2>3, Zenon DEF Without
      <3>2. Len(r) - 1 = n
        BY <1>1
      <3> QED BY <3>1, <3>2
    <2>5. u \in Seq(S) /\ w \in Seq(S)
      BY <1>1, WithoutLemma
    <2> HIDE DEF k, w, u
    <2>6. n - 1 \in Nat /\ Len(w) = n - 1 /\ Len(u) = n
      BY <1>1, <2>1, <2>2, <2>4, <2>5, SeqLength
    <2>7. v \in Seq(S) /\ Len(v) = n /\ v[1] = e /\ \A i \in 2..n : v[i] = w[i - 1]
      BY <1>1, <2>5, <2>6, FrontPlaces
    <2> HIDE DEF v
    <2>8. ASSUME NEW i \in 1..n PROVE u[i] = v[i]
      <3>1. CASE i = 1
        BY <1>1, <2>1, <2>4, <2>7, <3>1
      <3>2. CASE i \in 2..n
        <4>1. i - 1 \in 1..(n - 1) /\ (i - 1) + 1 = i
          BY <1>1, <3>2
        <4>2. v[i] = IF i - 1 < k THEN q[i - 1] ELSE q[i]
          BY <2>2, <2>7, <3>2, <4>1
        <4>3. u[i] = IF i - 1 < k THEN r[i] ELSE r[i + 1]
          BY <1>1, <2>1, <2>4, <3>2
        <4>4. r[i] = q[i - 1] /\ r[i + 1] = q[i]
          BY <1>1, <3>2
        <4> QED BY <4>2, <4>3, <4>4
      <3> QED BY <1>1, <3>1, <3>2
    <2>9. u = v
      BY <2>5, <2>6, <2>7, <2>8, SameQueue
    <2> QED BY <2>9 DEF u, v, w
  <1> QED BY <1>3, <1>4 DEF r

\* The same facts one by one.
LEMMA FrontRange ==
    ASSUME NEW S, NEW q \in Seq(S), NEW e \in S
    PROVE  Range(PushFront(q, e)) = Range(q) \cup {e}
  BY PushFrontLemma

\* Pushing at the front and pushing at the back commute.
LEMMA FrontAppend ==
    ASSUME NEW S, NEW q \in Seq(S), NEW e \in S, NEW x \in S
    PROVE  Append(PushFront(q, e), x) = PushFront(Append(q, x), e)
  BY FrontLemma

-----------------------------------------------------------------------------
\* The list holds each waiting task once, and never the owner.
Line ==
    /\ IsInjective(waiting)
    /\ \A t \in Range(waiting) : t # owner /\ pc[t] \in InLock
    /\ \A t \in Tasks : pc[t] = "holds" => t = owner

\* The inductive invariant.
Inv == TypeOK /\ HandOver /\ Line

\* Only the owner returns from lock().
LEMMA InvExcludes == Inv => MutualExclusion
  BY DEF Inv, Line, MutualExclusion

\* The empty list.
LEMMA InitInv == Init => Inv
  <1> SUFFICES ASSUME Init PROVE Inv
    OBVIOUS
  <1>1. <<>> \in Seq(Tasks) /\ Range(<<>>) = {} /\ IsInjective(<<>>)
    BY EmptyLemma
  <1>2. TypeOK
    BY <1>1 DEF Init, TypeOK, Places
  <1>3. HandOver
    BY DEF Init, HandOver, InLock
  <1>4. Line
    BY <1>1 DEF Init, Line
  <1> QED BY <1>2, <1>3, <1>4 DEF Inv

\* What one task does to the lock in unlock_or_giveup, seen from the others: it
\* leaves, and the first waiter has the lock and its token.
LEMMA LeaveInv ==
    ASSUME Inv, NEW t \in Tasks, pc[t] \in {"holds", "giveup"}, UnlockOrGiveup(t),
           Goto(t, "idle"), UNCHANGED interrupted
    PROVE  Inv'
  <1>t. /\ pc \in [Tasks -> Places] /\ token \in [Tasks -> BOOLEAN] /\ waiting \in Seq(Tasks)
        /\ owner \in Tasks \cup {None}
    BY DEF Inv, TypeOK
  <1>p. /\ pc' \in [Tasks -> Places] /\ pc'[t] = "idle"
        /\ \A u \in Tasks \ {t} : pc'[u] = pc[u]
    BY <1>t DEF Goto, Places
  <1>h. HandOver /\ Line
    BY DEF Inv
  <1>n. None \notin Tasks
    BY QutexAssumption
  <1>1. CASE owner = t /\ waiting = <<>>
    <2>1. owner' = None /\ waiting' = <<>> /\ token' = token
      BY <1>1, <1>n DEF UnlockOrGiveup
    <2>2. Range(waiting) = {} /\ <<>> \in Seq(Tasks) /\ IsInjective(<<>>)
      BY <1>1, EmptyLemma
    <2>3. TypeOK'
      BY <1>t, <1>p, <2>1, <2>2 DEF TypeOK, Inv
    <2>4. HandOver'
      BY <1>1, <1>h, <1>p, <2>1, <2>2 DEF HandOver, InLock
    <2>5. Line'
      BY <1>1, <1>h, <1>p, <2>1, <2>2 DEF Line
    <2> QED BY <2>3, <2>4, <2>5 DEF Inv
  <1>2. CASE owner = t /\ waiting # <<>>
    <2> DEFINE u == Head(waiting)
    <2>1. /\ owner' = u /\ waiting' = Tail(waiting) /\ token' = [token EXCEPT ![u] = TRUE]
      BY <1>2 DEF UnlockOrGiveup
    <2>2. /\ u \in Tasks /\ u \in Range(waiting) /\ Tail(waiting) \in Seq(Tasks)
          /\ IsInjective(Tail(waiting)) /\ Range(Tail(waiting)) = Range(waiting) \ {u}
      BY <1>2, <1>t, <1>h, TailLemma DEF Line
    <2> HIDE DEF u
    <2>3. u # t /\ pc'[u] \in InLock
      BY <1>2, <1>h, <1>p, <2>2 DEF Line
    <2>4. TypeOK'
      BY <1>t, <1>p, <2>1, <2>2 DEF TypeOK, Inv
    <2>5. token'[u]
      BY <1>t, <2>1, <2>2
    <2>6. HandOver'
      <3>1. \A v \in Tasks : pc'[v] \in InLock => v = owner' \/ v \in Range(waiting')
        BY <1>2, <1>h, <1>p, <2>1, <2>2 DEF HandOver, InLock
      <3> QED BY <1>n, <2>1, <2>2, <2>3, <2>5, <3>1 DEF HandOver
    <2>7. Line'
      <3>1. Range(waiting) \subseteq Tasks
        BY <1>t, RangeLemma
      <3>2. \A v \in Range(waiting') : v # owner' /\ pc'[v] \in InLock
        BY <1>2, <1>h, <1>p, <2>1, <2>2, <3>1 DEF Line
      <3>3. \A v \in Tasks : pc'[v] = "holds" => v = owner'
        BY <1>2, <1>h, <1>p DEF Line
      <3> QED BY <2>1, <2>2, <3>2, <3>3 DEF Line
    <2> QED BY <2>4, <2>6, <2>7 DEF Inv
  <1>3. CASE owner # t
    <2>1. t \in Range(waiting)
      BY <1>3, <1>h DEF HandOver, Line, InLock
    <2>2. owner' = owner /\ waiting' = Without(waiting, t) /\ token' = token
      BY <1>3, <2>1 DEF UnlockOrGiveup, Erase
    <2>3. /\ waiting' \in Seq(Tasks) /\ IsInjective(waiting')
          /\ Range(waiting') = Range(waiting) \ {t}
      BY <1>t, <1>h, <2>1, <2>2, WithoutLemma DEF Line
    <2>4. TypeOK'
      BY <1>t, <1>p, <2>2, <2>3 DEF TypeOK, Inv
    <2>5. owner # None
      <3>1. waiting # <<>>
        BY <2>1, EmptyLemma
      <3> QED BY <1>h, <3>1 DEF HandOver
    <2>6. HandOver'
      <3>1. \A v \in Tasks : pc'[v] \in InLock => v = owner' \/ v \in Range(waiting')
        BY <1>h, <1>p, <2>2, <2>3 DEF HandOver, InLock
      <3> QED BY <1>3, <1>t, <1>h, <1>p, <2>2, <2>5, <3>1 DEF HandOver
    <2>7. Line'
      <3>1. Range(waiting) \subseteq Tasks
        BY <1>t, RangeLemma
      <3>2. \A v \in Range(waiting') : v # owner' /\ pc'[v] \in InLock
        BY <1>h, <1>p, <2>2, <2>3, <3>1 DEF Line
      <3>3. \A v \in Tasks : pc'[v] = "holds" => v = owner'
        BY <1>h, <1>p, <2>2 DEF Line
      <3> QED BY <2>3, <3>2, <3>3 DEF Line
    <2> QED BY <2>4, <2>6, <2>7 DEF Inv
  <1> QED BY <1>1, <1>2, <1>3

\* A task that moves inside lock() leaves the lock alone: it goes on as a waiter, or
\* returns because it is the owner.
LEMMA MoveInv ==
    ASSUME Inv, NEW t \in Tasks, NEW p \in InLock \cup {"holds"}, pc[t] \in InLock,
           Goto(t, p), UNCHANGED <<owner, waiting>>,
           p = "holds" => owner = t,
           p = "parked" => pc[t] = "swap" /\ UNCHANGED token,
           \A u \in Tasks \ {t} : token'[u] = token[u],
           token' \in [Tasks -> BOOLEAN], interrupted' \in [Tasks -> BOOLEAN],
           p = "parked" /\ owner = t => token[t],
           p # "swap" \/ owner # t
    PROVE  Inv'
  <1>t. /\ pc \in [Tasks -> Places] /\ waiting \in Seq(Tasks) /\ owner \in Tasks \cup {None}
    BY DEF Inv, TypeOK
  <1>p. /\ pc' \in [Tasks -> Places] /\ pc'[t] = p
        /\ \A u \in Tasks \ {t} : pc'[u] = pc[u]
    BY <1>t DEF Goto, Places, InLock
  <1>h. HandOver /\ Line /\ Range(waiting) \subseteq Tasks
    BY <1>t, RangeLemma DEF Inv
  <1>1. TypeOK'
    BY <1>t, <1>p DEF TypeOK
  <1>2. HandOver'
    BY <1>t, <1>h, <1>p DEF HandOver, InLock
  <1>3. Line'
    <2>1. t \in Range(waiting) => p # "holds"
      BY <1>h DEF Line
    <2> QED BY <1>h, <1>p, <2>1 DEF Line, InLock
  <1> QED BY <1>1, <1>2, <1>3 DEF Inv

\* Lock and TryLock: the task takes a free qutex, or becomes the last waiter.
LEMMA ArriveInv ==
    ASSUME Inv, NEW t \in Tasks, Lock(t) \/ TryLock(t)
    PROVE  Inv'
  <1>t. /\ pc \in [Tasks -> Places] /\ waiting \in Seq(Tasks) /\ owner \in Tasks \cup {None}
        /\ pc[t] = "idle" /\ UNCHANGED <<token, interrupted>>
    BY DEF Inv, TypeOK, Lock, TryLock
  <1>h. HandOver /\ Line /\ Range(waiting) \subseteq Tasks
    BY <1>t, RangeLemma DEF Inv
  <1>1. CASE owner = None
    <2>1. owner' = t /\ Goto(t, "holds") /\ waiting' = waiting /\ waiting = <<>>
      BY <1>1, <1>h DEF Lock, TryLock, HandOver
    <2>2. /\ pc' \in [Tasks -> Places] /\ pc'[t] = "holds"
          /\ \A u \in Tasks \ {t} : pc'[u] = pc[u]
      BY <1>t, <2>1 DEF Goto, Places
    <2>3. Range(waiting) = {}
      BY <2>1, EmptyLemma
    <2>4. TypeOK'
      BY <1>t, <2>1, <2>2 DEF TypeOK, Inv
    <2>5. HandOver'
      BY <1>1, <1>h, <2>1, <2>2, <2>3, QutexAssumption DEF HandOver, InLock
    <2>6. Line'
      BY <1>1, <1>h, <2>1, <2>2, <2>3, QutexAssumption DEF Line
    <2> QED BY <2>4, <2>5, <2>6 DEF Inv
  <1>2. CASE owner # None
    <2>1. owner' = owner /\ Goto(t, "swap") /\ waiting' = Append(waiting, t)
      BY <1>2 DEF Lock, TryLock
    <2>2. /\ pc' \in [Tasks -> Places] /\ pc'[t] = "swap"
          /\ \A u \in Tasks \ {t} : pc'[u] = pc[u]
      BY <1>t, <2>1 DEF Goto, Places
    <2>3. t # owner /\ t \notin Range(waiting)
      BY <1>t, <1>h, <1>2 DEF HandOver, Line, InLock
    <2>4. /\ waiting' \in Seq(Tasks) /\ IsInjective(waiting')
          /\ Range(waiting') = Range(waiting) \cup {t}
      BY <1>t, <1>h, <2>1, <2>3, AppendLemma DEF Line
    <2>5. TypeOK'
      BY <1>t, <2>1, <2>2, <2>4 DEF TypeOK, Inv
    <2>6. HandOver'
      BY <1>2, <1>t, <1>h, <2>1, <2>2, <2>3, <2>4 DEF HandOver, InLock
    <2>7. Line'
      BY <1>h, <2>1, <2>2, <2>3, <2>4 DEF Line, InLock
    <2> QED BY <2>5, <2>6, <2>7 DEF Inv
  <1> QED BY <1>1, <1>2

\* A token or an interruption from outside.
LEMMA OutsideInv ==
    ASSUME Inv, NEW t \in Tasks, Spurious(t) \/ Interrupt(t)
    PROVE  Inv'
  <1>1. /\ UNCHANGED <<owner, waiting, pc>>
        /\ token' = [token EXCEPT ![t] = TRUE]
        /\ interrupted' = interrupted \/ interrupted' = [interrupted EXCEPT ![t] = TRUE]
    BY DEF Spurious, Interrupt
  <1>2. /\ token \in [Tasks -> BOOLEAN] /\ interrupted \in [Tasks -> BOOLEAN]
        /\ owner \in Tasks \cup {None}
    BY DEF Inv, TypeOK
  <1>3. token' \in [Tasks -> BOOLEAN] /\ interrupted' \in [Tasks -> BOOLEAN]
    BY <1>1, <1>2, Zenon
  <1>4. \A u \in Tasks : token[u] => token'[u]
    BY <1>1, <1>2, Zenon
  <1>5. TypeOK'
    BY <1>1, <1>3 DEF Inv, TypeOK
  <1>6. HandOver'
    BY <1>1, <1>2, <1>4 DEF Inv, HandOver
  <1>7. Line'
    BY <1>1 DEF Inv, Line
  <1> QED BY <1>5, <1>6, <1>7 DEF Inv

\* The steps of a task inside lock(), and its unlock.
LEMMA StepInv ==
    ASSUME Inv, NEW t \in Tasks, Step(t)
    PROVE  Inv'
  <1>t. /\ token \in [Tasks -> BOOLEAN] /\ interrupted \in [Tasks -> BOOLEAN]
        /\ owner \in Tasks \cup {None}
    BY DEF Inv, TypeOK
  <1>e. [interrupted EXCEPT ![t] = FALSE] \in [Tasks -> BOOLEAN]
    BY <1>t
  <1>1. CASE Swap(t)
    <2>1. pc[t] = "swap" /\ pc[t] \in InLock /\ UNCHANGED <<owner, waiting, token>>
      BY <1>1 DEF Swap, InLock
    <2>2. CASE Throws(t)
      BY <1>1, <1>t, <1>e, <2>1, <2>2, MoveInv, Zenon DEF Swap, Throw, InLock
    <2>3. CASE ~Throws(t)
      <3>1. Goto(t, "parked") /\ interrupted' = interrupted
        BY <1>1, <2>3 DEF Swap
      <3>2. owner = t => token[t]
        BY <2>1, QutexAssumption DEF Inv, HandOver
      <3> QED BY <1>t, <2>1, <3>1, <3>2, MoveInv DEF InLock
    <2> QED BY <2>2, <2>3
  <1>2. CASE Resume(t)
    <2>1. /\ pc[t] = "parked" /\ pc[t] \in InLock /\ UNCHANGED <<owner, waiting>>
          /\ token' = [token EXCEPT ![t] = FALSE]
      BY <1>2 DEF Resume, InLock
    <2>2. token' \in [Tasks -> BOOLEAN] /\ \A u \in Tasks \ {t} : token'[u] = token[u]
      BY <1>t, <2>1
    <2>3. /\ Goto(t, "giveup") \/ Goto(t, "check")
          /\ interrupted' = interrupted \/ interrupted' = [interrupted EXCEPT ![t] = FALSE]
      BY <1>2 DEF Resume, Throw
    <2> QED BY <1>t, <1>e, <2>1, <2>2, <2>3, MoveInv, Zenon DEF InLock
  <1>3. CASE Check(t)
    <2>1. /\ pc[t] = "check" /\ pc[t] \in InLock
          /\ UNCHANGED <<owner, waiting, token, interrupted>>
      BY <1>3 DEF Check, InLock
    <2>2. CASE owner = t
      BY <1>3, <1>t, <2>1, <2>2, MoveInv DEF Check, InLock
    <2>3. CASE owner # t
      BY <1>3, <1>t, <2>1, <2>3, MoveInv DEF Check, InLock
    <2> QED BY <2>2, <2>3
  <1>4. CASE GiveUp(t) \/ Unlock(t)
    BY <1>4, LeaveInv DEF GiveUp, Unlock
  <1> QED BY <1>1, <1>2, <1>3, <1>4 DEF Step

\* Every step of Qutex, and every stuttering step, keeps the inductive invariant.
LEMMA NextInv == Inv /\ [Next]_vars => Inv'
  <1> SUFFICES ASSUME Inv, [Next]_vars PROVE Inv'
    OBVIOUS
  <1>1. CASE UNCHANGED vars
    BY <1>1 DEF vars, Inv, TypeOK, HandOver, Line
  <1>2. CASE Next
    BY <1>2, StepInv, ArriveInv, OutsideInv DEF Next
  <1> QED BY <1>1, <1>2

\* The inductive invariant holds in every reachable state of qutex, for any set of
\* tasks: lock, timed lock, time-out and hand-over in unlock included.
THEOREM Invariance == Spec => []Inv
  BY InitInv, NextInv, PTL DEF Spec

\* Two tasks never hold the qutex at once.
THEOREM Exclusion == Spec => []MutualExclusion
  BY Invariance, InvExcludes, PTL

\* The lock is never handed to a task that will not take it or pass it on.
THEOREM HandsOver == Spec => []HandOver
  <1>1. Inv => HandOver
    BY DEF Inv
  <1> QED BY Invariance, <1>1, PTL
-----------------------------------------------------------------------------
(* The refinement: the line of FifoLock is the owner followed by the list. *)

Queue == IF owner = None THEN <<>> ELSE PushFront(waiting, owner)

Holders == {t \in Tasks : pc[t] = "holds"}

\* The actions of the line in these terms.
LEMMA LineSteps ==
    ASSUME NEW t \in Tasks
    PROVE  /\ Lines!Arrive(t) <=> /\ t \notin Range(Queue)
                                  /\ Queue' = Append(Queue, t)
                                  /\ \/ UNCHANGED Holders
                                     \/ Queue = <<>> /\ Holders' = Holders \cup {t}
           /\ Lines!GiveUp(t) <=> /\ t \in Range(Queue) \ Holders
                                  /\ Queue' = Without(Queue, t)
                                  /\ UNCHANGED Holders
  <1>1. \A q : Lines!Range(q) = Range(q)
    BY DEF Lines!Range, Range
  <1>2. \A q, u : Lines!Without(q, u) = Without(q, u)
    BY Zenon DEF Lines!Without, Without
  <1> QED BY <1>1, <1>2, Zenon DEF Lines!Arrive, Lines!GiveUp, Queue, Holders

\* Lock and TryLock are arrivals.
LEMMA ArriveMaps ==
    ASSUME Inv, NEW t \in Tasks, Lock(t) \/ TryLock(t)
    PROVE  Lines!Arrive(t)
  <1>t. /\ pc \in [Tasks -> Places] /\ waiting \in Seq(Tasks) /\ owner \in Tasks \cup {None}
        /\ HandOver /\ Line /\ pc[t] = "idle"
    BY DEF Inv, TypeOK, Lock, TryLock
  <1>1. CASE owner = None
    <2>1. owner' = t /\ waiting' = <<>> /\ waiting = <<>> /\ Goto(t, "holds")
      BY <1>1, <1>t DEF Lock, TryLock, HandOver
    <2>2. Holders' = Holders \cup {t}
      BY <1>t, <2>1 DEF Holders, Goto
    <2>3. Queue = <<>> /\ Range(<<>>) = {}
      BY <1>1, EmptyLemma DEF Queue
    <2>4. Queue' = Append(<<>>, t)
      BY <2>1, FrontLemma, EmptyLemma, QutexAssumption, Zenon DEF Queue
    <2> QED BY <2>2, <2>3, <2>4, LineSteps
  <1>2. CASE owner # None
    <2>1. owner' = owner /\ waiting' = Append(waiting, t) /\ Goto(t, "swap") /\ owner \in Tasks
      BY <1>2, <1>t DEF Lock, TryLock
    <2>2. Holders' = Holders
      BY <1>t, <2>1 DEF Holders, Goto
    <2>3. t # owner /\ t \notin Range(waiting)
      BY <1>t, <1>2 DEF HandOver, Line, InLock
    <2>4. Queue = PushFront(waiting, owner) /\ Queue' = PushFront(Append(waiting, t), owner)
      BY <1>2, <2>1 DEF Queue
    <2>5. Queue' = Append(Queue, t) /\ t \notin Range(Queue)
      <3>0. waiting \in Seq(Tasks) /\ owner \in Tasks
        BY <1>t, <2>1
      <3>1. Append(PushFront(waiting, owner), t) = PushFront(Append(waiting, t), owner)
        BY <3>0, FrontAppend
      <3>2. Range(PushFront(waiting, owner)) = Range(waiting) \cup {owner}
        BY <3>0, FrontRange
      <3> QED BY <2>3, <2>4, <3>1, <3>2
    <2> QED BY <2>2, <2>5, LineSteps
  <1> QED BY <1>1, <1>2

\* unlock() takes the first task from the line.
LEMMA LeaveMaps ==
    ASSUME Inv, NEW t \in Tasks, owner = t, UnlockOrGiveup(t)
    PROVE  Queue' = Tail(Queue) /\ Queue' = Without(Queue, t) /\ t \in Range(Queue)
  <1>t. waiting \in Seq(Tasks) /\ IsInjective(waiting) /\ t \notin Range(waiting) /\ t # None
    BY QutexAssumption DEF Inv, TypeOK, Line
  <1>1. Queue = PushFront(waiting, t)
    BY <1>t DEF Queue
  <1>2. Tail(Queue) = waiting /\ Without(Queue, t) = waiting /\ t \in Range(Queue)
    <2>0. waiting \in Seq(Tasks)
      BY <1>t
    <2>1. Tail(PushFront(waiting, t)) = waiting
      BY <2>0, FrontLemma, Zenon
    <2>2. Without(PushFront(waiting, t), t) = waiting
      BY <1>t, FrontWithout
    <2>3. Range(PushFront(waiting, t)) = Range(waiting) \cup {t}
      BY <2>0, FrontRange
    <2> QED BY <1>1, <2>1, <2>2, <2>3
  <1>3. CASE waiting = <<>>
    BY <1>2, <1>3 DEF UnlockOrGiveup, Queue
  <1>4. CASE waiting # <<>>
    <2>1. owner' = Head(waiting) /\ waiting' = Tail(waiting) /\ Head(waiting) \in Tasks
      BY <1>4, <1>t, TailLemma DEF UnlockOrGiveup
    <2>2. Queue' = PushFront(Tail(waiting), Head(waiting))
      BY <2>1, QutexAssumption DEF Queue
    <2>3. Queue' = waiting
      BY <1>4, <1>t, <2>2, FrontLemma, <2>1
    <2> QED BY <1>2, <2>3
  <1> QED BY <1>3, <1>4

\* A task that gives up leaves the line, wherever it stands in it.
LEMMA GiveUpMaps ==
    ASSUME Inv, NEW t \in Tasks, GiveUp(t)
    PROVE  Lines!GiveUp(t)
  <1>t. /\ pc \in [Tasks -> Places] /\ waiting \in Seq(Tasks) /\ owner \in Tasks \cup {None}
        /\ HandOver /\ Line /\ pc[t] = "giveup" /\ UnlockOrGiveup(t) /\ Goto(t, "idle")
    BY DEF Inv, TypeOK, GiveUp
  <1>1. Holders' = Holders /\ t \notin Holders
    BY <1>t DEF Holders, Goto
  <1>2. t \in Range(Queue) /\ Queue' = Without(Queue, t)
    <2>1. CASE owner = t
      BY <1>t, <2>1, LeaveMaps
    <2>2. CASE owner # t
      <3>1. t \in Range(waiting)
        BY <1>t, <2>2 DEF HandOver, InLock
      <3>2. owner \in Tasks
        <4>1. waiting # <<>>
          BY <3>1, EmptyLemma
        <4> QED BY <1>t, <4>1 DEF HandOver
      <3>3. owner # None /\ owner \notin Range(waiting) /\ IsInjective(waiting)
        BY <1>t, <3>2, QutexAssumption DEF Line
      <3>4. Queue = PushFront(waiting, owner) /\ Queue' = PushFront(Without(waiting, t), owner)
        BY <1>t, <2>2, <3>1, <3>3 DEF Queue, UnlockOrGiveup, Erase
      <3> QED BY <1>t, <3>1, <3>2, <3>3, <3>4, FrontWithout, PushFrontLemma
    <2> QED BY <2>1, <2>2
  <1> QED BY <1>1, <1>2, LineSteps

\* Every step of the qutex is a step of the line, or none.
LEMMA NextMaps ==
    ASSUME Inv, Inv', [Next]_vars
    PROVE  [Lines!Next]_(Lines!vars)
  <1>t. pc \in [Tasks -> Places]
    BY DEF Inv, TypeOK
  <1>v. Lines!vars = <<Queue, Holders>>
    BY DEF Lines!vars, Queue, Holders
  <1>w. UNCHANGED Queue /\ UNCHANGED Holders => UNCHANGED Lines!vars
    BY DEF Lines!vars, Queue, Holders
  <1>1. CASE UNCHANGED vars
    BY <1>1, <1>w DEF vars, Queue, Holders
  <1>2. ASSUME NEW t \in Tasks, Step(t) PROVE [Lines!Next]_(Lines!vars)
    <2>1. CASE Swap(t) \/ Resume(t)
      <3>1. /\ UNCHANGED <<owner, waiting>> /\ pc[t] # "holds"
            /\ Goto(t, "giveup") \/ Goto(t, "parked") \/ Goto(t, "check")
        BY <2>1 DEF Swap, Resume, Throw
      <3>2. UNCHANGED Holders /\ UNCHANGED Queue
        BY <1>t, <3>1 DEF Holders, Goto, Queue
      <3> QED BY <1>w, <3>2
    <2>2. CASE Check(t) /\ owner # t
      <3>1. UNCHANGED <<owner, waiting>> /\ pc[t] # "holds" /\ Goto(t, "swap")
        BY <2>2 DEF Check
      <3>2. UNCHANGED Holders /\ UNCHANGED Queue
        BY <1>t, <3>1 DEF Holders, Goto, Queue
      <3> QED BY <1>w, <3>2
    <2>3. CASE Check(t) /\ owner = t
      <3>1. UNCHANGED <<owner, waiting>> /\ Goto(t, "holds") /\ owner # None
        BY <2>3, QutexAssumption DEF Check
      <3>2. Holders' = Holders \cup {t} /\ UNCHANGED Queue
        BY <1>t, <3>1 DEF Holders, Goto, Queue
      <3>3. Queue # <<>> /\ Head(Queue) = t
        <4>1. waiting \in Seq(Tasks) /\ Queue = PushFront(waiting, t)
          BY <2>3, <3>1 DEF Queue, Inv, TypeOK
        <4>2. Head(PushFront(waiting, t)) = t
          BY <4>1, FrontLemma, Zenon
        <4>3. PushFront(waiting, t) # <<>>
          BY <4>1, PushFrontLemma
        <4> QED BY <4>1, <4>2, <4>3
      <3>4. Lines!Enter(t)
        BY <3>2, <3>3 DEF Lines!Enter, Queue, Holders
      <3> QED BY <3>4 DEF Lines!Next
    <2>4. CASE GiveUp(t)
      <3>1. Lines!GiveUp(t)
        BY <2>4, GiveUpMaps
      <3> QED BY <3>1 DEF Lines!Next
    <2>5. CASE Unlock(t)
      <3>1. pc[t] = "holds" /\ owner = t /\ UnlockOrGiveup(t) /\ Goto(t, "idle")
        BY <2>5 DEF Unlock, Inv, Line
      <3>2. Holders' = Holders \ {t} /\ t \in Holders
        BY <1>t, <3>1 DEF Holders, Goto
      <3>3. Queue' = Tail(Queue)
        BY <3>1, LeaveMaps
      <3>4. Lines!Release(t)
        BY <3>2, <3>3 DEF Lines!Release, Queue, Holders
      <3> QED BY <3>4 DEF Lines!Next
    <2> QED BY <1>2, <2>1, <2>2, <2>3, <2>4, <2>5 DEF Step
  <1>3. ASSUME NEW t \in Tasks, Lock(t) \/ TryLock(t) PROVE [Lines!Next]_(Lines!vars)
    BY <1>3, ArriveMaps DEF Lines!Next
  <1>4. ASSUME NEW t \in Tasks, Spurious(t) \/ Interrupt(t) PROVE [Lines!Next]_(Lines!vars)
    <2>1. UNCHANGED Queue /\ UNCHANGED Holders
      BY <1>4 DEF Spurious, Interrupt, Queue, Holders
    <2> QED BY <1>w, <2>1
  <1> QED BY <1>1, <1>2, <1>3, <1>4 DEF Next

\* A qutex is a lock that is handed over in the order of arrival, whatever spurious
\* wake-ups, cancels and deadlines hit its waiters.
THEOREM Refinement == Spec => ImplementsFifoLock
  <1>1. Init => Lines!Init
    BY DEF Init, Lines!Init
  <1>2. Inv /\ Inv' /\ [Next]_vars => [Lines!Next]_(Lines!vars)
    BY NextMaps
  <1> QED BY <1>1, <1>2, Invariance, PTL DEF Spec, ImplementsFifoLock, Lines!Spec
=============================================================================
