----------------------------- MODULE ChannelProof -----------------------------
(***************************************************************************)
(* The theorems about Channel, for any number of senders and receivers and *)
(* any capacity: the queue stays within the capacity and a task is in one  *)
(* list, nobody sleeps who could go on, and a synchronous send returns     *)
(* after its item was received.                                            *)
(***************************************************************************)
EXTENDS Channel, QueueTheorems, FiniteSetTheorems

\* Zenon is the quickest here; the leaves that it does not find cite SMT.
USE ZenonT(60)

Places == {"idle", "parked", "relock"}
Loops(t) == IF t \in Senders THEN {"none", "send", "sync"} ELSE {"none", "recv"}

ChannelTypes ==
    /\ queue \in Seq(Senders \X Nat) /\ closed \in BOOLEAN
    /\ not_empty \in Seq(Receivers) /\ not_full \in Seq(Senders)
    /\ call \in [Callers -> {"none", "send", "sync", "recv"}] /\ at \in [Callers -> Places]
    /\ \A t \in Callers : call[t] \in Loops(t)
    /\ token \in [Callers -> BOOLEAN] /\ canceled \in [Callers -> BOOLEAN]
    /\ sent \in [Senders -> Nat]

Asleep == Range(not_empty) \cup Range(not_full)

\* A task sleeps in a list until it has a token, and has no token when it is awake,
\* unless it was canceled.
CallOK(t) ==
    /\ at[t] = "idle" <=> call[t] = "none"
    /\ call[t] = "sync" => synchronous
    /\ t \in Asleep => at[t] = "parked"
    /\ ~canceled[t] /\ token[t] => at[t] = "parked" /\ t \notin Asleep
    /\ ~canceled[t] /\ at[t] = "parked" => t \in Asleep \/ token[t]

Listed ==
    /\ ChannelTypes
    /\ IsInjective(not_empty) /\ IsInjective(not_full)
    /\ closed => not_empty = <<>> /\ not_full = <<>>
    /\ Len(queue) <= Capacity
    /\ \A t \in Callers : CallOK(t)

\* The tasks in a call that are not in a list: they look at the queue, or pass a
\* wake-up on, before they sleep.
Takers == {t \in Receivers : at[t] # "idle" /\ t \notin Range(not_empty)}
Givers == {t \in Senders : at[t] # "idle" /\ t \notin Range(not_full)}

Room == Capacity - Len(queue)

\* While a receiver sleeps, a receiver is on its way for every item, and while a
\* sender sleeps, a sender for every free place; in synchronous mode there is none.
RecvOffer == not_empty # <<>> => Len(queue) <= Cardinality(Takers)
SendOffer == not_full # <<>> => IF synchronous THEN is_full ELSE Room <= Cardinality(Givers)

\* What the theorems assume of the constants.
ChannelUse ==
    /\ Senders \cap Receivers = {} /\ IsFiniteSet(Callers)
    /\ Cancelable \subseteq Callers /\ Capacity \in Nat \ {0}
-----------------------------------------------------------------------------
(* The lists and the tokens. *)

\* What rendez::wakeup, and the handler of rendez::sleep, leave of a list and take
\* from it.
LEMMA ListOps ==
    ASSUME NEW S, NEW q \in Seq(S), IsInjective(q)
    PROVE  /\ Rest(q) \in Seq(S) /\ IsInjective(Rest(q))
           /\ First(q) \subseteq Range(q) /\ Range(Rest(q)) = Range(q) \ First(q)
           /\ \A t : /\ ThrowFrom(t, q)[1] \in Seq(S) /\ IsInjective(ThrowFrom(t, q)[1])
                     /\ ThrowFrom(t, q)[2] \subseteq Range(q) \ {t}
                     /\ Range(ThrowFrom(t, q)[1]) = Range(q) \ (ThrowFrom(t, q)[2] \cup {t})
  <1>1. /\ Rest(q) \in Seq(S) /\ IsInjective(Rest(q))
        /\ First(q) \subseteq Range(q) /\ Range(Rest(q)) = Range(q) \ First(q)
    <2>1. CASE q = <<>>
      BY <2>1, EmptyLemma DEF Rest, First
    <2>2. CASE q # <<>>
      BY <2>2, TailLemma DEF Rest, First
    <2> QED BY <2>1, <2>2
  <1>2. ASSUME NEW t
        PROVE  /\ ThrowFrom(t, q)[1] \in Seq(S) /\ IsInjective(ThrowFrom(t, q)[1])
               /\ ThrowFrom(t, q)[2] \subseteq Range(q) \ {t}
               /\ Range(ThrowFrom(t, q)[1]) = Range(q) \ (ThrowFrom(t, q)[2] \cup {t})
    <2>1. CASE t \in Range(q)
      <3>1. ThrowFrom(t, q)[1] = Without(q, t) /\ ThrowFrom(t, q)[2] = {}
        BY <2>1 DEF ThrowFrom
      <3> QED BY <2>1, <3>1, WithoutLemma, SMTT(30)
    <2>2. CASE t \notin Range(q)
      <3>1. ThrowFrom(t, q)[1] = Rest(q) /\ ThrowFrom(t, q)[2] = First(q)
        BY <2>2 DEF ThrowFrom
      <3> QED BY <1>1, <2>2, <3>1
    <2> QED BY <2>1, <2>2
  <1> QED BY <1>1, <1>2

\* The sleepers are callers, each in the list of its side.
LEMMA AsleepAt ==
    ASSUME ChannelUse, Listed
    PROVE  /\ Range(not_empty) \subseteq Receivers /\ Range(not_full) \subseteq Senders
           /\ Asleep \subseteq Callers
           /\ \A t \in Senders : t \in Callers /\ t \notin Receivers /\ t \notin Range(not_empty)
           /\ \A t \in Receivers : t \in Callers /\ t \notin Senders /\ t \notin Range(not_full)
  <1>1. Range(not_empty) \subseteq Receivers /\ Range(not_full) \subseteq Senders
    BY RangeLemma DEF Listed, ChannelTypes
  <1> QED BY <1>1 DEF Asleep, Callers, ChannelUse

\* The task t goes to sleep in the loop c, or leaves its call when c is none.
Goes(t, c) ==
    /\ call' = [call EXCEPT ![t] = c]
    /\ at' = [at EXCEPT ![t] = IF c = "none" THEN "idle" ELSE "parked"]

\* A step of t, which sleeps or returns, and wakes the tasks of W.
LEMMA ListedMove ==
    ASSUME Listed, NEW t \in Callers, NEW W \in SUBSET (Asleep \ {t}), Wake(W),
           NEW c \in Loops(t), Goes(t, c), c = "sync" => synchronous,
           at[t] # "parked" \/ canceled[t],
           UNCHANGED <<closed, canceled>>,
           not_empty' \in Seq(Receivers) /\ IsInjective(not_empty'),
           not_full' \in Seq(Senders) /\ IsInjective(not_full'),
           Asleep' = (Asleep \ (W \cup {t})) \cup (IF c = "none" THEN {} ELSE {t}),
           closed => not_empty' = <<>> /\ not_full' = <<>>,
           queue' \in Seq(Senders \X Nat), Len(queue') <= Capacity,
           sent' \in [Senders -> Nat]
    PROVE  Listed'
  <1>1. /\ call' \in [Callers -> {"none", "send", "sync", "recv"}]
        /\ at' \in [Callers -> Places]
        /\ \A u \in Callers : /\ call'[u] = IF u = t THEN c ELSE call[u]
                              /\ at'[u] = IF u # t THEN at[u]
                                          ELSE IF c = "none" THEN "idle" ELSE "parked"
    BY DEF Goes, Listed, ChannelTypes, Loops, Places
  <1>2. /\ token' \in [Callers -> BOOLEAN]
        /\ \A u \in Callers : token'[u] = (token[u] \/ u \in W)
    BY DEF Wake, Listed, ChannelTypes
  <1>3. \A u \in Callers : call'[u] \in Loops(u)
    BY <1>1 DEF Listed, ChannelTypes
  <1>4. ChannelTypes'
    BY <1>1, <1>2, <1>3 DEF Listed, ChannelTypes, Loops
  <1>5. ASSUME NEW u \in Callers PROVE CallOK(u)'
    <2>1. CallOK(u)
      BY DEF Listed
    <2>2. CASE u # t
      <3>1. at'[u] = at[u] /\ call'[u] = call[u] /\ canceled'[u] = canceled[u]
        BY <1>1, <2>2
      <3>2. u \in Asleep' <=> u \in Asleep /\ u \notin W
        BY <2>2
      <3>3. u \in W => u \in Asleep
        OBVIOUS
      <3>4. token'[u] <=> token[u] \/ u \in W
        BY <1>2
      <3>5. synchronous' = synchronous
        BY DEF synchronous
      <3> QED BY <2>1, <3>1, <3>2, <3>3, <3>4, <3>5 DEF CallOK
    <2>3. CASE u = t
      <3>1. /\ call'[u] = c /\ at'[u] = IF c = "none" THEN "idle" ELSE "parked"
            /\ canceled'[u] = canceled[u] /\ (token'[u] <=> token[u])
        <4>1. u \notin W /\ token'[u] = (token[u] \/ u \in W)
          BY <1>2, <2>3
        <4> QED BY <1>1, <2>3, <4>1
      <3>2. u \in Asleep' <=> c # "none"
        BY <2>3
      <3>3. ~canceled[u] => ~token[u]
        BY <2>1, <2>3 DEF CallOK
      <3> QED BY <3>1, <3>2, <3>3 DEF CallOK, synchronous
    <2> QED BY <2>2, <2>3
  <1> QED BY <1>4, <1>5 DEF Listed

\* The two ends of a loop, and a step that wakes nobody.
LEMMA GoesLemma ==
    ASSUME Listed, NEW t \in Callers
    PROVE  /\ Returns(t) => Goes(t, "none")
           /\ \A c \in {"send", "sync", "recv"} : Sleeps(t, c) => Goes(t, c)
           /\ UNCHANGED token => Wake({})
           /\ at[t] # "parked" => t \notin Asleep
  <1>1. UNCHANGED token => Wake({})
    BY DEF Wake, Listed, ChannelTypes
  <1>2. /\ Returns(t) => Goes(t, "none")
        /\ \A c \in {"send", "sync", "recv"} : Sleeps(t, c) => Goes(t, c)
    BY DEF Returns, Sleeps, Goes
  <1> QED BY <1>1, <1>2 DEF Listed, CallOK

\* The sleepers after the steps that change one list.
LEMMA AsleepMove ==
    ASSUME ChannelUse, Listed
    PROVE  /\ \A t \in Senders : not_full' = Append(not_full, t) /\ at[t] # "parked" =>
                 /\ not_full' \in Seq(Senders) /\ IsInjective(not_full')
                 /\ Range(not_full') = Range(not_full) \cup {t}
           /\ \A t \in Receivers : not_empty' = Append(not_empty, t) /\ at[t] # "parked" =>
                 /\ not_empty' \in Seq(Receivers) /\ IsInjective(not_empty')
                 /\ Range(not_empty') = Range(not_empty) \cup {t}
  <1>1. /\ not_full \in Seq(Senders) /\ IsInjective(not_full)
        /\ not_empty \in Seq(Receivers) /\ IsInjective(not_empty)
    BY DEF Listed, ChannelTypes
  <1>2. ASSUME NEW t \in Senders, at[t] # "parked" PROVE t \notin Range(not_full)
    BY <1>2, AsleepAt, GoesLemma DEF Asleep
  <1>3. ASSUME NEW t \in Receivers, at[t] # "parked" PROVE t \notin Range(not_empty)
    BY <1>3, AsleepAt, GoesLemma DEF Asleep
  <1>4. ASSUME NEW t \in Senders, not_full' = Append(not_full, t), at[t] # "parked"
        PROVE  /\ not_full' \in Seq(Senders) /\ IsInjective(not_full')
               /\ Range(not_full') = Range(not_full) \cup {t}
    BY <1>1, <1>2, <1>4, AppendLemma, SMTT(30)
  <1>5. ASSUME NEW t \in Receivers, not_empty' = Append(not_empty, t), at[t] # "parked"
        PROVE  /\ not_empty' \in Seq(Receivers) /\ IsInjective(not_empty')
               /\ Range(not_empty') = Range(not_empty) \cup {t}
    BY <1>1, <1>3, <1>5, AppendLemma, SMTT(30)
  <1> QED BY <1>4, <1>5

\* send() up to the push, and the push.
LEMMA ListedSend ==
    ASSUME ChannelUse, Listed, NEW t \in Senders, at[t] # "parked", Send(t), UNCHANGED canceled
    PROVE  Listed'
  <1>1. /\ t \in Callers /\ t \notin Receivers /\ t \notin Asleep
        /\ {"none", "send", "sync"} = Loops(t) /\ t \notin Range(not_empty)
    BY AsleepAt, GoesLemma DEF Loops
  <1>2. /\ not_full \in Seq(Senders) /\ IsInjective(not_full)
        /\ not_empty \in Seq(Receivers) /\ IsInjective(not_empty)
        /\ queue \in Seq(Senders \X Nat) /\ sent \in [Senders -> Nat] /\ Len(queue) <= Capacity
        /\ closed => not_empty = <<>> /\ not_full = <<>>
    BY DEF Listed, ChannelTypes
  <1>3. CASE SendWaits(t)
    <2>1. /\ Wake({}) /\ Goes(t, "send") /\ ~closed
          /\ UNCHANGED <<queue, closed, not_empty, sent>>
      BY <1>1, <1>3, GoesLemma DEF SendWaits
    <2>2. /\ not_full' \in Seq(Senders) /\ IsInjective(not_full')
          /\ Range(not_full') = Range(not_full) \cup {t}
      BY <1>3, AsleepMove DEF SendWaits
    <2>3. Asleep' = (Asleep \ ({} \cup {t})) \cup {t}
      BY <1>1, <2>1, <2>2 DEF Asleep
    <2> QED BY <1>1, <1>2, <2>1, <2>2, <2>3, ListedMove
  <1>4. CASE SendClosed(t)
    <2>1. /\ Wake({}) /\ Goes(t, "none")
          /\ UNCHANGED <<queue, closed, not_empty, not_full, sent>>
      BY <1>1, <1>4, GoesLemma DEF SendClosed
    <2>2. Asleep' = (Asleep \ ({} \cup {t})) \cup {}
      BY <1>1, <2>1 DEF Asleep
    <2> QED BY <1>1, <1>2, <2>1, <2>2, ListedMove
  <1>5. CASE SendPushes(t)
    <2> DEFINE W == First(not_empty)
    <2>1. /\ Wake(W) /\ ~closed /\ UNCHANGED <<closed, got>>
          /\ not_empty' = Rest(not_empty) /\ ~is_full
      BY <1>5 DEF SendPushes
    <2>2. /\ not_empty' \in Seq(Receivers) /\ IsInjective(not_empty')
          /\ W \subseteq Range(not_empty) /\ Range(not_empty') = Range(not_empty) \ W
      BY <1>2, <2>1, ListOps
    <2>3. sent' \in [Senders -> Nat] /\ sent'[t] \in Nat
      BY <1>2, <1>5, SMTT(30) DEF SendPushes
    <2>4. queue' \in Seq(Senders \X Nat) /\ Len(queue') = Len(queue) + 1
      <3>1. queue' = Append(queue, <<t, sent'[t]>>) /\ <<t, sent'[t]>> \in Senders \X Nat
        BY <1>5, <2>3 DEF SendPushes, Item
      <3> QED BY <1>2, <3>1, SeqAppend, SMTT(30)
    <2>5. Len(queue') <= Capacity
      <3>1. Len(queue) \in Nat /\ Capacity \in Nat
        BY <1>2, SeqLength DEF ChannelUse
      <3> QED BY <2>1, <2>4, <3>1, SMTT(30) DEF is_full
    <2>6. W \in SUBSET (Asleep \ {t}) /\ W \cap Range(not_full) = {}
      BY <1>1, <2>2, AsleepAt DEF Asleep, ChannelUse
    <2> HIDE DEF W
    <2>7. CASE synchronous
      <3>1. Goes(t, "sync") /\ not_full' = Append(not_full, t)
        BY <1>1, <1>5, <2>7, GoesLemma DEF SendPushes
      <3>2. /\ not_full' \in Seq(Senders) /\ IsInjective(not_full')
            /\ Range(not_full') = Range(not_full) \cup {t}
        BY <3>1, AsleepMove
      <3>3. Asleep' = (Asleep \ (W \cup {t})) \cup {t}
        BY <1>1, <2>2, <2>6, <3>2 DEF Asleep
      <3> QED BY <1>1, <2>1, <2>2, <2>3, <2>4, <2>5, <2>6, <2>7, <3>1, <3>2, <3>3, ListedMove
    <2>8. CASE ~synchronous
      <3>1. Goes(t, "none") /\ not_full' = not_full
        BY <1>1, <1>5, <2>8, GoesLemma DEF SendPushes
      <3>2. Asleep' = (Asleep \ (W \cup {t})) \cup {}
        BY <1>1, <2>2, <2>6, <3>1 DEF Asleep
      <3> QED BY <1>1, <1>2, <2>1, <2>2, <2>3, <2>4, <2>5, <2>6, <3>1, <3>2, ListedMove
    <2> QED BY <2>7, <2>8
  <1> QED BY <1>3, <1>4, <1>5 DEF Send

\* The loop of send() that waits for recv.
LEMMA ListedSync ==
    ASSUME ChannelUse, Listed, NEW t \in Senders, at[t] # "parked", call[t] = "sync",
           Sync(t), UNCHANGED canceled
    PROVE  Listed'
  <1>1. /\ t \in Callers /\ t \notin Asleep /\ {"none", "send", "sync"} = Loops(t)
    BY AsleepAt, GoesLemma DEF Loops
  <1>2. /\ not_full \in Seq(Senders) /\ IsInjective(not_full)
        /\ not_empty \in Seq(Receivers) /\ IsInjective(not_empty)
        /\ queue \in Seq(Senders \X Nat) /\ sent \in [Senders -> Nat] /\ Len(queue) <= Capacity
        /\ closed => not_empty = <<>> /\ not_full = <<>>
        /\ synchronous
    BY <1>1 DEF Listed, ChannelTypes, CallOK
  <1>3. CASE is_full /\ ~closed
    <2>1. /\ Wake({}) /\ Goes(t, "sync") /\ not_full' = Append(not_full, t)
          /\ UNCHANGED <<queue, closed, not_empty, sent>>
      BY <1>1, <1>3, GoesLemma DEF Sync
    <2>2. /\ not_full' \in Seq(Senders) /\ IsInjective(not_full')
          /\ Range(not_full') = Range(not_full) \cup {t}
      BY <2>1, AsleepMove
    <2>3. Asleep' = (Asleep \ ({} \cup {t})) \cup {t}
      BY <1>1, <2>1, <2>2 DEF Asleep
    <2> QED BY <1>1, <1>2, <1>3, <2>1, <2>2, <2>3, ListedMove
  <1>4. CASE ~(is_full /\ ~closed)
    <2>1. /\ Wake({}) /\ Goes(t, "none")
          /\ UNCHANGED <<queue, closed, not_empty, not_full, sent>>
      BY <1>1, <1>4, GoesLemma DEF Sync
    <2>2. Asleep' = (Asleep \ ({} \cup {t})) \cup {}
      BY <1>1, <2>1 DEF Asleep
    <2> QED BY <1>1, <1>2, <2>1, <2>2, ListedMove
  <1> QED BY <1>3, <1>4

\* recv().
LEMMA ListedRecv ==
    ASSUME ChannelUse, Listed, NEW t \in Receivers, at[t] # "parked", Recv(t), UNCHANGED canceled
    PROVE  Listed'
  <1>1. /\ t \in Callers /\ t \notin Senders /\ t \notin Asleep
        /\ {"none", "recv"} = Loops(t) /\ t \notin Range(not_full)
    BY AsleepAt, GoesLemma DEF Loops
  <1>2. /\ not_full \in Seq(Senders) /\ IsInjective(not_full)
        /\ not_empty \in Seq(Receivers) /\ IsInjective(not_empty)
        /\ queue \in Seq(Senders \X Nat) /\ sent \in [Senders -> Nat] /\ Len(queue) <= Capacity
        /\ closed => not_empty = <<>> /\ not_full = <<>>
    BY DEF Listed, ChannelTypes
  <1>3. CASE RecvWaits(t)
    <2>1. /\ Wake({}) /\ Goes(t, "recv") /\ ~closed
          /\ UNCHANGED <<queue, closed, not_full, sent>>
      BY <1>1, <1>3, GoesLemma DEF RecvWaits
    <2>2. /\ not_empty' \in Seq(Receivers) /\ IsInjective(not_empty')
          /\ Range(not_empty') = Range(not_empty) \cup {t}
      BY <1>3, AsleepMove DEF RecvWaits
    <2>3. Asleep' = (Asleep \ ({} \cup {t})) \cup {t}
      BY <1>1, <2>1, <2>2 DEF Asleep
    <2> QED BY <1>1, <1>2, <2>1, <2>2, <2>3, ListedMove
  <1>4. CASE RecvClosed(t)
    <2>1. /\ Wake({}) /\ Goes(t, "none")
          /\ UNCHANGED <<queue, closed, not_empty, not_full, sent>>
      BY <1>1, <1>4, GoesLemma DEF RecvClosed
    <2>2. Asleep' = (Asleep \ ({} \cup {t})) \cup {}
      BY <1>1, <2>1 DEF Asleep
    <2> QED BY <1>1, <1>2, <2>1, <2>2, ListedMove
  <1>5. CASE RecvPops(t)
    <2> DEFINE W == IF synchronous THEN Range(not_full) ELSE First(not_full)
    <2>1. /\ Wake(W) /\ Goes(t, "none") /\ UNCHANGED <<closed, not_empty, sent>>
          /\ not_full' = IF synchronous THEN <<>> ELSE Rest(not_full)
          /\ queue # <<>> /\ queue' = Tail(queue)
      BY <1>1, <1>5, GoesLemma DEF RecvPops, is_empty
    <2>2. /\ not_full' \in Seq(Senders) /\ IsInjective(not_full')
          /\ W \subseteq Range(not_full) /\ Range(not_full') = Range(not_full) \ W
      BY <1>2, <2>1, ListOps, EmptyLemma
    <2>3. queue' \in Seq(Senders \X Nat) /\ Len(queue') <= Capacity
      <3>1. /\ queue' \in Seq(Senders \X Nat) /\ Len(queue') = Len(queue) - 1
            /\ Len(queue) \in Nat /\ Capacity \in Nat
        BY <1>2, <2>1, SeqTail, SeqLength DEF ChannelUse
      <3> QED BY <1>2, <3>1, SMTT(30)
    <2>4. W \in SUBSET (Asleep \ {t}) /\ W \cap Range(not_empty) = {}
      BY <1>1, <2>2, AsleepAt DEF Asleep, ChannelUse
    <2>5. closed => not_full' = <<>>
      BY <1>2, <2>1 DEF Rest
    <2> HIDE DEF W
    <2>6. Asleep' = (Asleep \ (W \cup {t})) \cup {}
      BY <1>1, <2>1, <2>2, <2>4 DEF Asleep
    <2> QED BY <1>1, <1>2, <2>1, <2>2, <2>3, <2>4, <2>5, <2>6, ListedMove
  <1> QED BY <1>3, <1>4, <1>5 DEF Recv

\* rendez::sleep throws.
LEMMA ListedThrow ==
    ASSUME ChannelUse, Listed, NEW t \in Callers, Throw(t)
    PROVE  Listed'
  <1>1. /\ not_full \in Seq(Senders) /\ IsInjective(not_full)
        /\ not_empty \in Seq(Receivers) /\ IsInjective(not_empty)
        /\ queue \in Seq(Senders \X Nat) /\ sent \in [Senders -> Nat] /\ Len(queue) <= Capacity
        /\ closed => not_empty = <<>> /\ not_full = <<>>
        /\ call[t] \in Loops(t) /\ call[t] # "none"
    BY DEF Listed, ChannelTypes, Throw, CallOK
  <1>2. /\ Goes(t, "none") /\ "none" \in Loops(t) /\ canceled[t]
        /\ UNCHANGED <<queue, closed, canceled, sent>>
    BY GoesLemma DEF Throw, Loops
  <1>3. ASSUME NEW S, NEW q \in Seq(S), q = <<>> PROVE ThrowFrom(t, q)[1] = <<>>
    BY <1>3, EmptyLemma DEF ThrowFrom, Rest
  <1>4. CASE call[t] = "recv"
    <2> DEFINE W == ThrowFrom(t, not_empty)[2]
    <2>1. /\ t \in Receivers /\ Wake(W)
          /\ not_empty' = ThrowFrom(t, not_empty)[1] /\ not_full' = not_full
      BY <1>1, <1>4 DEF Throw, Loops, Callers
    <2>2. /\ not_empty' \in Seq(Receivers) /\ IsInjective(not_empty')
          /\ W \subseteq Range(not_empty) \ {t}
          /\ Range(not_empty') = Range(not_empty) \ (W \cup {t})
      BY <1>1, <2>1, ListOps
    <2>3. W \in SUBSET (Asleep \ {t}) /\ W \cap Range(not_full) = {} /\ t \notin Range(not_full)
      BY <2>1, <2>2, AsleepAt DEF Asleep, ChannelUse
    <2>4. closed => not_empty' = <<>>
      BY <1>1, <1>3, <2>1
    <2> HIDE DEF W
    <2>5. Asleep' = (Asleep \ (W \cup {t})) \cup {}
      BY <2>1, <2>2, <2>3 DEF Asleep
    <2> QED BY <1>1, <1>2, <2>1, <2>2, <2>3, <2>4, <2>5, ListedMove
  <1>5. CASE call[t] # "recv"
    <2> DEFINE W == ThrowFrom(t, not_full)[2]
    <2>1. /\ t \in Senders /\ Wake(W)
          /\ not_full' = ThrowFrom(t, not_full)[1] /\ not_empty' = not_empty
      BY <1>1, <1>5 DEF Throw, Loops, Callers
    <2>2. /\ not_full' \in Seq(Senders) /\ IsInjective(not_full')
          /\ W \subseteq Range(not_full) \ {t}
          /\ Range(not_full') = Range(not_full) \ (W \cup {t})
      BY <1>1, <2>1, ListOps
    <2>3. W \in SUBSET (Asleep \ {t}) /\ W \cap Range(not_empty) = {} /\ t \notin Range(not_empty)
      BY <2>1, <2>2, AsleepAt DEF Asleep, ChannelUse
    <2>4. closed => not_full' = <<>>
      BY <1>1, <1>3, <2>1
    <2> HIDE DEF W
    <2>5. Asleep' = (Asleep \ (W \cup {t})) \cup {}
      BY <2>1, <2>2, <2>3 DEF Asleep
    <2> QED BY <1>1, <1>2, <2>1, <2>2, <2>3, <2>4, <2>5, ListedMove
  <1> QED BY <1>4, <1>5

\* The steps that only change what a task knows: swap() returns, and cancel().
LEMMA ListedToken ==
    ASSUME ChannelUse, Listed, NEW t \in Callers, Resume(t) \/ Cancel(t)
    PROVE  Listed'
  <1>1. UNCHANGED <<queue, closed, not_empty, not_full, call, sent>> /\ Asleep' = Asleep
    BY DEF Resume, Cancel, Asleep
  <1>2. CASE Resume(t)
    <2>1. /\ token' \in [Callers -> BOOLEAN] /\ canceled' = canceled
          /\ at' \in [Callers -> Places]
          /\ \A u \in Callers : u # t => at'[u] = at[u] /\ token'[u] = token[u]
          /\ at'[t] = "relock" /\ ~token'[t]
          /\ at[t] = "parked" /\ token[t] /\ ~canceled[t]
      BY <1>2 DEF Resume, Listed, ChannelTypes, Places
    <2>2. ASSUME NEW u \in Callers PROVE CallOK(u)'
      <3>1. CallOK(u) /\ synchronous' = synchronous
        BY DEF Listed, synchronous
      <3>2. CASE u # t
        BY <1>1, <2>1, <3>1, <3>2 DEF CallOK
      <3>3. CASE u = t
        BY <1>1, <2>1, <3>1, <3>3 DEF CallOK
      <3> QED BY <3>2, <3>3
    <2> QED BY <1>1, <2>1, <2>2 DEF Listed, ChannelTypes, Loops
  <1>3. CASE Cancel(t)
    <2>1. /\ token' \in [Callers -> BOOLEAN] /\ canceled' \in [Callers -> BOOLEAN] /\ at' = at
          /\ \A u \in Callers : u # t => canceled'[u] = canceled[u]
          /\ canceled'[t]
      BY <1>3 DEF Cancel, Wake, Listed, ChannelTypes
    <2>2. \A u \in Callers : u # t => (token'[u] <=> token[u])
      BY <1>3 DEF Cancel, Wake
    <2>3. ASSUME NEW u \in Callers PROVE CallOK(u)'
      <3>1. CallOK(u) /\ synchronous' = synchronous
        BY DEF Listed, synchronous
      <3>2. CASE u # t
        BY <1>1, <2>1, <2>2, <3>1, <3>2 DEF CallOK
      <3>3. CASE u = t
        BY <1>1, <2>1, <3>1, <3>3 DEF CallOK
      <3> QED BY <3>2, <3>3
    <2> QED BY <1>1, <2>1, <2>3 DEF Listed, ChannelTypes, Loops
  <1> QED BY <1>2, <1>3

\* close() and clear() wake whole lists.
LEMMA ListedWakeAll ==
    ASSUME ChannelUse, Listed, Close \/ Clear
    PROVE  Listed'
  <1> DEFINE W == Asleep \ Asleep'
  <1>1. /\ UNCHANGED <<call, at, canceled, sent>> /\ not_full' = <<>>
        /\ not_empty' = <<>> \/ (not_empty' = not_empty /\ closed' = closed)
        /\ queue' = queue \/ queue' = <<>>
        /\ closed' \in BOOLEAN
    BY DEF Close, Clear, Listed, ChannelTypes
  <1>2. /\ not_empty' \in Seq(Receivers) /\ IsInjective(not_empty')
        /\ not_full' \in Seq(Senders) /\ IsInjective(not_full')
        /\ closed' => not_empty' = <<>> /\ not_full' = <<>>
        /\ Asleep' \subseteq Asleep
    <2>1. /\ not_empty' \in Seq(Receivers) /\ IsInjective(not_empty')
          /\ Range(not_empty') \subseteq Range(not_empty)
      BY <1>1, EmptyLemma DEF Listed, ChannelTypes
    <2>2. not_full' \in Seq(Senders) /\ IsInjective(not_full') /\ Range(not_full') = {}
      BY <1>1, EmptyLemma
    <2>3. closed' => not_empty' = <<>> /\ not_full' = <<>>
      BY <1>1 DEF Listed
    <2> QED BY <2>1, <2>2, <2>3 DEF Asleep
  <1>3. queue' \in Seq(Senders \X Nat) /\ Len(queue') <= Capacity
    <2>1. CASE queue' = queue
      BY <2>1 DEF Listed, ChannelTypes
    <2>2. CASE queue' = <<>>
      <3>1. queue' \in Seq(Senders \X Nat) /\ Len(queue') = 0 /\ Capacity \in Nat
        BY <2>2, EmptyLemma DEF ChannelUse
      <3> QED BY <3>1, SMTT(30)
    <2> QED BY <1>1, <2>1, <2>2
  <1>4. Wake(W)
    <2>1. CASE Close
      <3>1. W = Range(not_empty) \cup Range(not_full)
        <4>1. Asleep' = {}
          BY <2>1, EmptyLemma DEF Close, Asleep
        <4> QED BY <4>1 DEF Asleep
      <3> QED BY <2>1, <3>1 DEF Close
    <2>2. CASE Clear
      <3>1. W = Range(not_full)
        <4>1. Asleep' = Range(not_empty)
          BY <2>2, EmptyLemma DEF Clear, Asleep
        <4> QED BY <4>1, AsleepAt DEF Asleep, ChannelUse
      <3> QED BY <2>2, <3>1 DEF Clear
    <2> QED BY <2>1, <2>2
  <1> HIDE DEF W
  <1>5. /\ token' \in [Callers -> BOOLEAN]
        /\ \A u \in Callers : token'[u] = (token[u] \/ u \in W)
    BY <1>4 DEF Wake, Listed, ChannelTypes
  <1>6. ASSUME NEW u \in Callers PROVE CallOK(u)'
    <2>1. CallOK(u) /\ synchronous' = synchronous
      BY DEF Listed, synchronous
    <2>2. u \in Asleep' <=> u \in Asleep /\ u \notin W
      BY <1>2 DEF W
    <2>3. u \in W => u \in Asleep
      BY DEF W
    <2>4. token'[u] <=> token[u] \/ u \in W
      BY <1>5
    <2>5. at'[u] = at[u] /\ call'[u] = call[u] /\ canceled'[u] = canceled[u]
      BY <1>1
    <2> QED BY <2>1, <2>2, <2>3, <2>4, <2>5 DEF CallOK
  <1> QED BY <1>1, <1>2, <1>3, <1>5, <1>6 DEF Listed, ChannelTypes, Loops

\* Every step keeps the lists and the tokens in order.
LEMMA ListedStep ==
    ASSUME ChannelUse, Listed, [Next]_vars
    PROVE  Listed'
  <1>1. CASE \E t \in Senders : SendCall(t)
    BY <1>1, ListedSend DEF SendCall
  <1>2. CASE \E t \in Receivers : RecvCall(t)
    BY <1>2, ListedRecv DEF RecvCall
  <1>3. ASSUME NEW t \in Callers, Relock(t) PROVE Listed'
    <2>1. call[t] \in Loops(t) /\ (t \in Senders \/ t \in Receivers)
      BY DEF Listed, ChannelTypes, Callers
    <2>2. at[t] # "parked" /\ UNCHANGED canceled
      BY <1>3 DEF Relock
    <2>3. CASE call[t] = "send" /\ Send(t)
      BY <2>1, <2>2, <2>3, ListedSend DEF Loops
    <2>4. CASE call[t] = "sync" /\ Sync(t)
      BY <2>1, <2>2, <2>4, ListedSync DEF Loops
    <2>5. CASE call[t] = "recv" /\ Recv(t)
      BY <2>1, <2>2, <2>5, ListedRecv DEF Loops
    <2> QED BY <1>3, <2>3, <2>4, <2>5 DEF Relock
  <1>4. CASE \E t \in Callers : Step(t)
    BY <1>3, <1>4, ListedToken, ListedThrow DEF Step
  <1>5. CASE \E t \in Cancelable : Cancel(t)
    BY <1>5, ListedToken DEF ChannelUse
  <1>6. CASE Close \/ Clear
    BY <1>6, ListedWakeAll
  <1>7. CASE UNCHANGED vars
    BY <1>7 DEF vars, Listed, ChannelTypes, Loops, CallOK, Asleep, synchronous
  <1> QED BY <1>1, <1>2, <1>4, <1>5, <1>6, <1>7 DEF Next
-----------------------------------------------------------------------------
(* The tasks on their way. *)

\* P becomes Q while the number n becomes m: at least as many as m when there were
\* as many as n.
Keeps(P, Q, n, m) ==
    \/ P \subseteq Q /\ m <= n
    \/ \E x \in P : P \ {x} \subseteq Q /\ m + 1 <= n
    \/ \E y \in Q \ P : P \subseteq Q /\ m <= n + 1
    \/ \E x \in P, y \in Q \ P : P \ {x} \subseteq Q /\ m <= n

\* A set that keeps up with a number stays as large as it.
LEMMA KeepsLemma ==
    ASSUME NEW S, IsFiniteSet(S), NEW P \in SUBSET S, NEW Q \in SUBSET S,
           NEW n \in Nat, NEW m \in Nat, n <= Cardinality(P), Keeps(P, Q, n, m)
    PROVE  m <= Cardinality(Q)
  <1>1. IsFiniteSet(P) /\ Cardinality(P) \in Nat /\ Cardinality(Q) \in Nat
    BY FS_Subset, FS_CardinalityType
  <1>2. ASSUME NEW R, R \subseteq Q
        PROVE  IsFiniteSet(R) /\ Cardinality(R) \in Nat /\ Cardinality(R) <= Cardinality(Q)
    BY <1>2, FS_Subset, FS_CardinalityType
  <1>3. ASSUME NEW x \in P, P \ {x} \subseteq Q
        PROVE  IsFiniteSet(P \ {x}) /\ Cardinality(P \ {x}) = Cardinality(P) - 1
    BY <1>1, FS_RemoveElement
  <1>4. CASE P \subseteq Q /\ m <= n
    <2>1. Cardinality(P) <= Cardinality(Q)
      BY <1>2, <1>4
    <2> QED BY <1>1, <1>4, <2>1, SMTT(30)
  <1>5. ASSUME NEW x \in P, P \ {x} \subseteq Q, m + 1 <= n PROVE m <= Cardinality(Q)
    <2>1. Cardinality(P) - 1 <= Cardinality(Q)
      BY <1>2, <1>3, <1>5
    <2> QED BY <1>1, <1>5, <2>1, SMTT(30)
  <1>6. ASSUME NEW y \in Q \ P, P \subseteq Q, m <= n + 1 PROVE m <= Cardinality(Q)
    <2>1. Cardinality(P \cup {y}) = Cardinality(P) + 1
      BY <1>1, FS_AddElement
    <2>2. Cardinality(P \cup {y}) <= Cardinality(Q)
      BY <1>2, <1>6
    <2> QED BY <1>1, <1>6, <2>1, <2>2, SMTT(30)
  <1>7. ASSUME NEW x \in P, NEW y \in Q \ P, P \ {x} \subseteq Q, m <= n PROVE m <= Cardinality(Q)
    <2>1. IsFiniteSet(P \ {x}) /\ Cardinality(P \ {x}) = Cardinality(P) - 1
      BY <1>3, <1>7
    <2>2. Cardinality((P \ {x}) \cup {y}) = Cardinality(P \ {x}) + 1
      BY <2>1, FS_AddElement
    <2>3. Cardinality((P \ {x}) \cup {y}) <= Cardinality(Q)
      BY <1>2, <1>7
    <2> QED BY <1>1, <1>7, <2>1, <2>2, <2>3, SMTT(30)
  <1> QED BY <1>4, <1>5, <1>6, <1>7 DEF Keeps

\* The numbers of items and of free places.
LEMMA Numbers ==
    ASSUME ChannelUse, Listed
    PROVE  /\ Len(queue) \in Nat /\ Capacity \in Nat /\ Capacity > 0 /\ Room \in Nat
           /\ Len(queue) + Room = Capacity
           /\ queue = <<>> <=> Len(queue) = 0
           /\ is_full <=> Room = 0
  <1>1. queue \in Seq(Senders \X Nat) /\ Capacity \in Nat \ {0} /\ Len(queue) <= Capacity
    BY DEF Listed, ChannelTypes, ChannelUse
  <1>2. Len(queue) \in Nat /\ (queue = <<>> <=> Len(queue) = 0)
    BY <1>1, SeqLength, SeqEmpty
  <1> QED BY <1>1, <1>2, SMTT(30) DEF Room, is_full

\* A step keeps a receiver on its way for every item.
LEMMA RecvOfferMove ==
    ASSUME ChannelUse, Listed, Listed', RecvOffer,
           not_empty' # <<>> =>
              \/ Len(queue') = 0
              \/ not_empty # <<>> /\ Keeps(Takers, Takers', Len(queue), Len(queue'))
    PROVE  RecvOffer'
  <1>1. SUFFICES ASSUME not_empty' # <<>> PROVE Len(queue') <= Cardinality(Takers')
    BY DEF RecvOffer
  <1>2. /\ Takers \in SUBSET Callers /\ Takers' \in SUBSET Callers /\ IsFiniteSet(Callers)
    BY DEF Takers, Callers, ChannelUse
  <1>3. Len(queue) \in Nat /\ Len(queue') \in Nat
    BY SeqLength DEF Listed, ChannelTypes
  <1>4. CASE Len(queue') = 0
    <2>1. Cardinality(Takers') \in Nat
      BY <1>2, FS_Subset, FS_CardinalityType
    <2> QED BY <1>4, <2>1, SMTT(30)
  <1>5. CASE not_empty # <<>> /\ Keeps(Takers, Takers', Len(queue), Len(queue'))
    <2>1. Len(queue) <= Cardinality(Takers)
      BY <1>5 DEF RecvOffer
    <2> QED BY <1>2, <1>3, <1>5, <2>1, KeepsLemma
  <1> QED BY <1>1, <1>4, <1>5

\* A step keeps a sender on its way for every free place.
LEMMA SendOfferMove ==
    ASSUME ChannelUse, Listed, Listed', SendOffer,
           not_full' # <<>> =>
              \/ Room' = 0
              \/ /\ not_full # <<>>
                 /\ IF synchronous THEN Len(queue') >= Len(queue)
                    ELSE Keeps(Givers, Givers', Room, Room')
    PROVE  SendOffer'
  <1>1. SUFFICES ASSUME not_full' # <<>>
                 PROVE  IF synchronous THEN is_full' ELSE Room' <= Cardinality(Givers')
    BY DEF SendOffer, synchronous
  <1>2. /\ Givers \in SUBSET Callers /\ Givers' \in SUBSET Callers /\ IsFiniteSet(Callers)
    BY DEF Givers, Callers, ChannelUse
  <1>3. /\ Room \in Nat /\ Len(queue) \in Nat /\ Len(queue) + Room = Capacity
        /\ Capacity \in Nat /\ (is_full <=> Room = 0)
    BY Numbers
  <1>4. /\ Room' \in Nat /\ Len(queue') \in Nat /\ Len(queue') + Room' = Capacity
        /\ is_full' <=> Room' = 0
    <2>1. Len(queue') \in Nat /\ Len(queue') <= Capacity
      BY SeqLength DEF Listed, ChannelTypes
    <2> QED BY <1>3, <2>1, SMTT(30) DEF Room, is_full
  <1>5. CASE Room' = 0
    <2>1. Cardinality(Givers') \in Nat
      BY <1>2, FS_Subset, FS_CardinalityType
    <2> QED BY <1>4, <1>5, <2>1, SMTT(30)
  <1>6. CASE not_full # <<>> /\ synchronous /\ Len(queue') >= Len(queue)
    <2>1. Room = 0
      BY <1>3, <1>6 DEF SendOffer
    <2> QED BY <1>3, <1>4, <1>6, <2>1, SMTT(30)
  <1>7. CASE not_full # <<>> /\ ~synchronous /\ Keeps(Givers, Givers', Room, Room')
    <2>1. Room <= Cardinality(Givers)
      BY <1>7 DEF SendOffer
    <2>2. Room' <= Cardinality(Givers')
      BY <1>2, <1>3, <1>4, <1>7, <2>1, KeepsLemma
    <2> QED BY <1>7, <2>2
  <1> QED BY <1>1, <1>5, <1>6, <1>7

\* A step of a sender is not seen by the receivers, and the other way round.
LEMMA OtherSide ==
    ASSUME ChannelUse, Listed, NEW t \in Callers, NEW c \in Loops(t), Goes(t, c)
    PROVE  /\ at'[t] = IF c = "none" THEN "idle" ELSE "parked"
           /\ \A u \in Callers : u # t => at'[u] = at[u]
           /\ t \in Senders /\ not_empty' = not_empty => Takers' = Takers
           /\ t \in Receivers /\ not_full' = not_full => Givers' = Givers
  <1>1. /\ at'[t] = IF c = "none" THEN "idle" ELSE "parked"
        /\ \A u \in Callers : u # t => at'[u] = at[u]
    BY DEF Goes, Listed, ChannelTypes
  <1>2. ASSUME t \in Senders, not_empty' = not_empty PROVE Takers' = Takers
    <2>1. \A u \in Receivers : at'[u] = at[u]
      BY <1>1, <1>2, AsleepAt
    <2> QED BY <1>2, <2>1 DEF Takers
  <1>3. ASSUME t \in Receivers, not_full' = not_full PROVE Givers' = Givers
    <2>1. \A u \in Senders : at'[u] = at[u]
      BY <1>1, <1>3, AsleepAt
    <2> QED BY <1>3, <2>1 DEF Givers
  <1> QED BY <1>1, <1>2, <1>3

\* The first task of a list that stays nonempty goes on.
LEMMA HeadGoes ==
    ASSUME NEW S, NEW q \in Seq(S), IsInjective(q), Rest(q) # <<>>
    PROVE  /\ q # <<>> /\ Head(q) \in Range(q) /\ Head(q) \in S
           /\ Range(Rest(q)) = Range(q) \ {Head(q)}
  BY TailLemma DEF Rest

\* A woken receiver takes the place of the one that left, or is one more.
LEMMA TakerWoken ==
    ASSUME ChannelUse, Listed, not_empty' = Rest(not_empty), not_empty' # <<>>
    PROVE  /\ not_empty # <<>>
           /\ \E h \in Receivers : /\ h \in Range(not_empty) /\ at[h] = "parked" /\ h \notin Takers
                                   /\ Range(not_empty') = Range(not_empty) \ {h}
  <1>1. not_empty \in Seq(Receivers) /\ IsInjective(not_empty)
    BY DEF Listed, ChannelTypes
  <1>2. /\ not_empty # <<>> /\ Head(not_empty) \in Range(not_empty) /\ Head(not_empty) \in Receivers
        /\ Range(not_empty') = Range(not_empty) \ {Head(not_empty)}
    BY <1>1, HeadGoes
  <1>3. at[Head(not_empty)] = "parked"
    BY <1>2 DEF Listed, CallOK, Asleep, Callers
  <1> QED BY <1>2, <1>3 DEF Takers

\* The same of a sender.
LEMMA GiverWoken ==
    ASSUME ChannelUse, Listed, not_full' = Rest(not_full), not_full' # <<>>
    PROVE  /\ not_full # <<>>
           /\ \E h \in Senders : /\ h \in Range(not_full) /\ at[h] = "parked" /\ h \notin Givers
                                 /\ Range(not_full') = Range(not_full) \ {h}
  <1>1. not_full \in Seq(Senders) /\ IsInjective(not_full)
    BY DEF Listed, ChannelTypes
  <1>2. /\ not_full # <<>> /\ Head(not_full) \in Range(not_full) /\ Head(not_full) \in Senders
        /\ Range(not_full') = Range(not_full) \ {Head(not_full)}
    BY <1>1, HeadGoes
  <1>3. at[Head(not_full)] = "parked"
    BY <1>2 DEF Listed, CallOK, Asleep, Callers
  <1> QED BY <1>2, <1>3 DEF Givers

\* send() that waits, or pushes: one item more, one free place less.
LEMMA OffersSend ==
    ASSUME ChannelUse, Listed, Listed', RecvOffer, SendOffer, NEW t \in Senders,
           at[t] # "parked", Send(t)
    PROVE  RecvOffer' /\ SendOffer'
  <1>1. /\ t \in Callers /\ t \notin Receivers /\ t \notin Asleep /\ t \notin Range(not_full)
        /\ {"none", "send", "sync"} = Loops(t)
    BY AsleepAt, GoesLemma DEF Loops, Asleep
  <1>2. /\ Len(queue) \in Nat /\ Capacity \in Nat /\ Room \in Nat
        /\ Len(queue) + Room = Capacity /\ (is_full <=> Room = 0)
    BY Numbers
  <1>3. CASE SendWaits(t)
    <2>1. Goes(t, "send") /\ queue' = queue /\ not_empty' = not_empty /\ Room' = 0
      BY <1>1, <1>2, <1>3, GoesLemma DEF SendWaits, Room
    <2>2. Takers' = Takers
      BY <1>1, <2>1, OtherSide
    <2>3. RecvOffer'
      BY <2>1, <2>2 DEF RecvOffer
    <2>4. SendOffer'
      BY <2>1, SendOfferMove
    <2> QED BY <2>3, <2>4
  <1>4. CASE SendClosed(t)
    <2>1. not_empty' = <<>> /\ not_full' = <<>>
      BY <1>4 DEF SendClosed, Listed
    <2> QED BY <2>1 DEF RecvOffer, SendOffer
  <1>5. CASE SendPushes(t)
    <2>1. not_empty' = Rest(not_empty) /\ Len(queue') = Len(queue) + 1 /\ ~is_full
      <3>1. queue \in Seq(Senders \X Nat) /\ sent' \in [Senders -> Nat]
        BY DEF Listed, ChannelTypes
      <3>2. Item(t)' \in Senders \X Nat
        BY <3>1 DEF Item
      <3> QED BY <1>5, <3>1, <3>2, SeqAppend, SMTT(30) DEF SendPushes
    <2>2. Room' + 1 <= Room /\ Room' <= Room /\ (synchronous => Room' = 0)
      BY <1>2, <2>1, SMTT(30) DEF Room, synchronous, is_full
    <2>3. PICK c \in Loops(t) : /\ Goes(t, c)
                                /\ IF synchronous THEN c = "sync"
                                   ELSE c = "none" /\ not_full' = not_full
      BY <1>1, <1>5, GoesLemma DEF SendPushes
    <2>4. /\ at'[t] = IF c = "none" THEN "idle" ELSE "parked"
          /\ \A u \in Callers : u # t => at'[u] = at[u]
      BY <1>1, <2>3, OtherSide
    <2>5. RecvOffer'
      <3>1. ASSUME not_empty' # <<>>
            PROVE  not_empty # <<>> /\ Keeps(Takers, Takers', Len(queue), Len(queue'))
        <4>1. PICK h \in Receivers : /\ h \in Range(not_empty) /\ at[h] = "parked" /\ h \notin Takers
                                     /\ Range(not_empty') = Range(not_empty) \ {h}
          BY <2>1, <3>1, TakerWoken
        <4>2. \A u \in Receivers : at'[u] = at[u]
          BY <1>1, <2>4 DEF Callers
        <4>3. Takers \subseteq Takers' /\ h \in Takers' \ Takers
          BY <4>1, <4>2 DEF Takers
        <4>4. Len(queue') <= Len(queue) + 1
          BY <1>2, <2>1, SMTT(30)
        <4>5. not_empty # <<>>
          BY <2>1, <3>1, TakerWoken
        <4> QED BY <4>3, <4>4, <4>5 DEF Keeps
      <3> QED BY <3>1, RecvOfferMove
    <2>6. SendOffer'
      <3>1. CASE synchronous
        BY <2>2, <3>1, SendOfferMove
      <3>2. CASE ~synchronous /\ t \in Givers
        <4>1. Givers \ {t} \subseteq Givers'
          BY <2>3, <2>4, <3>2 DEF Givers, Callers
        <4>2. Keeps(Givers, Givers', Room, Room')
          BY <2>2, <3>2, <4>1 DEF Keeps
        <4> QED BY <2>3, <3>2, <4>2, SendOfferMove
      <3>3. CASE ~synchronous /\ t \notin Givers
        <4>1. Givers \subseteq Givers'
          BY <2>3, <2>4, <3>3 DEF Givers, Callers
        <4>2. Keeps(Givers, Givers', Room, Room')
          BY <2>2, <4>1 DEF Keeps
        <4> QED BY <2>3, <3>3, <4>2, SendOfferMove
      <3> QED BY <3>1, <3>2, <3>3
    <2> QED BY <2>5, <2>6
  <1> QED BY <1>3, <1>4, <1>5 DEF Send

\* The second loop of send() changes nothing for the receivers.
LEMMA OffersSync ==
    ASSUME ChannelUse, Listed, Listed', RecvOffer, SendOffer, NEW t \in Senders,
           at[t] # "parked", call[t] = "sync", Sync(t)
    PROVE  RecvOffer' /\ SendOffer'
  <1>1. /\ t \in Callers /\ {"none", "send", "sync"} = Loops(t) /\ synchronous
        /\ UNCHANGED <<queue, not_empty>>
    BY AsleepAt DEF Loops, Sync, Listed, CallOK
  <1>2. PICK c \in Loops(t) : Goes(t, c)
    BY <1>1, GoesLemma DEF Sync
  <1>3. Takers' = Takers
    BY <1>1, <1>2, OtherSide
  <1>4. RecvOffer'
    BY <1>1, <1>3 DEF RecvOffer
  <1>5. SendOffer'
    BY <1>1 DEF SendOffer, Sync, is_full, synchronous
  <1> QED BY <1>4, <1>5

\* recv() that waits, or pops: one item less, one free place more.
LEMMA OffersRecv ==
    ASSUME ChannelUse, Listed, Listed', RecvOffer, SendOffer, NEW t \in Receivers,
           at[t] # "parked", Recv(t)
    PROVE  RecvOffer' /\ SendOffer'
  <1>1. /\ t \in Callers /\ t \notin Senders /\ t \notin Asleep /\ t \notin Range(not_empty)
        /\ {"none", "recv"} = Loops(t)
    BY AsleepAt, GoesLemma DEF Loops, Asleep
  <1>2. /\ Len(queue) \in Nat /\ Capacity \in Nat /\ Room \in Nat
        /\ Len(queue) + Room = Capacity /\ (queue = <<>> <=> Len(queue) = 0)
    BY Numbers
  <1>3. CASE RecvWaits(t)
    <2>1. Goes(t, "recv") /\ queue' = queue /\ not_full' = not_full /\ Len(queue') = 0
      BY <1>1, <1>2, <1>3, GoesLemma DEF RecvWaits, is_empty
    <2>2. Givers' = Givers
      BY <1>1, <2>1, OtherSide
    <2>3. RecvOffer'
      BY <2>1, RecvOfferMove
    <2>4. SendOffer'
      BY <2>1, <2>2 DEF SendOffer, is_full, Room, synchronous
    <2> QED BY <2>3, <2>4
  <1>4. CASE RecvClosed(t)
    <2>1. not_empty' = <<>> /\ not_full' = <<>>
      BY <1>4 DEF RecvClosed, Listed
    <2> QED BY <2>1 DEF RecvOffer, SendOffer
  <1>5. CASE RecvPops(t)
    <2>1. /\ Goes(t, "none") /\ not_empty' = not_empty
          /\ not_full' = IF synchronous THEN <<>> ELSE Rest(not_full)
      BY <1>1, <1>5, GoesLemma DEF RecvPops
    <2>2. Len(queue') + 1 = Len(queue) /\ Len(queue') \in Nat
      <3>1. queue # <<>> /\ queue' = Tail(queue) /\ queue \in Seq(Senders \X Nat)
        BY <1>5 DEF RecvPops, is_empty, Listed, ChannelTypes
      <3>2. Len(queue') = Len(queue) - 1 /\ Len(queue) # 0
        BY <1>2, <3>1, SeqTail
      <3> QED BY <1>2, <3>2, SMTT(30)
    <2>3. Len(queue') + 1 <= Len(queue) /\ Len(queue') <= Len(queue) /\ Room' <= Room + 1
      BY <1>2, <2>2, SMTT(30) DEF Room
    <2>4. /\ at'[t] = "idle"
          /\ \A u \in Callers : u # t => at'[u] = at[u]
      BY <1>1, <2>1, OtherSide
    <2>5. RecvOffer'
      <3>1. CASE t \in Takers
        <4>1. Takers \ {t} \subseteq Takers'
          BY <2>1, <2>4 DEF Takers, Callers
        <4>2. Keeps(Takers, Takers', Len(queue), Len(queue'))
          BY <2>3, <3>1, <4>1 DEF Keeps
        <4> QED BY <2>1, <4>2, RecvOfferMove
      <3>2. CASE t \notin Takers
        <4>1. Takers \subseteq Takers'
          BY <2>1, <2>4, <3>2 DEF Takers, Callers
        <4>2. Keeps(Takers, Takers', Len(queue), Len(queue'))
          BY <2>3, <4>1 DEF Keeps
        <4> QED BY <2>1, <4>2, RecvOfferMove
      <3> QED BY <3>1, <3>2
    <2>6. SendOffer'
      <3>1. CASE synchronous
        BY <2>1, <3>1 DEF SendOffer
      <3>2. ASSUME ~synchronous, not_full' # <<>>
            PROVE  not_full # <<>> /\ Keeps(Givers, Givers', Room, Room')
        <4>1. PICK h \in Senders : /\ h \in Range(not_full) /\ at[h] = "parked" /\ h \notin Givers
                                   /\ Range(not_full') = Range(not_full) \ {h}
          BY <2>1, <3>2, GiverWoken
        <4>2. \A u \in Senders : at'[u] = at[u]
          BY <1>1, <2>4 DEF Callers
        <4>3. Givers \subseteq Givers' /\ h \in Givers' \ Givers
          BY <4>1, <4>2 DEF Givers
        <4>4. not_full # <<>>
          BY <2>1, <3>2, GiverWoken
        <4> QED BY <2>3, <4>3, <4>4 DEF Keeps
      <3> QED BY <3>1, <3>2, SendOfferMove
    <2> QED BY <2>5, <2>6
  <1> QED BY <1>3, <1>4, <1>5 DEF Recv

\* A task that throws was in its list, or passes its wake-up on.
LEMMA OffersThrow ==
    ASSUME ChannelUse, Listed, Listed', RecvOffer, SendOffer, NEW t \in Callers, Throw(t)
    PROVE  RecvOffer' /\ SendOffer'
  <1>1. /\ at[t] = "parked" /\ call[t] \in Loops(t) /\ call[t] # "none" /\ "none" \in Loops(t)
        /\ Goes(t, "none") /\ UNCHANGED queue
        /\ not_full \in Seq(Senders) /\ IsInjective(not_full)
        /\ not_empty \in Seq(Receivers) /\ IsInjective(not_empty)
    BY GoesLemma DEF Throw, Listed, ChannelTypes, CallOK, Loops
  <1>2. at'[t] = "idle" /\ \A u \in Callers : u # t => at'[u] = at[u]
    BY <1>1, OtherSide
  <1>3. Len(queue) \in Nat /\ Room \in Nat /\ Room' = Room /\ Len(queue') = Len(queue)
    BY <1>1, Numbers DEF Room
  <1>4. Len(queue') <= Len(queue) /\ Room' <= Room /\ Len(queue') >= Len(queue)
    BY <1>3, SMTT(30)
  <1>5. CASE call[t] = "recv"
    <2>1. /\ t \in Receivers /\ not_full' = not_full /\ not_empty' = ThrowFrom(t, not_empty)[1]
      BY <1>1, <1>5 DEF Throw, Loops, Callers
    <2>2. Givers' = Givers
      BY <1>1, <2>1, OtherSide
    <2>3. SendOffer'
      BY <1>1, <1>3, <2>1, <2>2 DEF SendOffer, is_full, synchronous
    <2>4. CASE t \in Range(not_empty)
      <3>1. Range(not_empty') = Range(not_empty) \ {t} /\ not_empty # <<>>
        BY <1>1, <2>1, <2>4, WithoutLemma, EmptyLemma DEF ThrowFrom
      <3>2. Takers \subseteq Takers'
        BY <1>2, <2>4, <3>1 DEF Takers, Callers
      <3>3. Keeps(Takers, Takers', Len(queue), Len(queue'))
        BY <1>4, <3>2 DEF Keeps
      <3> QED BY <2>3, <3>1, <3>3, RecvOfferMove
    <2>5. CASE t \notin Range(not_empty)
      <3>1. not_empty' = Rest(not_empty)
        BY <2>1, <2>5 DEF ThrowFrom
      <3>2. ASSUME not_empty' # <<>>
            PROVE  not_empty # <<>> /\ Keeps(Takers, Takers', Len(queue), Len(queue'))
        <4>1. PICK h \in Receivers : /\ h \in Range(not_empty) /\ at[h] = "parked" /\ h \notin Takers
                                     /\ Range(not_empty') = Range(not_empty) \ {h}
          BY <3>1, <3>2, TakerWoken
        <4>2. t \in Takers /\ h # t
          BY <1>1, <2>1, <2>5, <4>1 DEF Takers
        <4>3. Takers \ {t} \subseteq Takers' /\ h \in Takers' \ Takers
          BY <1>2, <4>1, <4>2 DEF Takers, Callers
        <4>4. not_empty # <<>>
          BY <3>1, <3>2, TakerWoken
        <4> QED BY <1>4, <4>2, <4>3, <4>4 DEF Keeps
      <3> QED BY <2>3, <3>2, RecvOfferMove
    <2> QED BY <2>4, <2>5
  <1>6. CASE call[t] # "recv"
    <2>1. /\ t \in Senders /\ not_empty' = not_empty /\ not_full' = ThrowFrom(t, not_full)[1]
      BY <1>1, <1>6 DEF Throw, Loops, Callers
    <2>2. Takers' = Takers
      BY <1>1, <2>1, OtherSide
    <2>3. RecvOffer'
      BY <1>3, <2>1, <2>2 DEF RecvOffer
    <2>4. CASE t \in Range(not_full)
      <3>1. Range(not_full') = Range(not_full) \ {t} /\ not_full # <<>>
        BY <1>1, <2>1, <2>4, WithoutLemma, EmptyLemma DEF ThrowFrom
      <3>2. Givers \subseteq Givers'
        BY <1>2, <2>4, <3>1 DEF Givers, Callers
      <3>3. Keeps(Givers, Givers', Room, Room')
        BY <1>4, <3>2 DEF Keeps
      <3> QED BY <1>4, <2>3, <3>1, <3>3, SendOfferMove
    <2>5. CASE t \notin Range(not_full)
      <3>1. not_full' = Rest(not_full)
        BY <2>1, <2>5 DEF ThrowFrom
      <3>2. ASSUME not_full' # <<>>
            PROVE  not_full # <<>> /\ Keeps(Givers, Givers', Room, Room')
        <4>1. PICK h \in Senders : /\ h \in Range(not_full) /\ at[h] = "parked" /\ h \notin Givers
                                   /\ Range(not_full') = Range(not_full) \ {h}
          BY <3>1, <3>2, GiverWoken
        <4>2. t \in Givers /\ h # t
          BY <1>1, <2>1, <2>5, <4>1 DEF Givers
        <4>3. Givers \ {t} \subseteq Givers' /\ h \in Givers' \ Givers
          BY <1>2, <4>1, <4>2 DEF Givers, Callers
        <4>4. not_full # <<>>
          BY <3>1, <3>2, GiverWoken
        <4> QED BY <1>4, <4>2, <4>3, <4>4 DEF Keeps
      <3> QED BY <1>4, <2>3, <3>2, SendOfferMove
    <2> QED BY <2>4, <2>5
  <1> QED BY <1>5, <1>6

\* swap() returns, cancel(), close() and clear().
LEMMA OffersOther ==
    ASSUME ChannelUse, Listed, Listed', RecvOffer, SendOffer,
           (\E t \in Callers : Resume(t) \/ Cancel(t)) \/ Close \/ Clear
    PROVE  RecvOffer' /\ SendOffer'
  <1>1. ASSUME NEW t \in Callers, Resume(t) \/ Cancel(t) PROVE RecvOffer' /\ SendOffer'
    <2>1. UNCHANGED <<queue, not_empty, not_full>>
      BY <1>1 DEF Resume, Cancel
    <2>2. \A u \in Callers : at'[u] = "idle" <=> at[u] = "idle"
      BY <1>1 DEF Resume, Cancel, Listed, ChannelTypes
    <2>3. Takers' = Takers /\ Givers' = Givers
      BY <2>1, <2>2 DEF Takers, Givers, Callers
    <2> QED BY <2>1, <2>3 DEF RecvOffer, SendOffer, Room, is_full, synchronous
  <1>2. CASE Close
    BY <1>2 DEF Close, RecvOffer, SendOffer
  <1>3. CASE Clear
    <2>1. not_full' = <<>> /\ Len(queue') = 0
      BY <1>3 DEF Clear
    <2>2. RecvOffer'
      BY <2>1, RecvOfferMove
    <2> QED BY <2>1, <2>2 DEF SendOffer
  <1> QED BY <1>1, <1>2, <1>3

\* Every step keeps enough tasks on their way.
LEMMA OffersStep ==
    ASSUME ChannelUse, Listed, Listed', RecvOffer, SendOffer, [Next]_vars
    PROVE  RecvOffer' /\ SendOffer'
  <1>1. CASE \E t \in Senders : SendCall(t)
    BY <1>1, OffersSend DEF SendCall
  <1>2. CASE \E t \in Receivers : RecvCall(t)
    BY <1>2, OffersRecv DEF RecvCall
  <1>3. ASSUME NEW t \in Callers, Relock(t) PROVE RecvOffer' /\ SendOffer'
    <2>1. call[t] \in Loops(t) /\ (t \in Senders \/ t \in Receivers) /\ at[t] # "parked"
      BY <1>3 DEF Listed, ChannelTypes, Callers, Relock
    <2>2. CASE call[t] = "send" /\ Send(t)
      BY <2>1, <2>2, OffersSend DEF Loops
    <2>3. CASE call[t] = "sync" /\ Sync(t)
      BY <2>1, <2>3, OffersSync DEF Loops
    <2>4. CASE call[t] = "recv" /\ Recv(t)
      BY <2>1, <2>4, OffersRecv DEF Loops
    <2> QED BY <1>3, <2>2, <2>3, <2>4 DEF Relock
  <1>4. CASE \E t \in Callers : Step(t)
    BY <1>3, <1>4, OffersOther, OffersThrow DEF Step
  <1>5. CASE \E t \in Cancelable : Cancel(t)
    BY <1>5, OffersOther DEF ChannelUse
  <1>6. CASE Close \/ Clear
    BY <1>6, OffersOther
  <1>7. CASE UNCHANGED vars
    BY <1>7 DEF vars, RecvOffer, SendOffer, Takers, Givers, Room, is_full, synchronous
  <1> QED BY <1>1, <1>2, <1>4, <1>5, <1>6, <1>7 DEF Next

\* The channel starts empty, with nobody in it.
LEMMA InitListed ==
    ASSUME ChannelUse, Init
    PROVE  Listed /\ RecvOffer /\ SendOffer
  <1>1. /\ queue \in Seq(Senders \X Nat) /\ Len(queue) <= Capacity
        /\ not_empty \in Seq(Receivers) /\ IsInjective(not_empty) /\ Range(not_empty) = {}
        /\ not_full \in Seq(Senders) /\ IsInjective(not_full) /\ Range(not_full) = {}
    BY EmptyLemma, SMTT(30) DEF Init, ChannelUse
  <1>2. ChannelTypes
    BY <1>1 DEF Init, ChannelTypes, Loops, Places
  <1>3. \A t \in Callers : CallOK(t)
    BY <1>1 DEF Init, CallOK, Asleep
  <1> QED BY <1>1, <1>2, <1>3 DEF Init, Listed, RecvOffer, SendOffer
-----------------------------------------------------------------------------
(* The theorems. *)

\* channel::send and recv: the queue never holds more than the capacity, and a task
\* that sleeps without a token is once in the list of its loop, or was canceled.
THEOREM ChannelSafety ==
    ASSUME ChannelUse
    PROVE  Spec => []TypeOK
  <1>1. Init => Listed
    BY InitListed
  <1>2. Listed /\ [Next]_vars => Listed'
    BY ListedStep
  <1>3. ASSUME Listed PROVE TypeOK
    <2>1. ASSUME NEW t \in Callers, at[t] = "parked", ~token[t], ~canceled[t]
          PROVE  t \in Range(IF call[t] = "recv" THEN not_empty ELSE not_full)
      <3>1. t \in Asleep /\ call[t] # "none" /\ call[t] \in Loops(t)
        BY <1>3, <2>1 DEF Listed, CallOK, ChannelTypes
      <3>2. CASE call[t] = "recv"
        BY <1>3, <3>1, <3>2, AsleepAt DEF Asleep, Loops, Callers
      <3>3. CASE call[t] # "recv"
        BY <1>3, <3>1, <3>3, AsleepAt DEF Asleep, Loops, Callers
      <3> QED BY <3>2, <3>3
    <2> QED BY <1>3, <2>1 DEF TypeOK, Listed
  <1> QED BY <1>1, <1>2, <1>3, PTL DEF Spec

\* channel::send, recv, close, clear and the handler of rendez::sleep: when all is
\* quiet no receiver sleeps while there is an item, no sender while there is room, and
\* nobody on a closed channel, whoever was canceled.
THEOREM ChannelServes ==
    ASSUME ChannelUse
    PROVE  Spec => []NobodyStuck
  <1> DEFINE Inv == Listed /\ RecvOffer /\ SendOffer
  <1>1. Init => Inv
    BY InitListed
  <1>2. Inv /\ [Next]_vars => Inv'
    BY ListedStep, OffersStep
  <1>3. ASSUME Inv PROVE NobodyStuck
    <2>1. SUFFICES ASSUME \A u \in Callers : \/ at[u] = "idle"
                                             \/ at[u] = "parked" /\ ~token[u] /\ ~canceled[u],
                          NEW t \in Callers, at[t] = "parked"
                   PROVE  ~closed /\ IF call[t] = "recv" THEN is_empty ELSE is_full
      BY DEF NobodyStuck
    <2>2. \A u \in Callers : at[u] # "idle" => u \in Asleep
      BY <1>3, <2>1 DEF Listed, CallOK
    <2>3. Takers = {} /\ Givers = {}
      BY <1>3, <2>2, AsleepAt DEF Takers, Givers, Asleep
    <2>4. /\ Len(queue) \in Nat /\ Room \in Nat /\ (queue = <<>> <=> Len(queue) = 0)
          /\ (is_full <=> Room = 0)
      BY <1>3, Numbers
    <2>5. Cardinality({}) = 0
      BY FS_EmptySet
    <2>6. t \in Asleep /\ call[t] \in Loops(t) /\ call[t] # "none"
      BY <1>3, <2>1, <2>2 DEF Listed, CallOK, ChannelTypes
    <2>7. ~closed
      <3>1. not_empty # <<>> \/ not_full # <<>>
        BY <2>6, EmptyLemma DEF Asleep
      <3> QED BY <1>3, <3>1 DEF Listed
    <2>8. CASE call[t] = "recv"
      <3>1. not_empty # <<>>
        BY <1>3, <2>6, <2>8, AsleepAt, EmptyLemma DEF Asleep, Loops, Callers
      <3>2. Len(queue) <= 0
        BY <1>3, <2>3, <2>5, <3>1 DEF RecvOffer
      <3> QED BY <2>4, <2>7, <2>8, <3>2, SMTT(30) DEF is_empty
    <2>9. CASE call[t] # "recv"
      <3>1. not_full # <<>>
        BY <1>3, <2>6, <2>9, AsleepAt, EmptyLemma DEF Asleep, Loops, Callers
      <3>2. is_full \/ Room <= 0
        BY <1>3, <2>3, <2>5, <3>1 DEF SendOffer
      <3> QED BY <2>4, <2>7, <2>9, <3>2, SMTT(30)
    <2> QED BY <2>8, <2>9
  <1> QED BY <1>1, <1>2, <1>3, PTL DEF Spec

\* The item of a sender in its second loop is in the queue until it was received.
Kept == \A t \in Senders : call[t] = "sync" => Item(t) \in got \cup Range(queue)

\* An item leaves the queue only into the hands of a receiver.
LEMMA KeptStep ==
    ASSUME ChannelUse, ~Clears, Listed, Kept, [Next]_vars
    PROVE  Kept' /\ [SyncReturn]_vars
  <1>1. queue \in Seq(Senders \X Nat) /\ sent \in [Senders -> Nat]
        /\ call \in [Callers -> {"none", "send", "sync", "recv"}]
    BY DEF Listed, ChannelTypes
  <1>2. ASSUME NEW t \in Senders, Send(t), at[t] # "parked", call[t] # "sync"
        PROVE  Kept' /\ SyncReturn
    <2>1. \A u \in Senders : u # t => call'[u] = call[u]
      BY <1>1, <1>2 DEF Send, SendWaits, SendClosed, SendPushes, Sleeps, Returns, Callers
    <2>2. SyncReturn
      BY <1>1, <1>2, <2>1 DEF SyncReturn, Callers
    <2>3. CASE SendPushes(t)
      <3>1. /\ \A u \in Senders : u # t => Item(u)' = Item(u)
            /\ queue' = Append(queue, Item(t)') /\ Item(t)' \in Senders \X Nat
            /\ got' = got /\ closed' = closed
        BY <1>1, <2>3, SMTT(30) DEF SendPushes, Item
      <3>2. Range(queue') = Range(queue) \cup {Item(t)'}
        <4>1. PICK e \in Senders \X Nat : e = Item(t)'
          BY <3>1
        <4>2. Range(Append(queue, e)) = Range(queue) \cup {e}
          BY <1>1, AppendLemma, SMTT(30)
        <4> QED BY <3>1, <4>1, <4>2
      <3>3. ASSUME NEW u \in Senders, call'[u] = "sync" PROVE Item(u)' \in got' \cup Range(queue')
        <4>1. CASE u = t
          BY <3>2, <4>1
        <4>2. CASE u # t
          BY <2>1, <3>1, <3>2, <3>3, <4>2 DEF Kept
        <4> QED BY <4>1, <4>2
      <3> QED BY <2>2, <3>1, <3>3 DEF Kept
    <2>4. CASE SendWaits(t) \/ SendClosed(t)
      <3>1. UNCHANGED <<queue, closed, sent, got>> /\ call'[t] # "sync"
        BY <1>1, <2>4 DEF SendWaits, SendClosed, Sleeps, Returns, Callers
      <3> QED BY <2>1, <2>2, <3>1 DEF Kept, Item
    <2> QED BY <1>2, <2>3, <2>4 DEF Send
  <1>3. ASSUME NEW t \in Receivers, Recv(t) PROVE Kept' /\ SyncReturn
    <2>1. \A u \in Senders : call'[u] = call[u] /\ Item(u)' = Item(u)
      <3>1. t \notin Senders /\ sent' = sent
        BY <1>3, AsleepAt DEF Recv, RecvWaits, RecvClosed, RecvPops
      <3> QED BY <1>1, <1>3, <3>1
              DEF Recv, RecvWaits, RecvClosed, RecvPops, Sleeps, Returns, Callers, Item
    <2>2. SyncReturn
      BY <2>1 DEF SyncReturn
    <2>3. got \cup Range(queue) \subseteq got' \cup Range(queue') /\ closed' = closed
      <3>1. CASE RecvPops(t)
        <4>1. queue # <<>> /\ queue' = Tail(queue) /\ got' = got \cup {Head(queue)}
              /\ closed' = closed
          BY <3>1 DEF RecvPops, is_empty
        <4>2. Range(queue) \subseteq Range(Tail(queue)) \cup {Head(queue)}
          BY <1>1, <4>1, HeadOrTail
        <4> QED BY <4>1, <4>2
      <3>2. CASE RecvWaits(t) \/ RecvClosed(t)
        BY <3>2 DEF RecvWaits, RecvClosed
      <3> QED BY <1>3, <3>1, <3>2 DEF Recv
    <2> QED BY <2>1, <2>2, <2>3 DEF Kept
  <1>4. ASSUME NEW t \in Senders, Sync(t), call[t] = "sync" PROVE Kept' /\ SyncReturn
    <2>1. \A u \in Senders : u # t => call'[u] = call[u]
      BY <1>1, <1>4 DEF Sync, Sleeps, Returns, Callers
    <2>2. UNCHANGED <<queue, closed, sent, got>>
      BY <1>4 DEF Sync
    <2>3. CASE is_full /\ ~closed
      <3>1. call'[t] = "sync"
        BY <1>1, <1>4, <2>3 DEF Sync, Sleeps, Callers
      <3>2. SyncReturn
        BY <2>1, <3>1 DEF SyncReturn
      <3>3. \A u \in Senders : call'[u] = call[u] /\ Item(u)' = Item(u)
        BY <1>4, <2>1, <2>2, <3>1 DEF Item
      <3> QED BY <2>2, <3>2, <3>3 DEF Kept
    <2>4. CASE ~is_full
      <3>1. call'[t] = "none"
        BY <1>1, <1>4, <2>4 DEF Sync, Returns, Callers
      <3>2. Range(queue) = {}
        <4>1. synchronous
          BY <1>4 DEF Listed, CallOK, Callers
        <4>2. Len(queue) \in Nat /\ (queue = <<>> <=> Len(queue) = 0)
          BY Numbers
        <4>3. queue = <<>>
          BY <2>4, <4>1, <4>2, SMTT(30) DEF is_full, synchronous
        <4> QED BY <4>3, EmptyLemma
      <3>3. Item(t) \in got
        BY <1>4, <3>2 DEF Kept
      <3>4. SyncReturn
        BY <2>1, <3>3 DEF SyncReturn
      <3> QED BY <2>1, <2>2, <3>1, <3>4 DEF Kept, Item
    <2>5. CASE closed
      <3>1. call'[t] = "none" /\ SyncReturn
        BY <1>1, <1>4, <2>5 DEF Sync, Returns, Callers, SyncReturn
      <3> QED BY <2>1, <2>2, <3>1 DEF Kept, Item
    <2> QED BY <2>3, <2>4, <2>5
  <1>5. ASSUME NEW t \in Callers, Resume(t) \/ Throw(t) \/ Cancel(t) PROVE Kept' /\ SyncReturn
    <2>1. UNCHANGED <<queue, closed, sent, got>>
      BY <1>5 DEF Resume, Throw, Cancel
    <2>2. \A u \in Senders : call'[u] = call[u] \/ (canceled[u] /\ call'[u] = "none")
      BY <1>1, <1>5 DEF Resume, Throw, Cancel, Returns, Callers
    <2>3. SyncReturn
      BY <2>2 DEF SyncReturn
    <2> QED BY <2>1, <2>2, <2>3 DEF Kept, Item
  <1>6. CASE \E t \in Senders : SendCall(t)
    <2>1. \A t \in Senders : at[t] = "idle" => call[t] # "sync" /\ at[t] # "parked"
      BY DEF Listed, CallOK, Callers
    <2> QED BY <1>2, <1>6, <2>1 DEF SendCall
  <1>7. CASE \E t \in Receivers : RecvCall(t)
    BY <1>3, <1>7 DEF RecvCall
  <1>8. ASSUME NEW t \in Callers, Relock(t) PROVE Kept' /\ SyncReturn
    <2>1. call[t] \in Loops(t) /\ (t \in Senders \/ t \in Receivers) /\ at[t] # "parked"
      BY <1>8 DEF Listed, ChannelTypes, Callers, Relock
    <2>2. CASE call[t] = "send" /\ Send(t)
      BY <1>2, <2>1, <2>2 DEF Loops
    <2>3. CASE call[t] = "sync" /\ Sync(t)
      BY <1>4, <2>1, <2>3 DEF Loops
    <2>4. CASE call[t] = "recv" /\ Recv(t)
      BY <1>3, <2>1, <2>4 DEF Loops
    <2> QED BY <1>8, <2>2, <2>3, <2>4 DEF Relock
  <1>9. CASE \E t \in Callers : Step(t)
    BY <1>5, <1>8, <1>9 DEF Step
  <1>10. CASE \E t \in Cancelable : Cancel(t)
    BY <1>5, <1>10 DEF ChannelUse
  <1>11. CASE Close
    BY <1>11 DEF Close, Kept, SyncReturn, Item
  <1>12. CASE UNCHANGED vars
    <2>1. Kept'
      BY <1>12 DEF vars, Kept, Item
    <2> QED BY <1>12, <2>1
  <1> QED BY <1>6, <1>7, <1>9, <1>10, <1>11, <1>12 DEF Next

\* channel::send in synchronous mode: a send that returns, and was not canceled, has
\* been received, as long as the channel is open and nobody clears it.
THEOREM ChannelReceived ==
    ASSUME ChannelUse, ~Clears
    PROVE  Spec => ChannelSendReceived
  <1> DEFINE Inv == Listed /\ Kept
  <1>1. Init => Inv
    <2>1. Init => Kept
      BY DEF Init, Kept, Callers
    <2> QED BY <2>1, InitListed
  <1>2. Inv /\ [Next]_vars => Inv'
    BY ListedStep, KeptStep
  <1>3. Inv /\ [Next]_vars => [SyncReturn]_vars
    BY KeptStep
  <1> QED BY <1>1, <1>2, <1>3, PTL DEF Spec, ChannelSendReceived
=============================================================================
