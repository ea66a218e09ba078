----------------------------- MODULE RendezProof -----------------------------
(***************************************************************************)
(* The theorems about Rendez, for any number of waiters and signalers: a   *)
(* task is in the list once and only while it sleeps, and no signal is     *)
(* lost, with cancels on many threads, or with cancels and deadlines when  *)
(* all tasks are on one thread.                                            *)
(***************************************************************************)
EXTENDS Rendez, QueueTheorems, FiniteSetTheorems

\* Zenon is the quickest here; the leaves that it does not find cite SMT.
USE ZenonT(60)

WaiterPlaces   == {"idle", "locked", "pushed", "swap", "parked", "relock", "catch", "pass", "gone"}
SignalerPlaces == {"idle", "signal", "woke"}

RendezTypes ==
    /\ items \in Nat /\ waiting \in Seq(Waiters)
    /\ pc \in [Everyone -> WaiterPlaces \cup SignalerPlaces]
    /\ \A t \in Waiters : pc[t] \in WaiterPlaces
    /\ \A t \in Signalers : pc[t] \in SignalerPlaces
    /\ popped \in [Everyone -> Seq(Waiters)]
    /\ token \in [Waiters -> BOOLEAN] /\ canceled \in [Waiters -> BOOLEAN]
    /\ late \in [Waiters -> BOOLEAN]

\* The tasks that somebody has taken from the list and has still to make ready.
Owed(u) == Range(popped[u])
IsOwed(t) == \E u \in Everyone : t \in Owed(u)

\* A task is taken from the list once, by a task that is on its way to ready(). It
\* has not left sleep(), unless it was canceled at the same time.
OwesOK(u) ==
    /\ popped[u] # <<>> => pc[u] \in {"pass", "woke"}
    /\ IsInjective(popped[u])
    /\ \A t \in Owed(u) : /\ t \notin Range(waiting)
                          /\ \/ pc[t] \in {"pushed", "swap", "parked"}
                             \/ canceled[t] /\ pc[t] \in {"catch", "pass", "gone"}
                          /\ \A v \in Everyone : t \in Owed(v) => v = u

\* A token means that somebody has taken the task from the list and made it ready,
\* that the task was canceled, or that its deadline has passed.
TokenOK(t) ==
    ~canceled[t] /\ token[t] =>
        \/ pc[t] = "parked" /\ late[t]
        \/ pc[t] \in {"pushed", "swap", "parked"} /\ t \notin Range(waiting) /\ ~IsOwed(t)

\* A task that goes to sleep is in the list, or somebody has woken it or will.
SleepOK(t) ==
    /\ pc[t] \in {"pushed", "swap", "parked"} => t \in Range(waiting) \/ token[t] \/ IsOwed(t)
    /\ OneThread /\ pc[t] \in {"pushed", "swap"} => t \in Range(waiting)
    /\ late[t] => OneThread
    /\ pc[t] = "catch" => canceled[t] \/ OneThread

Core ==
    /\ RendezTypes /\ WaitsOnce
    /\ \A u \in Everyone : OwesOK(u)
    /\ \A t \in Waiters : TokenOK(t) /\ SleepOK(t)

\* The tasks that will look at the items, or pass a wake-up on, before they sleep.
Pending ==
    {t \in Signalers : pc[t] = "signal"} \cup
    {t \in Waiters : \/ pc[t] \in {"locked", "relock"}
                     \/ pc[t] \in {"pushed", "swap", "parked", "catch"} /\ t \notin Range(waiting)}

\* While a task waits, there is a pending task for every item.
Signaled == waiting # <<>> => items <= Cardinality(Pending)

\* Where the theorems hold: deadlines only when all the tasks are on one thread.
RendezUse ==
    /\ Waiters \cap Signalers = {} /\ IsFiniteSet(Everyone)
    /\ Canceled \subseteq Waiters /\ Deadlined \subseteq Waiters
    /\ Deadlined = {} \/ OneThread
-----------------------------------------------------------------------------
(* The list and the tokens. *)

\* What the invariant says of one task.
LEMMA CoreAt ==
    ASSUME Core
    PROVE  /\ \A t \in Waiters : /\ t \in Everyone /\ pc[t] \in WaiterPlaces
                                 /\ TokenOK(t) /\ SleepOK(t)
           /\ \A u \in Everyone : /\ OwesOK(u) /\ popped[u] \in Seq(Waiters)
                                  /\ Owed(u) \subseteq Waiters
                                  /\ popped[u] = <<>> => Owed(u) = {}
                                  /\ Owed(u) # {} => pc[u] \in {"pass", "woke"}
           /\ Range(waiting) \subseteq Waiters
           /\ \A t \in Waiters : IsOwed(t) =>
                 /\ t \notin Range(waiting)
                 /\ \/ pc[t] \in {"pushed", "swap", "parked"}
                    \/ canceled[t] /\ pc[t] \in {"catch", "pass", "gone"}
  <1>1. \A t \in Waiters : t \in Everyone /\ pc[t] \in WaiterPlaces /\ TokenOK(t) /\ SleepOK(t)
    BY DEF Core, RendezTypes, Everyone
  <1>2. ASSUME NEW u \in Everyone
        PROVE  /\ OwesOK(u) /\ popped[u] \in Seq(Waiters)
               /\ Owed(u) \subseteq Waiters
               /\ popped[u] = <<>> => Owed(u) = {}
    BY RangeLemma, EmptyLemma DEF Core, RendezTypes, Owed
  <1>3. Range(waiting) \subseteq Waiters
    BY RangeLemma DEF Core, RendezTypes
  <1>4. \A u \in Everyone : Owed(u) # {} => pc[u] \in {"pass", "woke"}
    BY <1>2 DEF OwesOK
  <1>5. \A t \in Waiters : IsOwed(t) =>
           /\ t \notin Range(waiting)
           /\ \/ pc[t] \in {"pushed", "swap", "parked"}
              \/ canceled[t] /\ pc[t] \in {"catch", "pass", "gone"}
    BY <1>2 DEF IsOwed, OwesOK
  <1> QED BY <1>1, <1>2, <1>3, <1>4, <1>5

\* A step of one waiter that leaves the list alone.
LEMMA CoreMove ==
    ASSUME Core, Waiters \cap Signalers = {}, NEW t \in Waiters, NEW p \in WaiterPlaces, Goto(t, p),
           UNCHANGED <<waiting, popped>>, items' \in Nat,
           token' \in [Waiters -> BOOLEAN], canceled' \in [Waiters -> BOOLEAN],
           late' \in [Waiters -> BOOLEAN],
           \A u \in Waiters \ {t} :
               token'[u] = token[u] /\ canceled'[u] = canceled[u] /\ late'[u] = late[u],
           t \in Range(waiting) => p \in {"pushed", "swap", "parked", "catch"},
           IsOwed(t) => \/ p \in {"pushed", "swap", "parked"}
                        \/ canceled'[t] /\ p \in {"catch", "pass", "gone"},
           popped[t] # <<>> => p = "pass",
           TokenOK(t)', SleepOK(t)'
    PROVE  Core'
  <1>p. /\ pc' \in [Everyone -> WaiterPlaces \cup SignalerPlaces] /\ pc'[t] = p
        /\ \A u \in Everyone \ {t} : pc'[u] = pc[u]
    BY CoreAt, SMTT(30) DEF Core, RendezTypes, Goto
  <1>1. RendezTypes'
    BY <1>p DEF Core, RendezTypes, Everyone
  <1>2. WaitsOnce'
    BY <1>p, CoreAt DEF Core, WaitsOnce, InSleep
  <1>3. ASSUME NEW u \in Everyone PROVE OwesOK(u)'
    <2>1. OwesOK(u) /\ Owed(u) \subseteq Waiters /\ Owed(u)' = Owed(u)
          /\ \A v \in Everyone : Owed(v)' = Owed(v)
      BY CoreAt DEF Owed
    <2>2. popped'[u] # <<>> => pc'[u] \in {"pass", "woke"}
      BY <1>p, <2>1 DEF OwesOK
    <2>3. ASSUME NEW x \in Owed(u)
          PROVE  \/ pc'[x] \in {"pushed", "swap", "parked"}
                 \/ canceled'[x] /\ pc'[x] \in {"catch", "pass", "gone"}
      <3>1. CASE x = t
        BY <1>p, <3>1 DEF IsOwed
      <3>2. CASE x # t
        BY <1>p, <2>1, <3>2 DEF OwesOK, Everyone
      <3> QED BY <3>1, <3>2
    <2> QED BY <2>1, <2>2, <2>3, SMTT(30) DEF OwesOK
  <1>4. \A x \in Waiters : IsOwed(x)' <=> IsOwed(x)
    BY DEF IsOwed, Owed
  <1>5. ASSUME NEW x \in Waiters, x # t PROVE TokenOK(x)' /\ SleepOK(x)'
    <2>1. TokenOK(x) /\ SleepOK(x) /\ pc'[x] = pc[x]
      BY <1>p, <1>5, CoreAt
    <2>2. TokenOK(x)'
      BY <1>4, <1>5, <2>1 DEF TokenOK
    <2>3. SleepOK(x)'
      BY <1>4, <1>5, <2>1 DEF SleepOK
    <2> QED BY <2>2, <2>3
  <1> QED BY <1>1, <1>2, <1>3, <1>5 DEF Core

\* A task that runs outside sleep() has no token, is not in the list and owes nothing.
LEMMA CoreOutside ==
    ASSUME Core, NEW t \in Waiters, pc[t] \in {"idle", "locked", "relock"}
    PROVE  /\ t \notin Range(waiting) /\ ~IsOwed(t) /\ popped[t] = <<>>
           /\ ~canceled[t] => ~token[t]
  <1>1. OwesOK(t) /\ TokenOK(t) /\ WaitsOnce
    BY CoreAt DEF Core
  <1>2. t \notin Range(waiting) /\ ~IsOwed(t)
    BY <1>1, CoreAt DEF WaitsOnce, InSleep
  <1> QED BY <1>1, <1>2 DEF OwesOK, TokenOK

\* lock(), the test of the predicate, and unlock().
LEMMA CoreLock ==
    ASSUME Core, RendezUse, NEW t \in Waiters, Lock(t) \/ Take(t)
    PROVE  Core'
  <1>1. PICK p \in {"idle", "locked"} : Goto(t, p)
    BY DEF Lock, Take
  <1>2. /\ t \notin Range(waiting) /\ ~IsOwed(t) /\ popped[t] = <<>>
        /\ ~canceled[t] => ~token[t]
    BY CoreOutside DEF Lock, Take
  <1>3. UNCHANGED <<waiting, popped, canceled, late>>
    BY DEF Lock, Take
  <1>4. items' \in Nat
    BY SMTT(30) DEF Lock, Take, Core, RendezTypes
  <1>5. /\ token' \in [Waiters -> BOOLEAN] /\ (token'[t] => token[t])
        /\ \A u \in Waiters \ {t} : token'[u] = token[u]
    <2>1. token' = token \/ token' = [token EXCEPT ![t] = FALSE]
      BY DEF Lock, Take
    <2>2. token \in [Waiters -> BOOLEAN]
      BY DEF Core, RendezTypes
    <2> QED BY <2>1, <2>2
  <1>6. pc'[t] = p
    BY <1>1, CoreAt DEF Goto, Core, RendezTypes
  <1>7. TokenOK(t)'
    BY <1>2, <1>3, <1>5 DEF TokenOK
  <1>8. SleepOK(t)'
    BY <1>1, <1>3, <1>6, CoreAt DEF SleepOK
  <1>9. p \in WaiterPlaces /\ canceled \in [Waiters -> BOOLEAN] /\ late \in [Waiters -> BOOLEAN]
    BY <1>1 DEF WaiterPlaces, Core, RendezTypes
  <1> QED BY <1>1, <1>2, <1>3, <1>4, <1>5, <1>7, <1>8, <1>9, CoreMove DEF RendezUse

\* sleep(): the qutex is released after the task has joined the list.
LEMMA CoreUnlock ==
    ASSUME Core, RendezUse, NEW t \in Waiters, Unlock(t)
    PROVE  Core'
  <1>1. pc[t] = "pushed" /\ pc'[t] = "swap" /\ Goto(t, "swap")
    BY CoreAt DEF Unlock, Goto, Core, RendezTypes
  <1>2. UNCHANGED <<items, waiting, popped, token, canceled, late>>
    BY DEF Unlock
  <1>3. IsOwed(t)' <=> IsOwed(t)
    BY <1>2 DEF IsOwed, Owed
  <1>4. TokenOK(t)' /\ SleepOK(t)'
    BY <1>1, <1>2, <1>3, CoreAt DEF TokenOK, SleepOK
  <1>5. popped[t] = <<>>
    BY <1>1, CoreAt DEF OwesOK
  <1>6. /\ "swap" \in WaiterPlaces /\ items \in Nat /\ token \in [Waiters -> BOOLEAN]
        /\ canceled \in [Waiters -> BOOLEAN] /\ late \in [Waiters -> BOOLEAN]
    BY DEF WaiterPlaces, Core, RendezTypes
  <1> QED BY <1>1, <1>2, <1>4, <1>5, <1>6, CoreMove DEF RendezUse

\* A task that throws for a deadline alone has not been woken, or its waker is done.
LEMMA CoreThrow ==
    ASSUME Core, RendezUse, NEW t \in Waiters, pc[t] \in {"swap", "parked"}, Throw(t),
           MayRun(Everyone \ {t}),
           UNCHANGED <<items, waiting, popped, canceled>>,
           token' \in [Waiters -> BOOLEAN], \A u \in Waiters \ {t} : token'[u] = token[u],
           pc[t] = "swap" => token'[t] = token[t],
           pc[t] = "parked" => ~token'[t]
    PROVE  Core'
  <1>1. pc'[t] = "catch" /\ Goto(t, "catch") /\ (canceled[t] \/ late[t])
    BY CoreAt DEF Throw, Goto, Core, RendezTypes
  <1>2. /\ late' \in [Waiters -> BOOLEAN] /\ (late'[t] => late[t])
        /\ \A u \in Waiters \ {t} : late'[u] = late[u]
    <2>1. late \in [Waiters -> BOOLEAN]
      BY DEF Core, RendezTypes
    <2>2. late' = late \/ late' = [late EXCEPT ![t] = FALSE]
      BY DEF Throw
    <2> QED BY <2>1, <2>2
  <1>3. SleepOK(t) /\ TokenOK(t) /\ OwesOK(t)
    BY CoreAt
  <1>4. ~canceled[t] => OneThread
    BY <1>1, <1>3 DEF SleepOK
  <1>5. popped[t] = <<>> /\ Owed(t) = {}
    BY <1>3, CoreAt DEF OwesOK
  <1>6. ~canceled[t] => ~IsOwed(t)
    BY <1>4, <1>5, CoreAt DEF IsOwed, MayRun
  <1>7. IsOwed(t)' <=> IsOwed(t)
    BY DEF IsOwed, Owed
  <1>8. TokenOK(t)'
    <2>1. ~canceled[t] => ~token'[t]
      BY <1>3, <1>4 DEF SleepOK, TokenOK
    <2> QED BY <2>1 DEF TokenOK
  <1>9. SleepOK(t)'
    BY <1>1, <1>2, <1>3, <1>4 DEF SleepOK
  <1>10. /\ "catch" \in WaiterPlaces /\ items \in Nat /\ canceled \in [Waiters -> BOOLEAN]
    BY DEF WaiterPlaces, Core, RendezTypes
  <1> QED BY <1>1, <1>2, <1>5, <1>6, <1>8, <1>9, <1>10, CoreMove DEF RendezUse

\* swap(), before the suspension.
LEMMA CoreSwap ==
    ASSUME Core, RendezUse, NEW t \in Waiters, MayRun(Everyone \ {t}), Swap(t)
    PROVE  Core'
  <1>t. /\ items \in Nat /\ token \in [Waiters -> BOOLEAN]
        /\ canceled \in [Waiters -> BOOLEAN] /\ late \in [Waiters -> BOOLEAN]
        /\ UNCHANGED <<items, waiting, popped, token, canceled>> /\ pc[t] = "swap"
    BY DEF Swap, Core, RendezTypes
  <1>1. CASE Throw(t)
    BY <1>1, <1>t, CoreThrow
  <1>2. CASE Goto(t, "parked") /\ UNCHANGED late
    <2>1. pc'[t] = "parked"
      BY <1>2, CoreAt DEF Goto, Core, RendezTypes
    <2>2. IsOwed(t)' <=> IsOwed(t)
      BY <1>t DEF IsOwed, Owed
    <2>3. TokenOK(t)' /\ SleepOK(t)'
      BY <1>2, <1>t, <2>1, <2>2, CoreAt DEF TokenOK, SleepOK
    <2>4. popped[t] = <<>> /\ "parked" \in WaiterPlaces
      BY <1>t, CoreAt DEF OwesOK, WaiterPlaces
    <2> QED BY <1>2, <1>t, <2>3, <2>4, CoreMove DEF RendezUse
  <1> QED BY <1>1, <1>2 DEF Swap

\* The end of the suspension: only a task that was taken from the list returns.
LEMMA CoreResume ==
    ASSUME Core, RendezUse, NEW t \in Waiters, MayRun(Everyone \ {t}), Resume(t)
    PROVE  Core'
  <1>t. /\ items \in Nat /\ pc[t] = "parked" /\ token[t]
        /\ canceled \in [Waiters -> BOOLEAN] /\ late \in [Waiters -> BOOLEAN]
        /\ UNCHANGED <<items, waiting, popped, canceled>>
    BY DEF Resume, Core, RendezTypes
  <1>s. /\ token' \in [Waiters -> BOOLEAN] /\ ~token'[t]
        /\ \A u \in Waiters \ {t} : token'[u] = token[u]
    BY DEF Resume, Core, RendezTypes
  <1>1. CASE Throw(t)
    BY <1>1, <1>s, <1>t, CoreThrow
  <1>2. CASE ~(canceled[t] \/ late[t]) /\ Goto(t, "relock") /\ UNCHANGED late
    <2>1. pc'[t] = "relock"
      BY <1>2, CoreAt DEF Goto, Core, RendezTypes
    <2>2. t \notin Range(waiting) /\ ~IsOwed(t)
      BY <1>2, <1>t, CoreAt DEF TokenOK
    <2>3. TokenOK(t)'
      BY <1>s DEF TokenOK
    <2>4. SleepOK(t)'
      BY <1>2, <1>t, <2>1, CoreAt DEF SleepOK
    <2>5. popped[t] = <<>> /\ "relock" \in WaiterPlaces
      BY <1>t, CoreAt DEF OwesOK, WaiterPlaces
    <2> QED BY <1>2, <1>s, <1>t, <2>2, <2>3, <2>4, <2>5, CoreMove DEF RendezUse
  <1> QED BY <1>1, <1>2 DEF Resume

\* sleep() throws on.
LEMMA CoreRethrow ==
    ASSUME Core, RendezUse, NEW t \in Waiters, Rethrow(t)
    PROVE  Core'
  <1>1. PICK p \in {"gone", "idle"} : Goto(t, p) /\ (canceled[t] => p = "gone")
    BY DEF Rethrow
  <1>t. /\ items \in Nat /\ pc[t] = "pass" /\ token \in [Waiters -> BOOLEAN]
        /\ canceled \in [Waiters -> BOOLEAN] /\ late \in [Waiters -> BOOLEAN]
        /\ UNCHANGED <<items, waiting, popped, token, canceled, late>> /\ popped[t] = <<>>
    BY DEF Rethrow, Core, RendezTypes
  <1>2. pc'[t] = p /\ p \in WaiterPlaces
    BY <1>1, CoreAt DEF Goto, Core, RendezTypes, WaiterPlaces
  <1>3. t \notin Range(waiting) /\ (IsOwed(t) => canceled[t])
    BY <1>t, CoreAt DEF Core, WaitsOnce, InSleep
  <1>4. TokenOK(t)' /\ SleepOK(t)'
    BY <1>1, <1>2, <1>t, CoreAt DEF TokenOK, SleepOK
  <1> QED BY <1>1, <1>2, <1>3, <1>4, <1>t, CoreMove DEF RendezUse

\* A cancel, and a deadline that passes, come with a token.
LEMMA CoreInterrupt ==
    ASSUME Core, RendezUse, NEW t \in Waiters, Cancel(t) \/ (t \in Deadlined /\ Deadline(t))
    PROVE  Core'
  <1>t. /\ items \in Nat /\ token \in [Waiters -> BOOLEAN] /\ DOMAIN pc = Everyone
        /\ canceled \in [Waiters -> BOOLEAN] /\ late \in [Waiters -> BOOLEAN]
        /\ UNCHANGED <<items, waiting, popped, pc>>
    BY DEF Cancel, Deadline, Core, RendezTypes
  <1>1. Goto(t, pc[t]) /\ pc[t] \in WaiterPlaces /\ (IsOwed(t)' <=> IsOwed(t))
    BY <1>t, CoreAt DEF Goto, IsOwed, Owed, Core, RendezTypes
  <1>2. t \in Range(waiting) => pc[t] \in {"pushed", "swap", "parked", "catch"}
    BY DEF Core, WaitsOnce, InSleep
  <1>3. /\ popped[t] # <<>> => pc[t] = "pass"
        /\ IsOwed(t) => \/ pc[t] \in {"pushed", "swap", "parked"}
                        \/ canceled[t] /\ pc[t] \in {"catch", "pass", "gone"}
    BY <1>1, CoreAt DEF OwesOK, WaiterPlaces
  <1>4. CASE Cancel(t)
    <2>1. /\ canceled' \in [Waiters -> BOOLEAN] /\ token' \in [Waiters -> BOOLEAN]
          /\ canceled'[t] /\ token'[t] /\ UNCHANGED late
          /\ \A u \in Waiters \ {t} : token'[u] = token[u] /\ canceled'[u] = canceled[u]
      BY <1>4, <1>t DEF Cancel
    <2>2. TokenOK(t)'
      BY <2>1 DEF TokenOK
    <2>3. SleepOK(t)'
      BY <1>t, <2>1, CoreAt DEF SleepOK
    <2> QED BY <1>1, <1>2, <1>3, <1>t, <2>1, <2>2, <2>3, CoreMove DEF RendezUse
  <1>5. CASE t \in Deadlined /\ Deadline(t)
    <2>1. /\ late' \in [Waiters -> BOOLEAN] /\ token' \in [Waiters -> BOOLEAN]
          /\ late'[t] /\ UNCHANGED canceled
          /\ \A u \in Waiters \ {t} : token'[u] = token[u] /\ late'[u] = late[u]
      BY <1>5, <1>t DEF Deadline
    <2>2. token'[t] <=> token[t] \/ pc[t] = "parked"
      BY <1>5, <1>t DEF Deadline
    <2>3. TokenOK(t)'
      BY <1>5, <1>t, <2>1, <2>2, CoreAt DEF TokenOK, Deadline
    <2>4. SleepOK(t)'
      BY <1>1, <1>5, <1>t, <2>1, <2>2, CoreAt DEF SleepOK, RendezUse
    <2> QED BY <1>1, <1>2, <1>3, <1>t, <2>1, <2>3, <2>4, CoreMove DEF RendezUse
  <1> QED BY <1>4, <1>5

\* sleep(): the task joins the list while it holds the qutex.
LEMMA CorePush ==
    ASSUME Core, RendezUse, NEW t \in Waiters, Push(t)
    PROVE  Core'
  <1>p. /\ pc' \in [Everyone -> WaiterPlaces \cup SignalerPlaces] /\ pc'[t] = "pushed"
        /\ \A u \in Everyone \ {t} : pc'[u] = pc[u]
        /\ UNCHANGED <<items, popped, token, canceled, late>> /\ pc[t] = "locked"
    BY CoreAt, SMTT(30) DEF Push, Goto, Core, RendezTypes, WaiterPlaces
  <1>o. /\ t \notin Range(waiting) /\ ~IsOwed(t) /\ popped[t] = <<>>
        /\ ~canceled[t] => ~token[t]
    BY <1>p, CoreOutside
  <1>w. /\ waiting' \in Seq(Waiters) /\ IsInjective(waiting')
        /\ Range(waiting') = Range(waiting) \cup {t}
    BY <1>o, AppendLemma, SMTT(30) DEF Push, Core, RendezTypes, WaitsOnce
  <1>1. RendezTypes'
    BY <1>p, <1>w DEF Core, RendezTypes, Everyone, RendezUse, WaiterPlaces
  <1>2. WaitsOnce'
    BY <1>p, <1>w, CoreAt DEF Core, WaitsOnce, InSleep
  <1>3. ASSUME NEW u \in Everyone PROVE OwesOK(u)'
    <2>1. OwesOK(u) /\ Owed(u) \subseteq Waiters /\ Owed(u)' = Owed(u)
          /\ \A v \in Everyone : Owed(v)' = Owed(v)
      BY <1>p, CoreAt DEF Owed
    <2>2. t \notin Owed(u) /\ (popped[u] # <<>> => u # t)
      BY <1>o DEF IsOwed
    <2> QED BY <1>p, <1>w, <2>1, <2>2, SMTT(30) DEF OwesOK, Everyone
  <1>4. \A x \in Waiters : IsOwed(x)' <=> IsOwed(x)
    BY <1>p DEF IsOwed, Owed
  <1>5. ASSUME NEW x \in Waiters PROVE TokenOK(x)' /\ SleepOK(x)'
    <2>1. TokenOK(x) /\ SleepOK(x) /\ (x # t => pc'[x] = pc[x])
      BY <1>p, CoreAt
    <2>2. TokenOK(x)'
      BY <1>4, <1>o, <1>p, <1>w, <2>1 DEF TokenOK
    <2>3. SleepOK(x)'
      BY <1>4, <1>p, <1>w, <2>1 DEF SleepOK
    <2> QED BY <2>2, <2>3
  <1> QED BY <1>1, <1>2, <1>3, <1>5 DEF Core

\* The call of ready() for a task that was taken from the list.
LEMMA CoreReady ==
    ASSUME Core, RendezUse, NEW u \in Everyone, Ready(u)
    PROVE  Core'
  <1>h. PICK h : h = Head(popped[u])
    OBVIOUS
  <1>p. /\ popped' = [popped EXCEPT ![u] = Tail(popped[u])] /\ popped[u] # <<>>
        /\ token' = [token EXCEPT ![h] = TRUE]
        /\ UNCHANGED <<items, waiting, pc, canceled, late>>
    BY <1>h DEF Ready
  <1>q. /\ h \in Waiters /\ h \in Owed(u) /\ Tail(popped[u]) \in Seq(Waiters)
        /\ IsInjective(Tail(popped[u])) /\ Range(Tail(popped[u])) = Owed(u) \ {h}
    BY <1>h, <1>p, CoreAt, TailLemma DEF OwesOK, Owed
  <1>r. /\ token' \in [Waiters -> BOOLEAN] /\ token'[h]
        /\ \A x \in Waiters \ {h} : token'[x] = token[x]
        /\ popped' \in [Everyone -> Seq(Waiters)] /\ popped'[u] = Tail(popped[u])
        /\ \A v \in Everyone \ {u} : popped'[v] = popped[v]
    BY <1>p, <1>q DEF Core, RendezTypes
  <1>o. /\ Owed(u)' = Owed(u) \ {h}
        /\ \A v \in Everyone \ {u} : Owed(v)' = Owed(v) /\ h \notin Owed(v)
    BY <1>q, <1>r, CoreAt DEF Owed, OwesOK
  <1>1. RendezTypes' /\ WaitsOnce'
    BY <1>p, <1>r DEF Core, RendezTypes, WaitsOnce
  <1>2. ASSUME NEW v \in Everyone PROVE OwesOK(v)'
    <2>1. OwesOK(v) /\ Owed(v)' \subseteq Owed(v)
      BY <1>o, CoreAt
    <2>4. IsInjective(popped'[v])
      BY <1>q, <1>r, <2>1 DEF OwesOK
    <2>2. popped'[v] # <<>> => popped[v] # <<>>
      BY <1>p, <1>r
    <2>3. \A w \in Everyone : Owed(w)' \subseteq Owed(w)
      BY <1>o
    <2> QED BY <1>p, <2>1, <2>2, <2>3, <2>4 DEF OwesOK
  <1>3. ~IsOwed(h)' /\ \A x \in Waiters \ {h} : IsOwed(x)' <=> IsOwed(x)
    BY <1>o DEF IsOwed
  <1>4. ASSUME NEW x \in Waiters PROVE TokenOK(x)' /\ SleepOK(x)'
    <2>1. TokenOK(x) /\ SleepOK(x)
      BY CoreAt
    <2>2. CASE x = h
      <3>1. /\ h \notin Range(waiting)
            /\ canceled[h] \/ pc[h] \in {"pushed", "swap", "parked"}
        BY <1>q, CoreAt DEF OwesOK
      <3>2. TokenOK(x)'
        BY <1>3, <1>p, <2>2, <3>1 DEF TokenOK
      <3>3. SleepOK(x)'
        BY <1>p, <1>r, <2>1, <2>2 DEF SleepOK
      <3> QED BY <3>2, <3>3
    <2>3. CASE x # h
      <3>1. TokenOK(x)'
        BY <1>3, <1>p, <1>r, <2>1, <2>3 DEF TokenOK
      <3>2. SleepOK(x)'
        BY <1>3, <1>p, <1>r, <2>1, <2>3 DEF SleepOK
      <3> QED BY <3>1, <3>2
    <2> QED BY <2>2, <2>3
  <1> QED BY <1>1, <1>2, <1>4 DEF Core

\* A signaler that does not touch the list.
LEMMA CoreSignaler ==
    ASSUME Core, RendezUse, NEW t \in Signalers, Put(t) \/ WakeupReturns(t)
    PROVE  Core'
  <1>1. PICK p \in {"signal", "idle"} : Goto(t, p)
    BY DEF Put, WakeupReturns
  <1>2. items' \in Nat /\ UNCHANGED <<waiting, popped, token, canceled, late>>
    BY SMTT(30) DEF Put, WakeupReturns, Core, RendezTypes
  <1>3. popped[t] = <<>> /\ t \in Everyone
    <2>1. t \in Everyone
      BY DEF Everyone
    <2> QED BY <2>1, CoreAt DEF OwesOK, Put, WakeupReturns
  <1>4. /\ pc' \in [Everyone -> WaiterPlaces \cup SignalerPlaces] /\ pc'[t] = p
        /\ \A u \in Everyone \ {t} : pc'[u] = pc[u]
    BY <1>1, <1>3 DEF Goto, Core, RendezTypes, SignalerPlaces
  <1>5. t \notin Waiters
    BY DEF RendezUse
  <1>6. RendezTypes'
    BY <1>1, <1>2, <1>4, <1>5 DEF Core, RendezTypes, Everyone, SignalerPlaces
  <1>7. WaitsOnce'
    BY <1>2, <1>4, <1>5, CoreAt DEF Core, WaitsOnce
  <1>8. ASSUME NEW u \in Everyone PROVE OwesOK(u)'
    <2>1. OwesOK(u) /\ Owed(u) \subseteq Waiters /\ Owed(u)' = Owed(u)
          /\ \A v \in Everyone : Owed(v)' = Owed(v)
      BY <1>2, CoreAt DEF Owed
    <2> QED BY <1>2, <1>3, <1>4, <1>5, <2>1, SMTT(30) DEF OwesOK, Everyone
  <1>9. \A x \in Waiters : IsOwed(x)' <=> IsOwed(x)
    BY <1>2 DEF IsOwed, Owed
  <1>10. ASSUME NEW x \in Waiters PROVE TokenOK(x)' /\ SleepOK(x)'
    <2>1. TokenOK(x) /\ SleepOK(x) /\ pc'[x] = pc[x]
      BY <1>4, <1>5, CoreAt
    <2>2. TokenOK(x)'
      BY <1>2, <1>9, <2>1 DEF TokenOK
    <2>3. SleepOK(x)'
      BY <1>2, <1>9, <2>1 DEF SleepOK
    <2> QED BY <2>2, <2>3
  <1> QED BY <1>6, <1>7, <1>8, <1>10 DEF Core

\* A task takes some tasks from the list, to make them ready.
LEMMA CorePop ==
    ASSUME Core, RendezUse, NEW t \in Everyone, MayRun(Everyone \ {t}),
           pc[t] \in {"catch", "signal"}, t \notin Range(waiting),
           Goto(t, IF t \in Waiters THEN "pass" ELSE "woke"),
           NEW q \in Seq(Waiters), IsInjective(q), popped' = [popped EXCEPT ![t] = q],
           waiting' \in Seq(Waiters), IsInjective(waiting'),
           Range(waiting') \cup Range(q) = Range(waiting), Range(waiting') \cap Range(q) = {},
           UNCHANGED <<items, token, canceled, late>>
    PROVE  Core'
  <1>p. /\ pc' \in [Everyone -> WaiterPlaces \cup SignalerPlaces]
        /\ pc'[t] = IF t \in Waiters THEN "pass" ELSE "woke"
        /\ \A u \in Everyone \ {t} : pc'[u] = pc[u]
    BY DEF Goto, Core, RendezTypes, WaiterPlaces, SignalerPlaces
  <1>q. /\ popped' \in [Everyone -> Seq(Waiters)] /\ popped'[t] = q
        /\ \A u \in Everyone \ {t} : popped'[u] = popped[u]
    BY DEF Core, RendezTypes
  <1>e. popped[t] = <<>> /\ Owed(t) = {}
    BY CoreAt DEF OwesOK
  <1>o. Owed(t)' = Range(q) /\ \A u \in Everyone \ {t} : Owed(u)' = Owed(u)
    BY <1>q DEF Owed
  <1>c. ASSUME NEW x \in Range(waiting)
        PROVE  \/ pc[x] \in {"pushed", "swap", "parked"}
               \/ canceled[x] /\ pc[x] = "catch"
    <2>1. /\ pc[x] \in {"pushed", "swap", "parked", "catch"} /\ x \in Everyone \ {t}
          /\ SleepOK(x)
      BY CoreAt DEF Core, WaitsOnce, InSleep
    <2> QED BY <2>1 DEF SleepOK, MayRun
  <1>d. \A x \in Range(waiting) : pc'[x] = pc[x]
    BY <1>p, CoreAt
  <1>1. RendezTypes'
    BY <1>p, <1>q DEF Core, RendezTypes, Everyone, RendezUse, WaiterPlaces, SignalerPlaces
  <1>2. WaitsOnce'
    BY <1>d DEF Core, WaitsOnce
  <1>3. ASSUME NEW u \in Everyone PROVE OwesOK(u)'
    <2>1. CASE u = t
      <3>1. \A x \in Range(q) : \A v \in Everyone : x \in Owed(v)' => v = t
        BY <1>o, CoreAt, SMTT(30) DEF OwesOK
      <3> QED BY <1>c, <1>d, <1>o, <1>p, <1>q, <2>1, <3>1, SMTT(30) DEF OwesOK
    <2>2. CASE u # t
      <3>1. OwesOK(u) /\ Owed(u)' = Owed(u) /\ Owed(u) \subseteq Waiters /\ Owed(u) \cap Range(q) = {}
        BY <1>o, <2>2, CoreAt DEF OwesOK
      <3>2. \A x \in Owed(u) : \A v \in Everyone : x \in Owed(v)' => v = u
        BY <1>o, <3>1, SMTT(30) DEF OwesOK
      <3>3. ASSUME NEW x \in Owed(u)
            PROVE  \/ pc'[x] \in {"pushed", "swap", "parked"}
                   \/ canceled[x] /\ pc'[x] \in {"catch", "pass", "gone"}
        <4>1. \/ pc[x] \in {"pushed", "swap", "parked"}
              \/ canceled[x] /\ pc[x] \in {"catch", "pass", "gone"}
          BY <3>1 DEF OwesOK
        <4> QED BY <1>p, <3>1, <4>1, CoreAt DEF Everyone
      <3> QED BY <1>p, <1>q, <2>2, <3>1, <3>2, <3>3 DEF OwesOK
    <2> QED BY <2>1, <2>2
  <1>4. \A x \in Waiters : IsOwed(x)' <=> IsOwed(x) \/ x \in Range(q)
    BY <1>e, <1>o DEF IsOwed
  <1>5. ASSUME NEW x \in Waiters PROVE TokenOK(x)' /\ SleepOK(x)'
    <2>1. TokenOK(x) /\ SleepOK(x) /\ (x # t => pc'[x] = pc[x])
      BY <1>p, CoreAt
    <2>2. TokenOK(x)'
      BY <1>4, <2>1 DEF TokenOK
    <2>3. SleepOK(x)'
      <3>1. pc'[x] \in {"pushed", "swap", "parked", "catch"} => x # t
        BY <1>p
      <3>2. OneThread /\ x # t => pc[x] \notin {"pushed", "swap"}
        BY CoreAt DEF MayRun
      <3> QED BY <1>4, <2>1, <3>1, <3>2 DEF SleepOK
    <2> QED BY <2>2, <2>3
  <1> QED BY <1>1, <1>2, <1>3, <1>5 DEF Core

\* The tasks that wakeup() and the exception path of sleep() take from the list.
LEMMA PopOne ==
    ASSUME Core, waiting # <<>>
    PROVE  /\ <<Head(waiting)>> \in Seq(Waiters) /\ IsInjective(<<Head(waiting)>>)
           /\ Range(<<Head(waiting)>>) = {Head(waiting)} /\ Head(waiting) \in Range(waiting)
           /\ Tail(waiting) \in Seq(Waiters) /\ IsInjective(Tail(waiting))
           /\ Range(Tail(waiting)) = Range(waiting) \ {Head(waiting)}
  <1>1. /\ Head(waiting) \in Waiters /\ Head(waiting) \in Range(waiting)
        /\ Tail(waiting) \in Seq(Waiters) /\ IsInjective(Tail(waiting))
        /\ Range(Tail(waiting)) = Range(waiting) \ {Head(waiting)}
    BY TailLemma DEF Core, RendezTypes, WaitsOnce
  <1>2. DOMAIN <<Head(waiting)>> = {1} /\ <<Head(waiting)>>[1] = Head(waiting)
    BY SMTT(30)
  <1>3. <<Head(waiting)>> \in Seq(Waiters)
    BY <1>1, SMTT(30)
  <1> QED BY <1>1, <1>2, <1>3 DEF Range, IsInjective

\* The exception path of sleep().
LEMMA CoreCatch ==
    ASSUME Core, RendezUse, NEW t \in Waiters, MayRun(Everyone \ {t}), Catch(t)
    PROVE  Core'
  <1>t. /\ t \in Everyone /\ pc[t] = "catch" /\ Goto(t, "pass") /\ popped[t] = <<>>
        /\ UNCHANGED <<items, token, canceled, late>> /\ DOMAIN popped = Everyone
        /\ <<>> \in Seq(Waiters) /\ IsInjective(<<>>) /\ Range(<<>>) = {}
    BY CoreAt, EmptyLemma DEF Catch, OwesOK, Core, RendezTypes
  <1>1. CASE t \notin Range(waiting) /\ waiting # <<>>
    <2>1. popped' = [popped EXCEPT ![t] = <<Head(waiting)>>] /\ waiting' = Tail(waiting)
      BY <1>1 DEF Catch
    <2>2. Range(waiting) = Range(<<Head(waiting)>>) \cup Range(waiting')
      BY <1>1, <2>1, PopOne
    <2> QED BY <1>1, <1>t, <2>1, <2>2, CorePop, PopOne
  <1>2. CASE t \notin Range(waiting) /\ waiting = <<>>
    <2>1. popped' = [popped EXCEPT ![t] = <<>>] /\ waiting' = <<>>
      BY <1>2, <1>t DEF Catch, Core, RendezTypes
    <2> QED BY <1>2, <1>t, <2>1, CorePop
  <1>3. CASE t \in Range(waiting)
    <2>p. /\ pc' \in [Everyone -> WaiterPlaces \cup SignalerPlaces] /\ pc'[t] = "pass"
          /\ \A u \in Everyone \ {t} : pc'[u] = pc[u]
      BY <1>3, <1>t DEF Catch, Goto, Core, RendezTypes, WaiterPlaces
    <2>w. /\ waiting' \in Seq(Waiters) /\ IsInjective(waiting')
          /\ Range(waiting') = Range(waiting) \ {t}
      BY <1>3, WithoutLemma, SMTT(30) DEF Catch, Core, RendezTypes, WaitsOnce
    <2>u. UNCHANGED popped
      BY <1>3 DEF Catch
    <2>o. ~IsOwed(t) /\ \A x \in Waiters : IsOwed(x)' <=> IsOwed(x)
      <3>1. ~IsOwed(t)
        BY <1>3, CoreAt
      <3>2. \A v \in Everyone : Owed(v)' = Owed(v)
        BY <2>u DEF Owed
      <3> QED BY <3>1, <3>2 DEF IsOwed
    <2>1. RendezTypes'
      BY <1>t, <2>p, <2>u, <2>w DEF Core, RendezTypes, Everyone, RendezUse, WaiterPlaces
    <2>2. WaitsOnce'
      BY <2>p, <2>w, CoreAt DEF Core, WaitsOnce
    <2>3. ASSUME NEW u \in Everyone PROVE OwesOK(u)'
      <3>1. OwesOK(u) /\ Owed(u) \subseteq Waiters /\ \A v \in Everyone : Owed(v)' = Owed(v)
        BY <2>u, CoreAt DEF Owed
      <3>2. t \notin Owed(u)
        BY <2>o DEF IsOwed
      <3> QED BY <1>t, <2>p, <2>u, <2>w, <3>1, <3>2, SMTT(30) DEF OwesOK, Everyone
    <2>4. ASSUME NEW x \in Waiters PROVE TokenOK(x)' /\ SleepOK(x)'
      <3>1. TokenOK(x) /\ SleepOK(x) /\ (x # t => pc'[x] = pc[x])
        BY <2>p, CoreAt
      <3>2. TokenOK(x)'
        BY <1>t, <2>o, <2>w, <3>1 DEF TokenOK
      <3>3. SleepOK(x)'
        BY <1>t, <2>o, <2>p, <2>w, <3>1 DEF SleepOK
      <3> QED BY <3>2, <3>3
    <2> QED BY <2>1, <2>2, <2>3, <2>4 DEF Core
  <1> QED BY <1>1, <1>2, <1>3

\* wakeup() and wakeupall().
LEMMA CoreWakeup ==
    ASSUME Core, RendezUse, NEW t \in Signalers, MayRun(Everyone \ {t}), Wakeup(t) \/ Wakeupall(t)
    PROVE  Core'
  <1>1. t \in Everyone /\ t \notin Waiters /\ pc[t] = "signal" /\ Goto(t, "woke")
        /\ UNCHANGED <<items, token, canceled, late>> /\ t \notin Range(waiting)
    BY CoreAt DEF Everyone, RendezUse, Wakeup, Wakeupall
  <1>2. /\ <<>> \in Seq(Waiters) /\ IsInjective(<<>>) /\ Range(<<>>) = {}
        /\ waiting \in Seq(Waiters) /\ IsInjective(waiting)
        /\ popped[t] = <<>> /\ popped \in [Everyone -> Seq(Waiters)]
    BY <1>1, CoreAt, EmptyLemma DEF Core, RendezTypes, WaitsOnce, OwesOK
  <1>3. CASE Wakeupall(t)
    BY <1>1, <1>2, <1>3, CorePop DEF Wakeupall
  <1>4. CASE Wakeup(t) /\ waiting # <<>>
    BY <1>1, <1>4, CorePop, PopOne DEF Wakeup
  <1>5. CASE Wakeup(t) /\ waiting = <<>>
    <2>1. popped' = [popped EXCEPT ![t] = <<>>] /\ waiting' = <<>>
      BY <1>1, <1>2, <1>5 DEF Wakeup
    <2> QED BY <1>1, <1>2, <1>5, <2>1, CorePop
  <1> QED BY <1>3, <1>4, <1>5

\* Every step keeps the order of the list and of the tokens.
LEMMA CoreStep ==
    ASSUME Core, RendezUse, [Next]_vars
    PROVE  Core'
  <1>1. CASE UNCHANGED vars
    <2>1. UNCHANGED <<items, waiting, pc, popped, token, canceled, late>>
      BY <1>1 DEF vars
    <2>2. RendezTypes' /\ WaitsOnce'
      BY <2>1 DEF Core, RendezTypes, WaitsOnce
    <2>3. \A u \in Everyone : OwesOK(u)'
      BY <2>1 DEF Core, OwesOK, Owed
    <2>4. \A t \in Waiters : TokenOK(t)' /\ SleepOK(t)'
      BY <2>1 DEF Core, TokenOK, SleepOK, IsOwed, Owed
    <2> QED BY <2>2, <2>3, <2>4 DEF Core
  <1>2. ASSUME NEW t \in Waiters, MayRun(Everyone \ {t}), Lock(t) \/ WaiterStep(t) PROVE Core'
    BY <1>2, CoreLock, CorePush, CoreUnlock, CoreSwap, CoreResume, CoreCatch, CoreRethrow
       DEF WaiterStep
  <1>3. ASSUME NEW t \in Signalers, MayRun(Everyone \ {t}), Put(t) \/ SignalerStep(t) PROVE Core'
    BY <1>3, CoreSignaler, CoreWakeup DEF SignalerStep
  <1>4. ASSUME NEW t \in Canceled, Cancel(t) PROVE Core'
    BY <1>4, CoreInterrupt DEF RendezUse
  <1>5. ASSUME NEW t \in Deadlined, Deadline(t) PROVE Core'
    BY <1>5, CoreInterrupt DEF RendezUse
  <1> QED BY <1>1, <1>2, <1>3, <1>4, <1>5, CoreReady DEF Next

\* Nobody sleeps at the start.
LEMMA InitCore ==
    ASSUME Init, RendezUse
    PROVE  Core
  <1>1. <<>> \in Seq(Waiters) /\ IsInjective(<<>>) /\ Range(<<>>) = {}
    BY EmptyLemma
  <1>2. RendezTypes
    BY <1>1 DEF Init, RendezTypes, WaiterPlaces, SignalerPlaces, Everyone
  <1>3. WaitsOnce
    BY <1>1 DEF Init, WaitsOnce
  <1>4. \A u \in Everyone : OwesOK(u)
    BY <1>1 DEF Init, OwesOK, Owed
  <1>5. \A t \in Waiters : TokenOK(t) /\ SleepOK(t)
    BY DEF Init, TokenOK, SleepOK, Everyone
  <1> QED BY <1>2, <1>3, <1>4, <1>5 DEF Core
-----------------------------------------------------------------------------
(* The signals. *)

\* How the number of elements changes when one comes, one goes, or one takes the
\* place of another.
LEMMA CardMove ==
    ASSUME NEW S, IsFiniteSet(S), NEW P \in SUBSET S, NEW Q \in SUBSET S
    PROVE  /\ Cardinality(P) \in Nat /\ Cardinality(Q) \in Nat
           /\ P \subseteq Q => Cardinality(P) <= Cardinality(Q)
           /\ \A x \in P : P \ {x} \subseteq Q => Cardinality(P) - 1 <= Cardinality(Q)
           /\ \A y \in Q \ P : P \subseteq Q => Cardinality(P) + 1 <= Cardinality(Q)
           /\ \A x \in P, y \in Q \ P : P \ {x} \subseteq Q => Cardinality(P) <= Cardinality(Q)
  <1>1. /\ IsFiniteSet(P) /\ IsFiniteSet(Q)
        /\ Cardinality(P) \in Nat /\ Cardinality(Q) \in Nat
    BY FS_Subset, FS_CardinalityType
  <1>2. \A R \in SUBSET Q : IsFiniteSet(R) /\ Cardinality(R) \in Nat
                             /\ Cardinality(R) <= Cardinality(Q)
    BY <1>1, FS_Subset, FS_CardinalityType
  <1>3. ASSUME NEW x \in P, P \ {x} \subseteq Q PROVE Cardinality(P) - 1 <= Cardinality(Q)
    <2>1. Cardinality(P \ {x}) = Cardinality(P) - 1
      BY <1>1, FS_RemoveElement
    <2> QED BY <1>1, <1>2, <1>3, <2>1
  <1>4. ASSUME NEW y \in Q \ P, P \subseteq Q PROVE Cardinality(P) + 1 <= Cardinality(Q)
    <2>1. Cardinality(P \cup {y}) = Cardinality(P) + 1
      BY <1>1, FS_AddElement
    <2> QED BY <1>2, <1>4, <2>1
  <1>5. ASSUME NEW x \in P, NEW y \in Q \ P, P \ {x} \subseteq Q
        PROVE  Cardinality(P) <= Cardinality(Q)
    <2>1. IsFiniteSet(P \ {x}) /\ Cardinality(P \ {x}) = Cardinality(P) - 1
      BY <1>1, FS_RemoveElement
    <2>2. Cardinality((P \ {x}) \cup {y}) = Cardinality(P \ {x}) + 1
      BY <2>1, FS_AddElement
    <2> QED BY <1>1, <1>2, <1>5, <2>1, <2>2, SMTT(30)
  <1> QED BY <1>1, <1>2, <1>3, <1>4, <1>5

\* The number of pending tasks keeps up with the items.
LEMMA SignaledMove ==
    ASSUME Core, RendezUse, Signaled,
           waiting' # <<>> =>
             /\ waiting # <<>>
             /\ \/ Pending \subseteq Pending' /\ items' = items
                \/ \E t \in Pending : Pending \ {t} \subseteq Pending' /\ items' = items - 1
                \/ \E t \in Pending' \ Pending : Pending \subseteq Pending' /\ items' = items + 1
                \/ \E t \in Pending, h \in Pending' \ Pending :
                       Pending \ {t} \subseteq Pending' /\ items' = items
    PROVE  Signaled'
  <1>1. Pending \in SUBSET Everyone /\ Pending' \in SUBSET Everyone /\ IsFiniteSet(Everyone)
    BY DEF Pending, Everyone, RendezUse
  <1>2. items \in Nat
    BY DEF Core, RendezTypes
  <1>3. Cardinality(Pending) \in Nat /\ Cardinality(Pending') \in Nat
    BY <1>1, CardMove
  <1>4. SUFFICES ASSUME waiting' # <<>> PROVE items' <= Cardinality(Pending')
    BY DEF Signaled
  <1>5. items <= Cardinality(Pending)
    BY <1>4 DEF Signaled
  <1>6. CASE Pending \subseteq Pending' /\ items' = items
    BY <1>1, <1>2, <1>3, <1>5, <1>6, CardMove, SMTT(30)
  <1>7. CASE \E t \in Pending : Pending \ {t} \subseteq Pending' /\ items' = items - 1
    <2>1. Cardinality(Pending) - 1 <= Cardinality(Pending')
      BY <1>1, <1>7, CardMove
    <2> QED BY <1>2, <1>3, <1>5, <1>7, <2>1, SMTT(30)
  <1>8. CASE \E t \in Pending' \ Pending : Pending \subseteq Pending' /\ items' = items + 1
    <2>1. Cardinality(Pending) + 1 <= Cardinality(Pending')
      BY <1>1, <1>8, CardMove
    <2> QED BY <1>2, <1>3, <1>5, <1>8, <2>1, SMTT(30)
  <1>9. CASE \E t \in Pending, h \in Pending' \ Pending :
                 Pending \ {t} \subseteq Pending' /\ items' = items
    <2>1. Cardinality(Pending) <= Cardinality(Pending')
      BY <1>1, <1>9, CardMove
    <2> QED BY <1>2, <1>3, <1>5, <1>9, <2>1, SMTT(30)
  <1> QED BY <1>4, <1>6, <1>7, <1>8, <1>9

\* A step of one task that leaves the list alone, but for the task itself.
LEMMA PendingOthers ==
    ASSUME Core, RendezUse, NEW t \in Everyone, NEW p, Goto(t, p),
           Range(waiting') \cup {t} = Range(waiting) \cup {t}
    PROVE  /\ pc'[t] = p
           /\ Pending \ {t} \subseteq Pending'
  <1>1. pc'[t] = p /\ \A u \in Everyone \ {t} : pc'[u] = pc[u]
    BY DEF Goto, Core, RendezTypes
  <1> QED BY <1>1 DEF Pending, Everyone

\* The steps of a waiter that leave the items alone.
LEMMA SignaledWaiter ==
    ASSUME Core, RendezUse, Signaled, NEW t \in Waiters,
           Lock(t) \/ Unlock(t) \/ Swap(t) \/ Resume(t) \/ Rethrow(t)
    PROVE  Signaled'
  <1>1. t \in Everyone /\ UNCHANGED <<waiting, items>>
    BY DEF Everyone, Lock, Unlock, Swap, Resume, Rethrow, Throw
  <1>2. PICK p : /\ Goto(t, p)
                 /\ \/ p \in {"locked", "relock"}
                    \/ p \in {"swap", "catch", "parked"} /\ pc[t] \in {"pushed", "swap", "parked"}
                    \/ pc[t] = "pass"
    BY DEF Lock, Unlock, Swap, Resume, Rethrow, Throw
  <1>3. pc'[t] = p /\ Pending \ {t} \subseteq Pending'
    BY <1>1, <1>2, PendingOthers
  <1>4. t \in Pending => t \in Pending'
    BY <1>1, <1>2, <1>3 DEF Pending, RendezUse
  <1> QED BY <1>1, <1>3, <1>4, SignaledMove

\* pred() holds and the waiter takes an item, or it joins the list: there is none.
LEMMA SignaledLooks ==
    ASSUME Core, RendezUse, Signaled, NEW t \in Waiters, Take(t) \/ Push(t)
    PROVE  Signaled'
  <1>1. CASE Take(t)
    <2>1. t \in Everyone /\ UNCHANGED waiting /\ Goto(t, "idle") /\ items' = items - 1
      BY <1>1 DEF Everyone, Take
    <2>2. Pending \ {t} \subseteq Pending'
      BY <2>1, PendingOthers
    <2>3. t \in Pending
      BY <1>1 DEF Take, Pending
    <2> QED BY <2>1, <2>2, <2>3, SignaledMove
  <1>2. CASE Push(t)
    <2>1. Pending' \in SUBSET Everyone /\ IsFiniteSet(Everyone)
      BY DEF Pending, Everyone, RendezUse
    <2>2. Cardinality(Pending') \in Nat
      BY <2>1, FS_Subset, FS_CardinalityType
    <2> QED BY <1>2, <2>2, SMTT(30) DEF Push, Signaled
  <1> QED BY <1>1, <1>2

\* A signaler adds an item, and will call wakeup(); or it returns from there.
LEMMA SignaledSignaler ==
    ASSUME Core, RendezUse, Signaled, NEW t \in Signalers, Put(t) \/ WakeupReturns(t)
    PROVE  Signaled'
  <1>1. t \in Everyone /\ t \notin Waiters /\ UNCHANGED waiting /\ pc[t] \in {"idle", "woke"}
    BY DEF Everyone, RendezUse, Put, WakeupReturns
  <1>2. t \notin Pending
    BY <1>1 DEF Pending
  <1>3. CASE Put(t)
    <2>1. pc'[t] = "signal" /\ Pending \ {t} \subseteq Pending'
      BY <1>1, <1>3, PendingOthers DEF Put
    <2>2. t \in Pending'
      BY <2>1 DEF Pending
    <2> QED BY <1>1, <1>2, <1>3, <2>1, <2>2, SignaledMove DEF Put
  <1>4. CASE WakeupReturns(t)
    <2>1. Pending \ {t} \subseteq Pending'
      BY <1>1, <1>4, PendingOthers DEF WakeupReturns
    <2> QED BY <1>1, <1>2, <1>4, <2>1, SignaledMove DEF WakeupReturns
  <1> QED BY <1>3, <1>4

\* The first task of the list leaves it for the task that takes it, which was pending:
\* wakeup(), and sleep() when it passes a wake-up on.
LEMMA SignaledPop ==
    ASSUME Core, RendezUse, Signaled, NEW t \in Pending, NEW p, Goto(t, p), t \notin Range(waiting),
           UNCHANGED items,
           (waiting = <<>> /\ UNCHANGED waiting) \/ (waiting # <<>> /\ waiting' = Tail(waiting))
    PROVE  Signaled'
  <1>1. CASE waiting = <<>> /\ UNCHANGED waiting
    BY <1>1 DEF Signaled
  <1>2. CASE waiting # <<>> /\ waiting' = Tail(waiting)
    <2>1. PICK h : h = Head(waiting)
      OBVIOUS
    <2>2. h \in Range(waiting) /\ Range(waiting') = Range(waiting) \ {h}
      BY <1>2, <2>1, PopOne
    <2>3. h \in Waiters /\ h # t /\ pc[h] \in {"pushed", "swap", "parked", "catch"}
          /\ h \notin Signalers
      BY <2>2, CoreAt DEF Core, WaitsOnce, InSleep, RendezUse
    <2>4. \A u \in Everyone \ {t} : pc'[u] = pc[u]
      BY DEF Goto, Core, RendezTypes
    <2>5. h \in Pending' \ Pending
      BY <2>2, <2>3, <2>4 DEF Pending, Everyone
    <2>6. Pending \ {t} \subseteq Pending'
      BY <2>2, <2>4 DEF Pending, Everyone
    <2> QED BY <1>2, <2>5, <2>6, SignaledMove
  <1> QED BY <1>1, <1>2

\* The steps that take tasks from the list.
LEMMA SignaledPass ==
    ASSUME Core, RendezUse, Signaled, NEW t \in Everyone,
           (t \in Waiters /\ Catch(t)) \/ (t \in Signalers /\ (Wakeup(t) \/ Wakeupall(t)))
    PROVE  Signaled'
  <1>1. CASE t \in Waiters /\ Catch(t) /\ t \in Range(waiting)
    <2>1. waiting' = Without(waiting, t) /\ Goto(t, "pass") /\ UNCHANGED items
      BY <1>1 DEF Catch
    <2>2. Range(waiting') = Range(waiting) \ {t} /\ waiting # <<>>
      BY <1>1, <2>1, WithoutLemma, EmptyLemma DEF Core, RendezTypes, WaitsOnce
    <2>3. Pending \ {t} \subseteq Pending'
      BY <2>1, <2>2, PendingOthers
    <2>4. t \notin Pending
      BY <1>1 DEF Pending, RendezUse, Catch
    <2> QED BY <2>1, <2>2, <2>3, <2>4, SignaledMove
  <1>2. CASE t \in Waiters /\ Catch(t) /\ t \notin Range(waiting)
    <2>1. t \in Pending
      BY <1>2 DEF Pending, Catch
    <2> QED BY <1>2, <2>1, SignaledPop DEF Catch
  <1>3. CASE t \in Signalers /\ Wakeup(t)
    <2>1. t \in Pending
      BY <1>3 DEF Pending, Wakeup
    <2>2. t \notin Range(waiting)
      BY <1>3, CoreAt DEF RendezUse
    <2> QED BY <1>3, <2>1, <2>2, SignaledPop DEF Wakeup
  <1>4. CASE Wakeupall(t)
    BY <1>4 DEF Wakeupall, Signaled
  <1> QED BY <1>1, <1>2, <1>3, <1>4

\* Every step keeps a pending task for every item.
LEMMA SignaledStep ==
    ASSUME Core, RendezUse, Signaled, [Next]_vars
    PROVE  Signaled'
  <1>1. ASSUME UNCHANGED <<items, waiting, pc>> PROVE Signaled'
    BY <1>1 DEF Signaled, Pending
  <1>2. CASE \/ UNCHANGED vars \/ \E t \in Everyone : Ready(t)
             \/ \E t \in Canceled : Cancel(t)
             \/ \E t \in Deadlined : Deadline(t)
    <2>1. UNCHANGED <<items, waiting, pc>>
      BY <1>2 DEF vars, Ready, Cancel, Deadline
    <2> QED BY <1>1, <2>1
  <1>3. ASSUME NEW t \in Waiters, Lock(t) \/ WaiterStep(t) PROVE Signaled'
    BY <1>3, SignaledWaiter, SignaledLooks, SignaledPass DEF WaiterStep, Everyone
  <1>4. ASSUME NEW t \in Signalers, Put(t) \/ SignalerStep(t) PROVE Signaled'
    BY <1>4, SignaledSignaler, SignaledPass DEF SignalerStep, Everyone
  <1> QED BY <1>2, <1>3, <1>4 DEF Next

\* When nobody runs, nobody is pending: a parked task without a token is in the list.
LEMMA QuietRendez ==
    ASSUME Core, RendezUse, Signaled
    PROVE  RendezNoLostSignal
  <1>1. SUFFICES ASSUME \A t \in Signalers : pc[t] = "idle",
                        \A t \in Waiters : pc[t] \in {"idle", "gone"} \/ (pc[t] = "parked" /\ ~token[t]),
                        NEW x \in Waiters, pc[x] = "parked"
                 PROVE  items = 0
    BY DEF RendezNoLostSignal
  <1>2. \A u \in Everyone : Owed(u) = {}
    BY <1>1, CoreAt DEF Everyone
  <1>3. \A t \in Waiters : pc[t] = "parked" => t \in Range(waiting)
    BY <1>1, <1>2, CoreAt DEF SleepOK, IsOwed
  <1>4. Pending = {}
    BY <1>1, <1>3 DEF Pending
  <1>5. Cardinality(Pending) = 0
    BY <1>4, FS_EmptySet
  <1>6. waiting # <<>>
    BY <1>1, <1>3, EmptyLemma
  <1> QED BY <1>5, <1>6, SMTT(30) DEF Signaled, Core, RendezTypes

\* No signal is lost: when a task that sleep() has put to sleep waits and nobody runs,
\* the predicate it waits for does not hold. Wakeups race with cancels and deadlines:
\* a task that was woken and throws passes the wake-up on.
THEOREM RendezSafety == ASSUME RendezUse PROVE Spec => []RendezNoLostSignal
  <1>1. Init => Core /\ Signaled
    <2>1. Init => Signaled
      BY DEF Init, Signaled
    <2> QED BY <2>1, InitCore
  <1>2. Core /\ Signaled /\ [Next]_vars => (Core /\ Signaled)'
    BY CoreStep, SignaledStep
  <1>3. Core /\ Signaled => RendezNoLostSignal
    BY QuietRendez
  <1> QED BY <1>1, <1>2, <1>3, PTL DEF Spec

\* A task is in the list of a rendez once, and only while it is in sleep(): the
\* DCHECK of sleep() never fires, and wakeup() takes no task that is elsewhere.
THEOREM RendezList == ASSUME RendezUse PROVE Spec => []WaitsOnce
  <1>1. Init => Core
    BY InitCore
  <1>2. Core /\ [Next]_vars => Core'
    BY CoreStep
  <1>3. Core => WaitsOnce
    BY DEF Core
  <1> QED BY <1>1, <1>2, <1>3, PTL DEF Spec
=============================================================================
