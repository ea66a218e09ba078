------------------------------ MODULE PoolProof ------------------------------
(***************************************************************************)
(* The theorems about SharedPool, for any number of tasks and resources    *)
(* and any limit: a resource has one owner, and nobody waits in vain.  The *)
(* second part shows the same of HttpPool, whose worker takes clients out  *)
(* of the pool and puts new ones in, and the last one that each stack of   *)
(* StackAlloc has one owner.                                               *)
(***************************************************************************)
EXTENDS HttpPool, QueueTheorems, FiniteSetTheorems

\* Zenon is the quickest here; the leaves that it does not find cite SMT.
USE ZenonT(60)

Places == {"idle", "creating", "insert", "parked", "relock", "using", "asleep"}

\* What acquire() and the destructor of scoped_resource do to the resources. A task
\* holds one from new_resource() or the pop to the end of its use.
AccountTypes ==
    /\ avail \in Seq(Resources) /\ set \subseteq Resources
    /\ held \in [Tasks -> Resources \cup {None}]
    /\ pc \in [Tasks -> Places]

Lent == \A t \in Tasks : held[t] # None <=> pc[t] \in {"insert", "using"}

\* What the pool counts is free or in use.
Counted == \A r \in set : \/ r \in Range(avail)
                          \/ \E t \in Tasks : pc[t] = "using" /\ held[t] = r

Accounts == AccountTypes /\ Lent /\ PoolAccounts /\ Counted
-----------------------------------------------------------------------------
\* The list of not_empty. A task that was not canceled has its token exactly when
\* somebody took it off the list.
WaitTypes ==
    /\ waiting \in Seq(Tasks)
    /\ token \in [Tasks -> BOOLEAN] /\ canceled \in [Tasks -> BOOLEAN]

Listed == IsInjective(waiting) /\ \A t \in Range(waiting) : pc[t] = "parked"

Woken(t) ==
    ~canceled[t] => /\ token[t] => pc[t] = "parked" /\ t \notin Range(waiting)
                    /\ pc[t] = "parked" => t \in Range(waiting) \/ token[t]

\* While a task waits, another has a resource, is about to have one, or was woken
\* and will take one or pass the offer on.
Busy(t) == \/ pc[t] \in {"creating", "insert", "using", "relock"}
           \/ pc[t] = "parked" /\ t \notin Range(waiting)

Offered(S) == waiting # <<>> => \E t \in S : Busy(t)

\* S: the tasks that use resources.
Waiters(S) ==
    /\ \A t \in Tasks : pc[t] \in {"using", "parked"} => t \in S
    /\ WaitTypes /\ Listed /\ (\A t \in Tasks : Woken(t)) /\ Offered(S)
-----------------------------------------------------------------------------
(* The resources. *)

\* A step of a task that holds nothing, before and after, and leaves the pool alone.
LEMMA AccountsKept ==
    ASSUME Accounts, UNCHANGED <<avail, set, held>>, pc' \in [Tasks -> Places],
           \A t \in Tasks : \/ pc'[t] = pc[t]
                            \/ pc[t] \notin {"insert", "using"} /\ pc'[t] \notin {"insert", "using"}
    PROVE  Accounts'
  <1>1. AccountTypes' /\ PoolAccounts'
    BY DEF Accounts, AccountTypes, PoolAccounts
  <1>2. Lent'
    BY DEF Accounts, Lent
  <1>3. Counted'
    BY DEF Accounts, Counted
  <1> QED BY <1>1, <1>2, <1>3 DEF Accounts

\* acquire() takes the first resource of the queue.
LEMMA AccountsPop ==
    ASSUME Accounts, None \notin Resources, NEW t \in Tasks, pc[t] \in {"idle", "relock"},
           AcquirePops(t)
    PROVE  Accounts'
  <1> DEFINE r == Head(avail)
  <1>t. AccountTypes /\ Lent /\ PoolAccounts /\ Counted
    BY DEF Accounts
  <1>1. /\ r \in Resources /\ Tail(avail) \in Seq(Resources) /\ r \in Range(avail)
        /\ IsInjective(Tail(avail)) /\ Range(Tail(avail)) = Range(avail) \ {r}
    BY <1>t, TailLemma DEF AcquirePops, AccountTypes, PoolAccounts
  <1> HIDE DEF r
  <1>2. /\ avail' = Tail(avail) /\ set' = set /\ held' = [held EXCEPT ![t] = r]
        /\ pc' = [pc EXCEPT ![t] = "using"]
    BY DEF AcquirePops, Goto, r
  <1>3. /\ held'[t] = r /\ pc'[t] = "using"
        /\ \A u \in Tasks \ {t} : held'[u] = held[u] /\ pc'[u] = pc[u]
    BY <1>t, <1>2 DEF AccountTypes
  <1>4. AccountTypes'
    BY <1>t, <1>1, <1>2 DEF AccountTypes, Places
  <1>5. Lent'
    BY <1>t, <1>1, <1>3 DEF Lent
  <1>6. PoolAccounts'
    BY <1>t, <1>1, <1>2, <1>3, SMTT(30) DEF PoolAccounts
  <1>7. Counted'
    BY <1>t, <1>1, <1>2, <1>3, SMTT(30) DEF Counted, Lent
  <1> QED BY <1>4, <1>5, <1>6, <1>7 DEF Accounts

\* new_resource() returns a resource that nobody has.
LEMMA AccountsCreate ==
    ASSUME Accounts, None \notin Resources, NEW t \in Tasks, Create(t)
    PROVE  Accounts'
  <1>t. AccountTypes /\ Lent /\ PoolAccounts /\ Counted
    BY DEF Accounts
  <1>1. PICK r \in Resources \ InUse : held' = [held EXCEPT ![t] = r]
    BY DEF Create
  <1>2. /\ r \in Resources /\ r # None /\ r \notin set /\ r \notin Range(avail)
        /\ \A u \in Tasks : held[u] # r
    BY <1>1 DEF InUse
  <1>3. /\ held'[t] = r /\ pc[t] = "creating" /\ pc'[t] = "insert"
        /\ \A u \in Tasks \ {t} : held'[u] = held[u] /\ pc'[u] = pc[u]
        /\ UNCHANGED <<avail, set>>
    BY <1>t, <1>1 DEF AccountTypes, Create, Goto
  <1>4. AccountTypes'
    BY <1>t, <1>1, <1>2 DEF AccountTypes, Places, Create, Goto
  <1>5. Lent'
    BY <1>t, <1>2, <1>3 DEF Lent
  <1>6. PoolAccounts'
    BY <1>t, <1>2, <1>3 DEF PoolAccounts
  <1>7. Counted'
    BY <1>t, <1>2, <1>3, SMTT(30) DEF Counted
  <1> QED BY <1>4, <1>5, <1>6, <1>7 DEF Accounts

\* The new resource enters set.
LEMMA AccountsInsert ==
    ASSUME Accounts, NEW t \in Tasks, Insert(t)
    PROVE  Accounts'
  <1>t. AccountTypes /\ Lent /\ PoolAccounts /\ Counted
    BY DEF Accounts
  <1>1. /\ pc[t] = "insert" /\ pc'[t] = "using" /\ set' = set \cup {held[t]}
        /\ \A u \in Tasks \ {t} : pc'[u] = pc[u]
        /\ UNCHANGED <<avail, held>>
    BY <1>t DEF AccountTypes, Insert, Goto
  <1>2. held[t] \in Resources
    BY <1>t, <1>1 DEF AccountTypes, Lent
  <1>3. AccountTypes'
    BY <1>t, <1>1, <1>2 DEF AccountTypes, Places, Insert, Goto
  <1>4. Lent'
    BY <1>t, <1>1 DEF Lent
  <1>5. PoolAccounts'
    BY <1>t, <1>1 DEF PoolAccounts
  <1>6. Counted'
    BY <1>t, <1>1, SMTT(30) DEF Counted
  <1> QED BY <1>3, <1>4, <1>5, <1>6 DEF Accounts

\* The resource goes back to the front of the queue when the pool still counts it and
\* is dropped otherwise.
LEMMA AccountsDiscard ==
    ASSUME Accounts, None \notin Resources, NEW t \in Tasks, NEW can_keep \in BOOLEAN,
           Discard(t, can_keep)
    PROVE  Accounts'
  <1> DEFINE r == held[t]
             keep == can_keep /\ r \in set
  <1>t. AccountTypes /\ Lent /\ PoolAccounts /\ Counted
    BY DEF Accounts
  <1>1. pc[t] = "using" /\ r \in Resources /\ r # None /\ r \notin Range(avail)
    BY <1>t DEF Discard, AccountTypes, Lent, PoolAccounts
  <1>2. /\ set' = IF can_keep THEN set ELSE set \ {r}
        /\ avail' = IF keep THEN PushFront(avail, r) ELSE avail
        /\ held' = [held EXCEPT ![t] = None] /\ pc' = [pc EXCEPT ![t] = "idle"]
    BY <1>1 DEF Discard, Goto, Erase
  <1> HIDE DEF r
  <1>3. /\ PushFront(avail, r) \in Seq(Resources)
        /\ Range(PushFront(avail, r)) = Range(avail) \cup {r}
        /\ IsInjective(PushFront(avail, r))
    BY <1>t, <1>1, PushFrontLemma DEF AccountTypes, PoolAccounts
  <1>4. /\ held'[t] = None /\ pc'[t] = "idle"
        /\ \A u \in Tasks \ {t} : held'[u] = held[u] /\ pc'[u] = pc[u]
    BY <1>t, <1>2 DEF AccountTypes
  <1>5. \A u \in Tasks \ {t} : held[u] # r
    BY <1>t, <1>1 DEF PoolAccounts, r
  <1>6. AccountTypes'
    BY <1>t, <1>2, <1>3 DEF AccountTypes, Places
  <1>7. Lent'
    BY <1>t, <1>4 DEF Lent
  <1>8. PoolAccounts'
    <2>1. Range(avail) \subseteq Resources
      BY <1>t, RangeLemma DEF AccountTypes
    <2>2. IsInjective(avail') /\ Range(avail') \subseteq set'
      BY <1>t, <1>1, <1>2, <1>3 DEF PoolAccounts
    <2>3. \A u \in Tasks : held'[u] \notin Range(avail')
      BY <1>t, <1>1, <1>2, <1>3, <1>4, <1>5, <2>1, SMTT(30) DEF PoolAccounts
    <2>4. \A u, v \in Tasks : held'[u] # None /\ held'[u] = held'[v] => u = v
      BY <1>t, <1>4 DEF PoolAccounts
    <2> QED BY <2>2, <2>3, <2>4 DEF PoolAccounts
  <1>9. Counted'
    <2> SUFFICES ASSUME NEW s \in set', s \notin Range(avail')
                 PROVE  \E u \in Tasks : pc'[u] = "using" /\ held'[u] = s
      BY DEF Counted
    <2>1. s \in set /\ s # r /\ s \notin Range(avail)
      BY <1>2, <1>3
    <2>2. PICK u \in Tasks : pc[u] = "using" /\ held[u] = s
      BY <1>t, <2>1 DEF Counted
    <2> QED BY <1>4, <2>1, <2>2 DEF r
  <1> QED BY <1>6, <1>7, <1>8, <1>9 DEF Accounts

\* Every step keeps the accounts.
LEMMA AccountsStep ==
    ASSUME Accounts, None \notin Resources, Cancelable \subseteq Tasks, [Next]_vars
    PROVE  Accounts'
  <1>t. AccountTypes
    BY DEF Accounts
  <1>1. CASE UNCHANGED vars
    BY <1>1, <1>t, AccountsKept DEF vars, AccountTypes
  <1>2. ASSUME NEW t \in Tasks, NEW p \in Places \ {"insert", "using"}, Goto(t, p),
               pc[t] \notin {"insert", "using"}, UNCHANGED <<avail, set, held>>
        PROVE  Accounts'
    <2>1. /\ pc' \in [Tasks -> Places] /\ pc'[t] = p
          /\ \A u \in Tasks \ {t} : pc'[u] = pc[u]
      BY <1>t, <1>2 DEF AccountTypes, Goto
    <2> QED BY <1>2, <2>1, AccountsKept
  <1>3. {"creating", "parked", "idle", "relock"} \subseteq Places \ {"insert", "using"}
    BY DEF Places
  <1>4. ASSUME NEW t \in Tasks, Acquire(t) PROVE Accounts'
    <2>1. CASE AcquirePops(t)
      BY <1>4, <2>1, AccountsPop DEF Acquire
    <2>2. CASE AcquireCreates(t)
      BY <1>2, <1>3, <1>4, <2>2 DEF Acquire, AcquireCreates
    <2>3. CASE AcquireSleeps(t)
      BY <1>2, <1>3, <1>4, <2>3 DEF Acquire, AcquireSleeps
    <2> QED BY <1>4, <2>1, <2>2, <2>3 DEF Acquire
  <1>5. ASSUME NEW t \in Tasks, CreateFails(t) PROVE Accounts'
    BY <1>2, <1>3, <1>5 DEF CreateFails
  <1>6. ASSUME NEW t \in Tasks, Resume(t) PROVE Accounts'
    BY <1>2, <1>3, <1>6 DEF Resume
  <1>7. ASSUME NEW t \in Tasks, Throw(t) PROVE Accounts'
    BY <1>2, <1>3, <1>7 DEF Throw
  <1>8. ASSUME NEW t \in Cancelable, Cancel(t) PROVE Accounts'
    BY <1>8, <1>t, AccountsKept DEF Cancel, AccountTypes
  <1>9. CASE Clear
    <2>1. /\ <<>> \in Seq(Resources) /\ Range(<<>>) = {} /\ IsInjective(<<>>)
      BY EmptyLemma
    <2>2. AccountTypes' /\ Lent'
      BY <1>9, <2>1 DEF Clear, Accounts, AccountTypes, Lent
    <2>3. PoolAccounts' /\ Counted'
      BY <1>9, <2>1 DEF Clear, Accounts, PoolAccounts, Counted
    <2> QED BY <2>2, <2>3 DEF Accounts
  <1> QED BY <1>1, <1>4, <1>5, <1>6, <1>7, <1>8, <1>9,
             AccountsCreate, AccountsInsert, AccountsDiscard DEF Next

\* In the beginning all resources are accounted for and nobody waits.
LEMMA InitPool ==
    ASSUME Init, None \notin Resources
    PROVE  Accounts /\ \A S \in SUBSET Tasks : Waiters(S)
  <1>1. /\ <<>> \in Seq(Resources) /\ <<>> \in Seq(Tasks)
        /\ Range(<<>>) = {} /\ IsInjective(<<>>)
    BY EmptyLemma
  <1>2. AccountTypes /\ Lent
    BY <1>1 DEF Init, AccountTypes, Lent, Places
  <1>3. PoolAccounts /\ Counted
    BY <1>1 DEF Init, PoolAccounts, Counted
  <1>4. WaitTypes /\ Listed /\ waiting = <<>>
    BY <1>1 DEF Init, WaitTypes, Listed
  <1>5. \A t \in Tasks : Woken(t) /\ pc[t] = "idle"
    BY DEF Init, Woken
  <1> QED BY <1>2, <1>3, <1>4, <1>5 DEF Accounts, Waiters, Offered

\* shared_pool lends each resource to one task at a time, keeps no resource twice,
\* and never lends again what clear() or destroy() dropped.
THEOREM PoolSafety ==
    ASSUME None \notin Resources, Cancelable \subseteq Tasks
    PROVE  Spec => []PoolAccounts
  <1>1. Init => Accounts
    BY InitPool
  <1>2. Accounts /\ [Next]_vars => Accounts'
    BY AccountsStep
  <1>3. Accounts => PoolAccounts
    BY DEF Accounts
  <1> QED BY <1>1, <1>2, <1>3, PTL DEF Spec
-----------------------------------------------------------------------------
(* The waiters. *)

\* A task that was not asleep takes a resource or goes on to get one.
LEMMA WaitsBusy ==
    ASSUME Accounts, NEW S \in SUBSET Tasks, Waiters(S), NEW t \in S, pc[t] # "parked",
           NEW p \in {"creating", "insert", "using"}, Goto(t, p),
           UNCHANGED <<waiting, token, canceled>>
    PROVE  Waiters(S)'
  <1>1. /\ pc'[t] = p /\ \A u \in Tasks \ {t} : pc'[u] = pc[u]
        /\ Range(waiting) \subseteq Tasks
    BY RangeLemma DEF Accounts, AccountTypes, Goto, Waiters, WaitTypes
  <1>2. WaitTypes' /\ Listed'
    BY <1>1 DEF Waiters, WaitTypes, Listed
  <1>3. \A u \in Tasks : Woken(u)'
    BY <1>1 DEF Waiters, Woken
  <1>4. Offered(S)'
    BY <1>1 DEF Offered, Busy
  <1> QED BY <1>1, <1>2, <1>3, <1>4 DEF Waiters

\* A task sleeps only when the pool is full and nothing is free: another task uses
\* what the pool counts.
LEMMA WaitsSleep ==
    ASSUME Accounts, NEW S \in SUBSET Tasks, Waiters(S), Max \in Nat \ {0},
           NEW t \in S, pc[t] \in {"idle", "relock"}, AcquireSleeps(t)
    PROVE  Waiters(S)'
  <1>1. /\ pc'[t] = "parked" /\ \A u \in Tasks \ {t} : pc'[u] = pc[u]
        /\ Range(waiting) \subseteq Tasks
    BY RangeLemma DEF Accounts, AccountTypes, AcquireSleeps, Goto, Waiters, WaitTypes
  <1>2. /\ waiting' = Append(waiting, t) /\ UNCHANGED <<token, canceled>>
        /\ t \notin Range(waiting)
    BY DEF AcquireSleeps, Waiters, Listed
  <1>3. /\ waiting' \in Seq(Tasks) /\ Range(waiting') = Range(waiting) \cup {t}
        /\ IsInjective(waiting')
    BY <1>2, AppendLemma, SMTT(30) DEF Waiters, WaitTypes, Listed
  <1>4. WaitTypes' /\ Listed'
    BY <1>1, <1>2, <1>3 DEF Waiters, WaitTypes, Listed
  <1>5. \A u \in Tasks : Woken(u)'
    BY <1>1, <1>2, <1>3 DEF Waiters, Woken
  <1>6. PICK r : r \in set
    <2>1. Cardinality({}) = 0
      BY FS_EmptySet
    <2>2. Cardinality(set) >= Max
      BY DEF AcquireSleeps
    <2>3. set # {}
      BY <2>1, <2>2, SMTT(30)
    <2> QED BY <2>3
  <1>7. PICK u \in S : pc[u] = "using"
    <2>1. r \notin Range(avail)
      BY EmptyLemma DEF AcquireSleeps
    <2> QED BY <1>6, <2>1 DEF Accounts, Counted, Waiters
  <1>8. Offered(S)'
    BY <1>1, <1>7 DEF Offered, Busy
  <1> QED BY <1>1, <1>4, <1>5, <1>8 DEF Waiters

\* A task that leaves the pool wakes the first waiter.
LEMMA WaitsOffer ==
    ASSUME Accounts, NEW S \in SUBSET Tasks, Waiters(S), NEW t \in S, t \notin Range(waiting),
           ~canceled[t] => ~token[t], Wakeup, Goto(t, "idle"), UNCHANGED canceled
    PROVE  Waiters(S)'
  <1>1. /\ pc'[t] = "idle" /\ \A u \in Tasks \ {t} : pc'[u] = pc[u]
        /\ Range(waiting) \subseteq Tasks
    BY RangeLemma DEF Accounts, AccountTypes, Goto, Waiters, WaitTypes
  <1>2. CASE waiting = <<>>
    <2>1. UNCHANGED <<waiting, token>>
      BY <1>2 DEF Wakeup
    <2>2. WaitTypes' /\ Listed' /\ Offered(S)'
      BY <1>1, <1>2, <2>1 DEF Waiters, WaitTypes, Listed, Offered
    <2>3. \A u \in Tasks : Woken(u)'
      BY <1>1, <2>1 DEF Waiters, Woken
    <2> QED BY <1>1, <2>2, <2>3 DEF Waiters
  <1>3. CASE waiting # <<>>
    <2> DEFINE h == Head(waiting)
    <2>1. /\ h \in Tasks /\ h \in Range(waiting) /\ Tail(waiting) \in Seq(Tasks)
          /\ IsInjective(Tail(waiting)) /\ Range(Tail(waiting)) = Range(waiting) \ {h}
      BY <1>3, TailLemma DEF Waiters, WaitTypes, Listed
    <2>2. waiting' = Tail(waiting) /\ token' = [token EXCEPT ![h] = TRUE]
      BY <1>3 DEF Wakeup
    <2> HIDE DEF h
    <2>3. pc[h] = "parked" /\ pc'[h] = "parked" /\ h # t
      BY <1>1, <2>1 DEF Waiters, Listed
    <2>4. /\ token'[h] /\ token' \in [Tasks -> BOOLEAN]
          /\ \A u \in Tasks \ {h} : token'[u] = token[u]
      BY <2>1, <2>2 DEF Waiters, WaitTypes
    <2>5. WaitTypes'
      BY <2>1, <2>2, <2>4 DEF Waiters, WaitTypes
    <2>6. Listed'
      BY <1>1, <2>1, <2>2 DEF Waiters, Listed
    <2>7. \A u \in Tasks : Woken(u)'
      BY <1>1, <2>1, <2>2, <2>3, <2>4 DEF Waiters, Woken
    <2>8. Offered(S)'
      BY <2>1, <2>2, <2>3 DEF Waiters, Offered, Busy
    <2> QED BY <1>1, <2>5, <2>6, <2>7, <2>8 DEF Waiters
  <1> QED BY <1>2, <1>3

\* A woken task leaves rendez::sleep and takes the lock again.
LEMMA WaitsResume ==
    ASSUME Accounts, NEW S \in SUBSET Tasks, Waiters(S), NEW t \in S, Resume(t)
    PROVE  Waiters(S)'
  <1>1. /\ pc'[t] = "relock" /\ \A u \in Tasks \ {t} : pc'[u] = pc[u]
        /\ ~token'[t] /\ \A u \in Tasks \ {t} : token'[u] = token[u]
        /\ token' \in [Tasks -> BOOLEAN] /\ UNCHANGED <<waiting, canceled>>
        /\ Range(waiting) \subseteq Tasks
    BY RangeLemma DEF Accounts, AccountTypes, Resume, Goto, Waiters, WaitTypes
  <1>2. t \notin Range(waiting)
    BY DEF Resume, Waiters, Woken
  <1>3. WaitTypes' /\ Listed'
    BY <1>1, <1>2 DEF Waiters, WaitTypes, Listed
  <1>4. \A u \in Tasks : Woken(u)'
    BY <1>1 DEF Waiters, Woken
  <1>5. Offered(S)'
    BY <1>1 DEF Offered, Busy
  <1> QED BY <1>1, <1>3, <1>4, <1>5 DEF Waiters

\* A canceled task takes itself off the list, or passes the wake-up on.
LEMMA WaitsThrow ==
    ASSUME Accounts, NEW S \in SUBSET Tasks, Waiters(S), NEW t \in S, Throw(t)
    PROVE  Waiters(S)'
  <1>1. CASE t \notin Range(waiting)
    BY <1>1, WaitsOffer DEF Throw
  <1>2. CASE t \in Range(waiting)
    <2>1. /\ pc'[t] = "idle" /\ \A u \in Tasks \ {t} : pc'[u] = pc[u]
          /\ Range(waiting) \subseteq Tasks
      BY RangeLemma DEF Accounts, AccountTypes, Throw, Goto, Waiters, WaitTypes
    <2>2. waiting' = Without(waiting, t) /\ canceled[t] /\ UNCHANGED <<token, canceled>>
      BY <1>2 DEF Throw
    <2>3. /\ waiting' \in Seq(Tasks) /\ IsInjective(waiting')
          /\ Range(waiting') = Range(waiting) \ {t}
      BY <1>2, <2>2, WithoutLemma DEF Waiters, WaitTypes, Listed
    <2>4. WaitTypes' /\ Listed'
      BY <2>1, <2>2, <2>3 DEF Waiters, WaitTypes, Listed
    <2>5. \A u \in Tasks : Woken(u)'
      BY <2>1, <2>2, <2>3 DEF Waiters, Woken
    <2>6. PICK u \in S : Busy(u)
      <3>1. waiting # <<>>
        BY <1>2, EmptyLemma
      <3> QED BY <3>1 DEF Waiters, Offered
    <2>7. u # t
      BY <1>2, <2>6 DEF Busy, Throw
    <2>8. Offered(S)'
      BY <2>1, <2>3, <2>6, <2>7 DEF Offered, Busy
    <2> QED BY <2>1, <2>4, <2>5, <2>8 DEF Waiters
  <1> QED BY <1>1, <1>2

\* What the tasks of S, cancel and clear() do.
Uses(S) ==
    \/ \E t \in S : \/ Acquire(t) \/ Create(t) \/ Insert(t) \/ Resume(t) \/ Throw(t)
                   \/ \E can_keep \in BOOLEAN : Discard(t, can_keep)
    \/ \E t \in Cancelable : Cancel(t)
    \/ UNCHANGED <<waiting, pc, token, canceled>>

\* Every step keeps the order among the waiters, unless new_resource() throws.
LEMMA WaitsStep ==
    ASSUME Accounts, NEW S \in SUBSET Tasks, Waiters(S), Max \in Nat \ {0},
           Cancelable \subseteq Tasks, Uses(S)
    PROVE  Waiters(S)'
  <1>1. CASE UNCHANGED <<waiting, pc, token, canceled>>
    <2>1. WaitTypes' /\ Listed' /\ Offered(S)'
      BY <1>1 DEF Waiters, WaitTypes, Listed, Offered, Busy
    <2>2. \A u \in Tasks : Woken(u)'
      BY <1>1 DEF Waiters, Woken
    <2> QED BY <1>1, <2>1, <2>2 DEF Waiters
  <1>2. ASSUME NEW t \in S, Acquire(t) PROVE Waiters(S)'
    <2>1. CASE AcquirePops(t)
      BY <1>2, <2>1, WaitsBusy DEF Acquire, AcquirePops
    <2>2. CASE AcquireCreates(t)
      BY <1>2, <2>2, WaitsBusy DEF Acquire, AcquireCreates
    <2>3. CASE AcquireSleeps(t)
      BY <1>2, <2>3, WaitsSleep DEF Acquire
    <2> QED BY <1>2, <2>1, <2>2, <2>3 DEF Acquire
  <1>3. ASSUME NEW t \in S, Create(t) PROVE Waiters(S)'
    BY <1>3, WaitsBusy DEF Create
  <1>4. ASSUME NEW t \in S, Insert(t) PROVE Waiters(S)'
    BY <1>4, WaitsBusy DEF Insert
  <1>5. ASSUME NEW t \in S, NEW can_keep \in BOOLEAN, Discard(t, can_keep) PROVE Waiters(S)'
    <2>1. pc[t] = "using" /\ Wakeup /\ Goto(t, "idle") /\ UNCHANGED canceled
      BY <1>5 DEF Discard
    <2>2. t \notin Range(waiting) /\ (~canceled[t] => ~token[t])
      BY <2>1 DEF Waiters, Listed, Woken
    <2> QED BY <2>1, <2>2, WaitsOffer
  <1>6. ASSUME NEW t \in Cancelable, Cancel(t) PROVE Waiters(S)'
    <2>1. /\ t \in Tasks /\ canceled'[t] /\ \A u \in Tasks \ {t} : canceled'[u] = canceled[u]
          /\ \A u \in Tasks \ {t} : token'[u] = token[u]
          /\ token' \in [Tasks -> BOOLEAN] /\ canceled' \in [Tasks -> BOOLEAN]
          /\ UNCHANGED <<waiting, pc>>
      BY <1>6 DEF Cancel, Waiters, WaitTypes
    <2>2. WaitTypes' /\ Listed' /\ Offered(S)'
      BY <2>1 DEF Waiters, WaitTypes, Listed, Offered, Busy
    <2>3. \A u \in Tasks : Woken(u)'
      BY <2>1 DEF Waiters, Woken
    <2> QED BY <2>1, <2>2, <2>3 DEF Waiters
  <1> QED BY <1>1, <1>2, <1>3, <1>4, <1>5, <1>6, WaitsResume, WaitsThrow DEF Uses

\* When the tasks of S are quiet, none of them waits.
LEMMA QuietServed ==
    ASSUME NEW S \in SUBSET Tasks, Waiters(S),
           \A u \in S : pc[u] = "idle" \/ (pc[u] = "parked" /\ ~token[u] /\ ~canceled[u])
    PROVE  \A u \in S : pc[u] # "parked"
  <1> SUFFICES ASSUME NEW t \in S, pc[t] = "parked" PROVE FALSE
    OBVIOUS
  <1>1. \A u \in S : pc[u] = "parked" => u \in Range(waiting)
    BY DEF Waiters, Woken
  <1>2. waiting # <<>>
    BY <1>1, EmptyLemma
  <1> QED BY <1>1, <1>2 DEF Waiters, Offered, Busy

\* When all is quiet and nobody has a resource of the pool, nobody waits for one. It
\* takes a new_resource() that does not throw: new_with_lock() then leaves without a
\* wakeup().
THEOREM PoolServes ==
    ASSUME None \notin Resources, Cancelable \subseteq Tasks, Max \in Nat \ {0}, ~MayFail
    PROVE  Spec => []NobodyStuck
  <1>1. Init => Accounts /\ Waiters(Tasks)
    BY InitPool
  <1>2. Accounts /\ Waiters(Tasks) /\ [Next]_vars => Accounts' /\ Waiters(Tasks)'
    <2> SUFFICES ASSUME Accounts, Waiters(Tasks), [Next]_vars PROVE Accounts' /\ Waiters(Tasks)'
      OBVIOUS
    <2>1. Clear \/ UNCHANGED vars => UNCHANGED <<waiting, pc, token, canceled>>
      BY DEF Clear, vars
    <2>2. Uses(Tasks)
      BY <2>1 DEF Uses, Next, CreateFails
    <2> QED BY <2>2, AccountsStep, WaitsStep
  <1>3. Waiters(Tasks) => NobodyStuck
    BY QuietServed DEF NobodyStuck
  <1> QED BY <1>1, <1>2, <1>3, PTL DEF Spec
-----------------------------------------------------------------------------
(* HttpPool. *)

\* The worker of http_pool keeps the front of the queue.
LEMMA Greatest ==
    ASSUME NEW n \in Nat, NEW F \in SUBSET (1..n)
    PROVE  \E k \in F \cup {0} : \A i \in F : i <= k
  <1> DEFINE T == {m \in Nat : n - m \in F \cup {0}}
             R == OpToRel(<, Nat)
  <1>1. n \in T
    BY SMTT(30)
  <1>2. IsWellFoundedOn(R, Nat)
    BY NatLessThanWellFounded
  <1>3. \A x, y \in Nat : x < y => <<x, y>> \in R
    BY DEF OpToRel
  <1> HIDE DEF R
  <1>4. PICK m \in T : \A y \in T : <<y, m>> \notin R
    <2>1. T \subseteq Nat /\ T # {}
      BY <1>1
    <2> HIDE DEF T
    <2> QED BY <1>2, <2>1, WFMin
  <1>5. n - m \in F \cup {0} /\ m \in Nat
    OBVIOUS
  <1>6. ASSUME NEW i \in F PROVE i <= n - m
    <2>1. n - i \in T
      BY SMTT(30)
    <2>2. ~(n - i < m)
      BY <1>3, <1>4, <2>1
    <2> QED BY <1>5, <2>2, SMTT(30)
  <1> QED BY <1>5, <1>6

\* What the sweep keeps is a front part of the queue of idle clients.
LEMMA KeptLemma ==
    ASSUME NEW S, NEW q \in Seq(S)
    PROVE  \E n \in 0..Len(q) : Kept(q) = SubSeq(q, 1, n)
  <1> DEFINE fresh == {i \in DOMAIN q : ~retire_by(q[i])}
             n == CHOOSE k \in fresh \cup {0} : \A i \in fresh : i <= k
  <1>1. Len(q) \in Nat /\ fresh \in SUBSET (1..Len(q))
    BY SeqLength
  <1>2. Kept(q) = SubSeq(q, 1, n)
    BY DEF Kept
  <1> HIDE DEF fresh
  <1>3. n \in fresh \cup {0}
    BY <1>1, Greatest
  <1> HIDE DEF n
  <1> QED BY <1>1, <1>2, <1>3, SMTT(30)

\* What SubSeq returns, position by position.
LEMMA SubSeqLemma ==
    ASSUME NEW S, NEW q \in Seq(S), NEW a \in 1..(Len(q) + 1), NEW b \in 0..Len(q), a <= b + 1
    PROVE  /\ SubSeq(q, a, b) \in Seq(S) /\ Len(SubSeq(q, a, b)) = b - a + 1
           /\ \A i \in 1..(b - a + 1) : SubSeq(q, a, b)[i] = q[a + i - 1]
  BY SMTT(30)

\* A queue cut in two: the parts share nothing.
LEMMA CutLemma ==
    ASSUME NEW S, NEW q \in Seq(S), IsInjective(q), NEW n \in 0..Len(q)
    PROVE  LET a == SubSeq(q, 1, n)
               b == SubSeq(q, n + 1, Len(q))
           IN  /\ a \in Seq(S) /\ IsInjective(a) /\ b \in Seq(S) /\ IsInjective(b)
               /\ Range(a) = {q[i] : i \in 1..n} /\ Range(a) \subseteq Range(q)
               /\ Range(b) = Range(q) \ Range(a)
  <1> DEFINE a == SubSeq(q, 1, n)
             b == SubSeq(q, n + 1, Len(q))
  <1>1. Len(q) \in Nat /\ n \in Nat /\ n <= Len(q) /\ DOMAIN q = 1..Len(q)
    BY SeqLength, SMTT(30)
  <1>2. /\ a \in Seq(S) /\ DOMAIN a = 1..n
        /\ \A i \in 1..n : a[i] = q[i]
    <2>1. /\ a \in Seq(S) /\ Len(a) = n - 1 + 1
          /\ \A i \in 1..(n - 1 + 1) : a[i] = q[1 + i - 1]
      BY <1>1, SubSeqLemma, SMTT(30)
    <2> HIDE DEF a
    <2>2. n - 1 + 1 = n /\ \A i \in 1..n : 1 + i - 1 = i
      BY <1>1, SMTT(30)
    <2> QED BY <1>1, <2>1, <2>2, SeqLength
  <1>3. /\ b \in Seq(S) /\ DOMAIN b = 1..(Len(q) - n)
        /\ \A i \in 1..(Len(q) - n) : b[i] = q[n + i]
    <2>1. /\ b \in Seq(S) /\ Len(b) = Len(q) - (n + 1) + 1
          /\ \A i \in 1..(Len(q) - (n + 1) + 1) : b[i] = q[n + 1 + i - 1]
      <3>1. n + 1 \in 1..(Len(q) + 1) /\ Len(q) \in 0..Len(q) /\ n + 1 <= Len(q) + 1
        BY <1>1, SMTT(30)
      <3> QED BY <3>1, SubSeqLemma
    <2> HIDE DEF b
    <2>2. /\ Len(q) - (n + 1) + 1 = Len(q) - n
          /\ \A i \in 1..(Len(q) - n) : n + 1 + i - 1 = n + i
      BY <1>1, SMTT(30)
    <2> QED BY <1>1, <2>1, <2>2, SeqLength
  <1> HIDE DEF a, b
  <1>4. \A i, j \in 1..Len(q) : q[i] = q[j] => i = j
    BY <1>1 DEF IsInjective
  <1>5. IsInjective(a)
    BY <1>1, <1>2, <1>4, SMTT(30) DEF IsInjective
  <1>6. IsInjective(b)
    <2> SUFFICES ASSUME NEW i \in 1..(Len(q) - n), NEW j \in 1..(Len(q) - n), b[i] = b[j]
                 PROVE  i = j
      BY <1>3 DEF IsInjective
    <2>1. n + i \in 1..Len(q) /\ n + j \in 1..Len(q)
      BY <1>1, SMTT(30)
    <2>2. n + i = n + j
      BY <1>3, <1>4, <2>1
    <2> QED BY <1>1, <2>2, SMTT(30)
  <1>7. Range(a) = {q[i] : i \in 1..n}
    BY <1>2 DEF Range
  <1>8. Range(a) \subseteq Range(q)
    BY <1>1, <1>7, SMTT(30) DEF Range
  <1>9. Range(b) = Range(q) \ Range(a)
    <2>1. ASSUME NEW x \in Range(b) PROVE x \in Range(q) \ Range(a)
      <3>1. PICK i \in 1..(Len(q) - n) : x = q[n + i]
        BY <1>3 DEF Range
      <3>2. n + i \in 1..Len(q) /\ n + i \notin 1..n
        BY <1>1, SMTT(30)
      <3>3. x \in Range(q)
        BY <1>1, <3>1, <3>2 DEF Range
      <3>4. ASSUME x \in Range(a) PROVE FALSE
        <4>1. PICK j \in 1..n : x = q[j]
          BY <1>7, <3>4
        <4>2. j \in 1..Len(q) /\ j # n + i
          BY <1>1, <3>2, SMTT(30)
        <4> QED BY <1>4, <3>1, <3>2, <4>1, <4>2
      <3> QED BY <3>3, <3>4
    <2>2. ASSUME NEW x \in Range(q), x \notin Range(a) PROVE x \in Range(b)
      <3>1. PICK j \in 1..Len(q) : x = q[j]
        BY <1>1 DEF Range
      <3>2. j \notin 1..n
        BY <1>7, <2>2, <3>1
      <3>3. j - n \in 1..(Len(q) - n) /\ n + (j - n) = j
        BY <1>1, <3>2, SMTT(30)
      <3> QED BY <1>3, <3>1, <3>3 DEF Range
    <2> QED BY <2>1, <2>2
  <1> QED BY <1>2, <1>3, <1>5, <1>6, <1>7, <1>8, <1>9 DEF a, b

\* The sweep of _lt_run takes what it drops out of avail and out of set.
LEMMA SweepLemma ==
    ASSUME NEW q \in Seq(Resources), IsInjective(q), NEW s, Sweep(q, s)
    PROVE  /\ avail' \in Seq(Resources) /\ IsInjective(avail') /\ Range(avail') \subseteq Range(q)
           /\ set' = s \ (Range(q) \ Range(avail'))
  <1>1. PICK n \in 0..Len(q) : Kept(q) = SubSeq(q, 1, n)
    BY KeptLemma
  <1>2. Len(Kept(q)) = n
    BY <1>1, SMTT(30)
  <1>3. avail' = SubSeq(q, 1, n) /\ set' = s \ Range(SubSeq(q, n + 1, Len(q)))
    BY <1>1, <1>2 DEF Sweep
  <1> QED BY <1>3, CutLemma, SMTT(30)

-----------------------------------------------------------------------------
\* The worker puts its client into the queue, or drops some of it, or both: q and s are
\* the queue and the set before the sweep.
LEMMA AccountsWorker ==
    ASSUME Accounts, None \notin Resources, Lt \in Tasks, pc[Lt] # "using",
           NEW q \in Seq(Resources), NEW s \in SUBSET Resources, Range(q) \subseteq s,
           \A t \in Borrowers : held[t] \notin Range(q),
           \A r \in s : r \in Range(q) \/ \E t \in Tasks : pc[t] = "using" /\ held[t] = r,
           avail' \in Seq(Resources), IsInjective(avail'), Range(avail') \subseteq Range(q),
           set' = s \ (Range(q) \ Range(avail')),
           held' = [held EXCEPT ![Lt] = None], NEW p \in {"asleep", "creating"}, Goto(Lt, p)
    PROVE  Accounts'
  <1>t. AccountTypes /\ Lent /\ PoolAccounts
    BY DEF Accounts
  <1>1. /\ held'[Lt] = None /\ pc'[Lt] = p
        /\ \A t \in Tasks \ {Lt} : held'[t] = held[t] /\ pc'[t] = pc[t]
    BY <1>t DEF AccountTypes, Goto
  <1>2. AccountTypes'
    BY <1>t DEF AccountTypes, Goto, Places
  <1>3. Lent'
    BY <1>t, <1>1 DEF Lent
  <1>4. PoolAccounts'
    <2>1. Range(avail') \subseteq set'
      OBVIOUS
    <2>2. Range(avail') \subseteq Resources
      BY RangeLemma
    <2>3. \A t \in Tasks : held'[t] \notin Range(avail')
      BY <1>1, <2>2 DEF Borrowers
    <2>4. \A t, u \in Tasks : held'[t] # None /\ held'[t] = held'[u] => t = u
      BY <1>t, <1>1, SMTT(30) DEF PoolAccounts
    <2> QED BY <2>1, <2>3, <2>4 DEF PoolAccounts
  <1>5. Counted'
    BY <1>1, SMTT(30) DEF Counted
  <1> QED BY <1>2, <1>3, <1>4, <1>5 DEF Accounts

\* The worker goes on and takes the tasks of W off the list.
LEMMA WaitsWorker ==
    ASSUME Accounts, Waiters(Borrowers), Lt \in Tasks,
           NEW p \in {"asleep", "creating", "insert"}, Goto(Lt, p), UNCHANGED canceled,
           NEW W \in SUBSET Range(waiting), waiting' \in Seq(Tasks), IsInjective(waiting'),
           Range(waiting') = Range(waiting) \ W, waiting = <<>> => waiting' = <<>>,
           token' \in [Tasks -> BOOLEAN], \A t \in Tasks : token'[t] <=> token[t] \/ t \in W
    PROVE  Waiters(Borrowers)'
  <1>1. /\ pc'[Lt] = p /\ \A t \in Tasks \ {Lt} : pc'[t] = pc[t]
        /\ Range(waiting) \subseteq Tasks
    BY RangeLemma DEF Accounts, AccountTypes, Goto, Waiters, WaitTypes
  <1>2. /\ pc[Lt] \notin {"using", "parked"} /\ Lt \notin Range(waiting)
        /\ \A t \in Range(waiting) : pc'[t] = "parked"
    BY <1>1 DEF Waiters, Listed, Borrowers
  <1>3. \A t \in Tasks : pc'[t] \in {"using", "parked"} => t \in Borrowers
    BY <1>1 DEF Borrowers
  <1>4. WaitTypes' /\ Listed'
    BY <1>2 DEF Waiters, WaitTypes, Listed
  <1>5. \A t \in Tasks : Woken(t)'
    BY <1>1, <1>2 DEF Waiters, Woken
  <1>6. Offered(Borrowers)'
    BY <1>1 DEF Waiters, Offered, Busy, Borrowers
  <1> QED BY <1>3, <1>4, <1>5, <1>6 DEF Waiters

\* A step of the sweeping task that wakes nobody keeps the waiters' invariant.
LEMMA WorkerQuiet ==
    ASSUME Accounts, Waiters(Borrowers), Lt \in Tasks,
           NEW p \in {"asleep", "creating", "insert"}, Goto(Lt, p),
           UNCHANGED <<waiting, token, canceled>>
    PROVE  Waiters(Borrowers)'
  <1>1. /\ {} \in SUBSET Range(waiting) /\ waiting' \in Seq(Tasks) /\ IsInjective(waiting')
        /\ Range(waiting') = Range(waiting) \ {} /\ token' \in [Tasks -> BOOLEAN]
    BY DEF Waiters, WaitTypes, Listed
  <1>2. \A t \in Tasks : token'[t] <=> token[t] \/ t \in {}
    OBVIOUS
  <1> QED BY <1>1, <1>2, WaitsWorker

\* So does a step of the sweeping task that wakes the first n waiters.
LEMMA WorkerWakes ==
    ASSUME Accounts, Waiters(Borrowers), Lt \in Tasks, NEW n \in Nat, WakeMany(n),
           NEW p \in {"asleep", "creating", "insert"}, Goto(Lt, p), UNCHANGED canceled
    PROVE  Waiters(Borrowers)'
  <1>1. waiting \in Seq(Tasks) /\ IsInjective(waiting) /\ token \in [Tasks -> BOOLEAN]
    BY DEF Waiters, WaitTypes, Listed
  <1>2. Len(waiting) \in Nat /\ DOMAIN waiting = 1..Len(waiting)
    BY <1>1, SeqLength
  <1>3. PICK m \in 0..Len(waiting) : m = n \/ (n > Len(waiting) /\ m = Len(waiting))
    <2>1. CASE n <= Len(waiting)
      <3>1. n \in 0..Len(waiting)
        BY <1>2, <2>1, SMTT(30)
      <3> QED BY <3>1
    <2>2. CASE n > Len(waiting)
      <3>1. Len(waiting) \in 0..Len(waiting)
        BY <1>2, SMTT(30)
      <3> QED BY <2>2, <3>1
    <2>3. n <= Len(waiting) \/ n > Len(waiting)
      BY <1>2, SMTT(30)
    <2> QED BY <2>1, <2>2, <2>3
  <1> DEFINE W == Range(SubSeq(waiting, 1, m))
  <1>4. waiting' = SubSeq(waiting, m + 1, Len(waiting))
    <2>1. CASE m = n
      BY <2>1 DEF WakeMany
    <2>2. CASE n > Len(waiting) /\ m = Len(waiting)
      <3>1. SubSeq(waiting, n + 1, Len(waiting)) = <<>>
        BY <1>1, <1>2, <2>2, SMTT(30)
      <3>2. SubSeq(waiting, m + 1, Len(waiting)) = <<>>
        BY <1>1, <1>2, <2>2, SMTT(30)
      <3> QED BY <3>1, <3>2 DEF WakeMany
    <2> QED BY <1>3, <2>1, <2>2
  <1>5. /\ waiting' \in Seq(Tasks) /\ IsInjective(waiting') /\ Range(waiting') = Range(waiting) \ W
        /\ W \subseteq Range(waiting) /\ W = {waiting[i] : i \in 1..m}
    <2> DEFINE b == SubSeq(waiting, m + 1, Len(waiting))
    <2>1. /\ b \in Seq(Tasks) /\ IsInjective(b) /\ Range(b) = Range(waiting) \ W
          /\ W \subseteq Range(waiting)
      BY <1>1, CutLemma, SMTT(30)
    <2>3. W = {waiting[i] : i \in 1..m}
      BY <1>1, CutLemma, SMTT(30)
    <2>2. waiting' = b
      BY <1>4
    <2> HIDE DEF b, W
    <2> QED BY <2>1, <2>2, <2>3
  <1>6. waiting = <<>> => waiting' = <<>>
    BY <1>1, <1>2, <1>3, <1>4, SMTT(30)
  <1> HIDE DEF W
  <1>7. ASSUME NEW t \in Tasks PROVE token'[t] <=> token[t] \/ t \in W
    <2>1. token'[t] <=> token[t] \/ \E i \in 1..n : i <= Len(waiting) /\ waiting[i] = t
      BY DEF WakeMany
    <2>2. \A i : i \in 1..m <=> i \in 1..n /\ i <= Len(waiting)
      <3>1. CASE m = n
        BY <1>2, <3>1, SMTT(30)
      <3>2. CASE n > Len(waiting) /\ m = Len(waiting)
        BY <1>2, <3>2, SMTT(30)
      <3> QED BY <1>3, <3>1, <3>2
    <2> QED BY <1>5, <2>1, <2>2
  <1>8. token' \in [Tasks -> BOOLEAN]
    BY <1>1 DEF WakeMany
  <1> QED BY <1>5, <1>6, <1>7, <1>8, WaitsWorker

\* While new_resource() does not throw, the worker has the lock whenever it touches the
\* pool, and it never waits.
Worker == pc[Lt] \in {"idle", "asleep", "creating", "insert"}

HttpInv == Accounts /\ Waiters(Borrowers) /\ Worker

\* The worker wakes with no replacement to make: it sweeps.
LEMMA AwakeSweeps ==
    ASSUME HttpInv, None \notin Resources, Lt \in Tasks, LtAwake, ~(retired > 0)
    PROVE  HttpInv'
  <1>t. AccountTypes /\ Lent /\ PoolAccounts /\ Counted
    BY DEF HttpInv, Accounts
  <1>1. pc[Lt] = "asleep" /\ Sweep(avail, set) /\ UNCHANGED <<held, canceled>>
    BY DEF LtAwake
  <1>2. Goto(Lt, "asleep")
    BY <1>1 DEF Sweep
  <1>3. Worker'
    BY <1>t, <1>2 DEF Worker, Goto, AccountTypes
  <1>4. held[Lt] = None /\ held' = [held EXCEPT ![Lt] = None]
    BY <1>t, <1>1 DEF Lent, AccountTypes
  <1>5. /\ avail' \in Seq(Resources) /\ IsInjective(avail') /\ Range(avail') \subseteq Range(avail)
        /\ set' = set \ (Range(avail) \ Range(avail'))
    BY <1>t, <1>1, SweepLemma DEF AccountTypes, PoolAccounts
  <1>6. /\ avail \in Seq(Resources) /\ set \in SUBSET Resources /\ Range(avail) \subseteq set
        /\ \A t \in Borrowers : held[t] \notin Range(avail)
        /\ \A r \in set : r \in Range(avail) \/ \E t \in Tasks : pc[t] = "using" /\ held[t] = r
    BY <1>t DEF AccountTypes, PoolAccounts, Counted, Borrowers
  <1>7. Accounts /\ Waiters(Borrowers) /\ pc[Lt] # "using"
    BY <1>1 DEF HttpInv
  <1>8. Accounts'
    BY <1>2, <1>4, <1>5, <1>6, <1>7, AccountsWorker
  <1>9. Waiters(Borrowers)'
    <2>1. CASE UNCHANGED <<waiting, token>>
      BY <1>1, <1>2, <1>7, <2>1, WorkerQuiet
    <2>2. CASE Wakeup /\ waiting # <<>>
      <3>1. WaitTypes /\ Listed
        BY <1>7 DEF Waiters
      <3>2. /\ Head(waiting) \in Range(waiting) /\ Tail(waiting) \in Seq(Tasks)
            /\ IsInjective(Tail(waiting)) /\ Range(Tail(waiting)) = Range(waiting) \ {Head(waiting)}
        BY <2>2, <3>1, TailLemma DEF WaitTypes, Listed
      <3>3. waiting' = Tail(waiting) /\ token' = [token EXCEPT ![Head(waiting)] = TRUE]
        BY <2>2 DEF Wakeup
      <3>4. /\ token' \in [Tasks -> BOOLEAN]
            /\ \A t \in Tasks : token'[t] <=> token[t] \/ t \in {Head(waiting)}
        BY <3>1, <3>3 DEF WaitTypes
      <3> QED BY <1>1, <1>2, <1>7, <2>2, <3>2, <3>3, <3>4, WaitsWorker
    <2>3. UNCHANGED <<waiting, token>> \/ Wakeup
      BY DEF LtAwake
    <2>4. Wakeup => UNCHANGED <<waiting, token>> \/ waiting # <<>>
      BY DEF Wakeup
    <2> QED BY <2>1, <2>2, <2>3, <2>4
  <1> QED BY <1>3, <1>8, <1>9 DEF HttpInv

\* The worker puts the replacement into the pool.
LEMMA InsertKeeps ==
    ASSUME HttpInv, None \notin Resources, Lt \in Tasks, LtInserts
    PROVE  HttpInv'
  <1> DEFINE r == held[Lt]
             q == PushFront(avail, r)
             s == set \cup {r}
  <1>t. AccountTypes /\ Lent /\ PoolAccounts /\ Counted
    BY DEF HttpInv, Accounts
  <1>1. pc[Lt] = "insert" /\ r \in Resources /\ r # None /\ r \notin Range(avail)
    BY <1>t DEF LtInserts, Lent, AccountTypes, PoolAccounts
  <1>2. held' = [held EXCEPT ![Lt] = None] /\ UNCHANGED canceled
    BY DEF LtInserts
  <1>3. \/ avail' = q /\ set' = s /\ Goto(Lt, "creating") /\ WakeMany(1)
        \/ Sweep(q, s) /\ (WakeMany(1) \/ WakeMany(2))
    BY DEF LtInserts
  <1>4. PICK p \in {"asleep", "creating"} : Goto(Lt, p)
    BY <1>3 DEF Sweep
  <1>5. Worker'
    BY <1>t, <1>4 DEF Worker, Goto, AccountTypes
  <1>6. q \in Seq(Resources) /\ IsInjective(q) /\ Range(q) = Range(avail) \cup {r}
    BY <1>t, <1>1, PushFrontLemma, SMTT(30) DEF AccountTypes, PoolAccounts
  <1>7. /\ s \in SUBSET Resources /\ Range(q) \subseteq s
        /\ \A x \in s : x \in Range(q) \/ \E t \in Tasks : pc[t] = "using" /\ held[t] = x
    BY <1>t, <1>1, <1>6 DEF AccountTypes, PoolAccounts, Counted
  <1>8. \A t \in Borrowers : held[t] \notin Range(q)
    BY <1>t, <1>1, <1>6 DEF PoolAccounts, Borrowers
  <1> HIDE DEF q, s
  <1>9. /\ avail' \in Seq(Resources) /\ IsInjective(avail') /\ Range(avail') \subseteq Range(q)
        /\ set' = s \ (Range(q) \ Range(avail'))
    BY <1>3, <1>6, SweepLemma
  <1>10. Accounts /\ Waiters(Borrowers) /\ pc[Lt] # "using"
    BY <1>1 DEF HttpInv
  <1>11. Accounts'
    BY <1>2, <1>4, <1>6, <1>7, <1>8, <1>9, <1>10, AccountsWorker
  <1>12. Waiters(Borrowers)'
    <2>1. PICK n \in Nat : WakeMany(n)
      BY <1>3
    <2> QED BY <1>2, <1>4, <1>10, <2>1, WorkerWakes
  <1> QED BY <1>5, <1>11, <1>12 DEF HttpInv

\* Every other step of the worker.
LEMMA WorkerStep ==
    ASSUME HttpInv, None \notin Resources, Lt \in Tasks, ~MayFail, LtRuns
    PROVE  HttpInv'
  <1>t. AccountTypes /\ Accounts /\ Waiters(Borrowers)
    BY DEF HttpInv, Accounts
  <1>1. ASSUME NEW p \in {"asleep", "creating"}, Goto(Lt, p), pc[Lt] \in {"idle", "asleep"},
               UNCHANGED <<avail, set, held, waiting, token, canceled>>
        PROVE  HttpInv'
    <2>1. /\ pc' \in [Tasks -> Places] /\ pc'[Lt] = p
          /\ \A t \in Tasks \ {Lt} : pc'[t] = pc[t]
      BY <1>1, <1>t DEF AccountTypes, Goto, Places
    <2>2. Accounts'
      BY <1>1, <1>t, <2>1, AccountsKept
    <2>3. Waiters(Borrowers)'
      BY <1>1, <1>t, WorkerQuiet
    <2> QED BY <2>1, <2>2, <2>3 DEF HttpInv, Worker
  <1>2. CASE LtStarts
    BY <1>1, <1>2 DEF LtStarts
  <1>3. CASE LtAwake
    <2>1. CASE retired > 0
      BY <1>1, <1>3, <2>1 DEF LtAwake
    <2> QED BY <1>3, <2>1, AwakeSweeps
  <1>4. CASE LtCreates
    <2>1. Create(Lt) /\ Goto(Lt, "insert") /\ UNCHANGED <<waiting, token, canceled>>
      BY <1>4 DEF LtCreates, NewClient, Create
    <2>2. Accounts'
      BY <1>t, <2>1, AccountsCreate
    <2>3. Waiters(Borrowers)'
      BY <1>t, <2>1, WorkerQuiet
    <2>4. Worker'
      BY <1>t, <2>1 DEF Worker, Goto, AccountTypes
    <2> QED BY <2>2, <2>3, <2>4 DEF HttpInv
  <1>5. ~LtFails /\ ~LtPeeks /\ ~LtDrops
    BY DEF LtFails, LtPeeks, LtDrops, HttpInv, Worker
  <1> QED BY <1>2, <1>3, <1>4, <1>5, InsertKeeps DEF LtRuns

\* What a borrower, clear(), cancel, the clock and the destructor do is a step of the
\* shared_pool.
LEMMA LoanStep ==
    ASSUME HttpInv, None \notin Resources, Lt \in Tasks, Cancelable \subseteq Tasks,
           Max \in Nat \ {0}, ~MayFail,
           (\E t \in Borrowers : Loan(t)) \/ Tick \/ Others \/ Destroy \/ UNCHANGED httpVars
    PROVE  HttpInv'
  <1>t. Accounts /\ Waiters(Borrowers) /\ Worker /\ Borrowers \subseteq Tasks /\ AccountTypes
    BY DEF HttpInv, Borrowers, Accounts
  <1>1. ASSUME NEW t \in Borrowers, Loan(t)
        PROVE  /\ \/ Acquire(t) \/ Create(t) \/ Insert(t) \/ Resume(t) \/ Throw(t)
                  \/ \E can_keep \in BOOLEAN : Discard(t, can_keep)
               /\ pc'[Lt] = pc[Lt]
    <2>1. ASSUME NEW success \in BOOLEAN, ScopeEnds(t, success)
          PROVE  \E can_keep \in BOOLEAN : Discard(t, can_keep)
      <3>1. (success /\ ~mustdie[t]) \in BOOLEAN
        OBVIOUS
      <3> QED BY <2>1, <3>1 DEF ScopeEnds
    <2>2. \/ Acquire(t) \/ Create(t) \/ Insert(t) \/ Resume(t) \/ Throw(t)
          \/ \E can_keep \in BOOLEAN : Discard(t, can_keep)
      BY <1>1, <2>1 DEF Loan, ScopeAcquires, Waits, NewClient, CreateFails
    <2>3. \E p : Goto(t, p)
      BY <2>2 DEF Acquire, AcquirePops, AcquireCreates, AcquireSleeps, Create, Insert,
                         Resume, Throw, Discard
    <2>4. pc'[Lt] = pc[Lt]
      BY <1>t, <2>3 DEF Goto, AccountTypes, Borrowers
    <2> QED BY <2>2, <2>4
  <1>2. /\ Tick \/ Destroy \/ UNCHANGED httpVars => UNCHANGED vars
        /\ Others => (Clear \/ \E t \in Cancelable : Cancel(t))
    BY DEF Tick, Destroy, httpVars, vars, Others
  <1>3. ASSUME UNCHANGED vars \/ Clear \/ \E t \in Cancelable : Cancel(t)
        PROVE  UNCHANGED pc
    BY <1>3 DEF vars, Clear, Cancel
  <1>4. Uses(Borrowers) /\ [Next]_vars /\ pc'[Lt] = pc[Lt]
    <2>1. CASE \E t \in Borrowers : Loan(t)
      BY <1>t, <1>1, <2>1 DEF Uses, Next
    <2>2. CASE UNCHANGED vars \/ Clear
      <3>1. UNCHANGED <<waiting, pc, token, canceled>>
        BY <2>2 DEF vars, Clear
      <3> QED BY <2>2, <3>1 DEF Uses, Next
    <2>3. CASE \E t \in Cancelable : Cancel(t)
      BY <1>3, <2>3 DEF Uses, Next
    <2> QED BY <1>2, <2>1, <2>2, <2>3
  <1>5. Accounts'
    BY <1>t, <1>4, AccountsStep
  <1>6. Waiters(Borrowers)'
    BY <1>t, <1>4, WaitsStep
  <1> QED BY <1>t, <1>4, <1>5, <1>6 DEF HttpInv, Worker

\* A client is lent to one borrower at a time and never while it is in the queue, the
\* pool counts none that is lost, and when all borrowers are quiet nobody waits: the
\* worker takes clients out and puts new ones in under the lock, and wakes a waiter for
\* each. It takes a new_resource() that does not throw: _lt_run goes on without the lock
\* after one that does.
THEOREM HttpPoolSafety ==
    ASSUME None \notin Resources, Lt \in Tasks, Cancelable \subseteq Tasks, Max \in Nat \ {0},
           ~MayFail
    PROVE  HttpSpec => [](PoolAccounts /\ NoOrphan /\ NobodyLeft)
  <1>1. HttpInit => HttpInv
    <2> SUFFICES ASSUME HttpInit PROVE HttpInv
      OBVIOUS
    <2>1. Accounts /\ Waiters(Borrowers)
      BY InitPool DEF HttpInit, Borrowers
    <2>2. Worker
      BY DEF HttpInit, Init, Worker
    <2> QED BY <2>1, <2>2 DEF HttpInv
  <1>2. HttpInv /\ [HttpNext]_httpVars => HttpInv'
    BY WorkerStep, LoanStep DEF HttpNext
  <1>3. HttpInv => PoolAccounts /\ NoOrphan
    BY DEF HttpInv, Accounts, NoOrphan, Counted
  <1>4. HttpInv => NobodyLeft
    BY QuietServed DEF HttpInv, NobodyLeft, Borrowers
  <1> QED BY <1>1, <1>2, <1>3, <1>4, PTL DEF HttpSpec

\* The destructor of http_scoped_resource takes an old client out of the pool, whatever
\* done() said and whatever the worker does meanwhile.
THEOREM OldClientsGo ==
    ASSUME Lt \in Tasks
    PROVE  HttpSpec => OldOnesGo
  <1> DEFINE T == mustdie \in [Tasks -> BOOLEAN]
             A == \A t \in Borrowers : mustdie[t] /\ ~mustdie'[t] => held[t] \notin set'
  <1>1. HttpInit => T
    BY DEF HttpInit
  <1>2. ASSUME T, [HttpNext]_httpVars PROVE T' /\ A
    <2>1. CASE UNCHANGED mustdie
      BY <1>2, <2>1
    <2>2. ASSUME NEW t \in Borrowers, mustdie' = [mustdie EXCEPT ![t] = TRUE] PROVE T' /\ A
      BY <1>2, <2>2 DEF Borrowers
    <2>3. ASSUME NEW t \in Borrowers, NEW success \in BOOLEAN, ScopeEnds(t, success)
          PROVE  T' /\ A
      <3>1. mustdie' = [mustdie EXCEPT ![t] = FALSE]
        BY <2>3 DEF ScopeEnds
      <3>2. mustdie[t] => held[t] \notin set'
        BY <2>3 DEF ScopeEnds, Discard
      <3> QED BY <1>2, <3>1, <3>2 DEF Borrowers
    <2>4. LtRuns \/ Tick \/ Others \/ Destroy \/ UNCHANGED httpVars => UNCHANGED mustdie
      BY DEF LtRuns, LtStarts, LtAwake, LtCreates, LtInserts, LtFails, LtPeeks, LtDrops,
                   Tick, Others, Destroy, httpVars
    <2>5. ASSUME NEW t \in Borrowers, Loan(t)
          PROVE  \/ UNCHANGED mustdie \/ mustdie' = [mustdie EXCEPT ![t] = TRUE]
                 \/ \E success \in BOOLEAN : ScopeEnds(t, success)
      BY <2>5 DEF Loan, ScopeAcquires, Scoped, Waits
    <2> QED BY <1>2, <2>1, <2>2, <2>3, <2>4, <2>5 DEF HttpNext
  <1> QED BY <1>1, <1>2, PTL DEF HttpSpec, OldOnesGo

-----------------------------------------------------------------------------
(***************************************************************************)
(* The stacks of tasks, StackAlloc: a stack that is mapped belongs to one  *)
(* context or is once in the cache of one thread.                          *)
(***************************************************************************)
CONSTANTS Threads, MaxStacks, Sizes
VARIABLES default_stacksize, mapped, cache, live, alloc_fail, aborted

Alloc == INSTANCE StackAlloc

Stacks == 1..MaxStacks

\* No stack has the size 0.
StackUse == MaxStacks \in Nat /\ Sizes \subseteq Nat \ {0}

StackTypes ==
    /\ default_stacksize \in Sizes
    /\ mapped \in [Stacks -> Nat] /\ live \in [Stacks -> Nat]
    /\ cache \in [Threads -> Seq(Stacks)] /\ \A th \in Threads : IsInjective(cache[th])

Cached(s) == \E th \in Threads : s \in Range(cache[th])

Owned ==
    /\ StackTypes
    /\ \A th, o \in Threads : Range(cache[th]) \cap Range(cache[o]) # {} => th = o
    /\ \A s \in Stacks : Cached(s) => live[s] = 0
    /\ \A s \in Stacks : mapped[s] # 0 <=> live[s] # 0 \/ Cached(s)

\* The operators of the library mean the same in both modules.
LEMMA SameOperators ==
    /\ \A f : Alloc!Range(f) = Range(f) /\ (Alloc!IsInjective(f) <=> IsInjective(f))
    /\ \A S : Alloc!Cardinality(S) = Cardinality(S)
    /\ Alloc!Stacks = Stacks
  <1>1. \A f : Alloc!Range(f) = Range(f) /\ (Alloc!IsInjective(f) <=> IsInjective(f))
    BY DEF Alloc!Range, Range, Alloc!IsInjective, IsInjective
  <1>2. \A S : Alloc!Cardinality(S) = Cardinality(S)
    BY DEF Alloc!Cardinality, Cardinality
  <1>3. Alloc!Stacks = Stacks
    BY DEF Alloc!Stacks, Stacks
  <1> QED BY <1>1, <1>2, <1>3

\* There is a lowest address among the free ones.
LEMMA Least ==
    ASSUME NEW T \in SUBSET Nat, T # {}
    PROVE  \E k \in T : \A i \in T : k <= i
  <1> DEFINE R == OpToRel(<, Nat)
  <1>1. IsWellFoundedOn(R, Nat)
    BY NatLessThanWellFounded
  <1>2. \A x, y \in Nat : x < y => <<x, y>> \in R
    BY DEF OpToRel
  <1> HIDE DEF R
  <1>3. PICK k \in T : \A y \in T : <<y, k>> \notin R
    BY <1>1, WFMin
  <1>4. ASSUME NEW i \in T PROVE k <= i
    <2>1. ~(i < k) /\ i \in Nat /\ k \in Nat
      BY <1>2, <1>3
    <2> QED BY <2>1, SMTT(30)
  <1> QED BY <1>4

\* A step of one thread: what it has in its cache afterwards was there or was in use by a
\* context, and what is mapped afterwards is in use or in a cache.
LEMMA ThreadKeeps ==
    ASSUME Owned, NEW th \in Threads, UNCHANGED default_stacksize,
           mapped' \in [Stacks -> Nat], live' \in [Stacks -> Nat],
           NEW q \in Seq(Stacks), IsInjective(q), cache' = [cache EXCEPT ![th] = q],
           \A s \in Range(q) : live'[s] = 0 /\ (s \in Range(cache[th]) \/ live[s] # 0),
           \A s \in Stacks : live'[s] # 0 => \/ live[s] # 0 \/ s \in Range(cache[th])
                                             \/ mapped[s] = 0,
           \A s \in Stacks : mapped'[s] # 0 <=> \/ live'[s] # 0 \/ s \in Range(q)
                                                \/ \E o \in Threads \ {th} : s \in Range(cache[o])
    PROVE  Owned'
  <1>t. StackTypes
    BY DEF Owned
  <1>1. /\ cache'[th] = q /\ \A o \in Threads \ {th} : cache'[o] = cache[o]
        /\ cache' \in [Threads -> Seq(Stacks)]
    BY <1>t DEF StackTypes
  <1>2. StackTypes'
    BY <1>t, <1>1 DEF StackTypes
  <1>3. ASSUME NEW s \in Stacks, NEW o \in Threads \ {th}, s \in Range(cache[o])
        PROVE  s \notin Range(q) /\ live'[s] = 0
    <2>1. live[s] = 0 /\ mapped[s] # 0
      BY <1>3 DEF Owned, Cached
    <2>2. s \notin Range(cache[th])
      BY <1>3 DEF Owned
    <2> QED BY <2>1, <2>2
  <1>4. \A o \in Threads : Range(cache[o]) \subseteq Stacks
    BY <1>t, RangeLemma DEF StackTypes
  <1>5. ASSUME NEW a \in Threads, NEW b \in Threads, Range(cache'[a]) \cap Range(cache'[b]) # {}
        PROVE  a = b
    <2>1. CASE a = th
      BY <1>1, <1>3, <1>4, <1>5, <2>1
    <2>2. CASE b = th
      BY <1>1, <1>3, <1>4, <1>5, <2>2
    <2>3. CASE a # th /\ b # th
      BY <1>1, <1>5, <2>3 DEF Owned
    <2> QED BY <2>1, <2>2, <2>3
  <1>6. \A s \in Stacks : Cached(s)' <=> s \in Range(q) \/ \E o \in Threads \ {th} : s \in Range(cache[o])
    BY <1>1 DEF Cached
  <1>7. \A s \in Stacks : Cached(s)' => live'[s] = 0
    BY <1>3, <1>6
  <1>8. \A s \in Stacks : mapped'[s] # 0 <=> live'[s] # 0 \/ Cached(s)'
    BY <1>6
  <1> QED BY <1>2, <1>5, <1>7, <1>8 DEF Owned

\* gc_cache keeps a front part of the vector, and unmaps the rest.
LEMMA KeptByLemma ==
    ASSUME NEW q \in Seq(Stacks), IsInjective(q)
    PROVE  /\ Alloc!KeptBy(q) \in Seq(Stacks) /\ IsInjective(Alloc!KeptBy(q))
           /\ Range(Alloc!KeptBy(q)) \subseteq Range(q)
  <1>1. Len(q) \in Nat
    BY SeqLength
  <1>2. PICK n \in 0..Len(q) : n = Len(q) - Len(q) \div 5
    BY <1>1, SMTT(30)
  <1>3. Alloc!KeptBy(q) = SubSeq(q, 1, n)
    BY <1>2 DEF Alloc!KeptBy
  <1>4. /\ SubSeq(q, 1, n) \in Seq(Stacks) /\ IsInjective(SubSeq(q, 1, n))
        /\ Range(SubSeq(q, 1, n)) \subseteq Range(q)
    BY CutLemma, SMTT(30)
  <1> QED BY <1>3, <1>4

\* The last stack of a cache, and the others.
LEMMA LastLemma ==
    ASSUME NEW q \in Seq(Stacks), IsInjective(q), q # <<>>
    PROVE  /\ q[Len(q)] \in Stacks /\ q[Len(q)] \in Range(q)
           /\ SubSeq(q, 1, Len(q) - 1) \in Seq(Stacks) /\ IsInjective(SubSeq(q, 1, Len(q) - 1))
           /\ Range(SubSeq(q, 1, Len(q) - 1)) = Range(q) \ {q[Len(q)]}
  <1>1. Len(q) \in Nat \ {0} /\ DOMAIN q = 1..Len(q) /\ q \in [1..Len(q) -> Stacks]
    BY SeqLength, SeqEmpty, SMTT(30)
  <1>2. PICK n \in 0..Len(q) : n = Len(q) - 1
    <2>1. Len(q) \in Nat \ {0}
      BY <1>1
    <2>2. Len(q) - 1 \in 0..Len(q)
      BY <2>1, SMTT(30)
    <2> QED BY <2>2
  <1>3. /\ SubSeq(q, 1, n) \in Seq(Stacks) /\ IsInjective(SubSeq(q, 1, n))
        /\ Range(SubSeq(q, 1, n)) = {q[i] : i \in 1..n}
    BY CutLemma, SMTT(30)
  <1>4. Len(q) \in DOMAIN q /\ DOMAIN q = (1..n) \cup {Len(q)} /\ Len(q) \notin 1..n
    BY <1>1, <1>2, SMTT(30)
  <1>5. q[Len(q)] \in Stacks /\ q[Len(q)] \in Range(q)
    BY <1>1, <1>4 DEF Range
  <1>6. {q[i] : i \in 1..n} = Range(q) \ {q[Len(q)]}
    <2>1. Range(q) = {q[i] : i \in 1..n} \cup {q[Len(q)]}
      BY <1>4 DEF Range
    <2>2. ASSUME NEW i \in 1..n PROVE q[i] # q[Len(q)]
      BY <1>4 DEF IsInjective
    <2> QED BY <2>1, <2>2
  <1> QED BY <1>2, <1>3, <1>5, <1>6

\* What Unmap leaves mapped.
LEMMA UnmapLemma ==
    ASSUME NEW m \in [Stacks -> Nat], NEW gone
    PROVE  /\ Alloc!Unmap(m, gone) \in [Stacks -> Nat]
           /\ \A s \in Stacks : Alloc!Unmap(m, gone)[s] # 0 <=> m[s] # 0 /\ s \notin gone
  <1>1. 0 \in Nat /\ Alloc!Unmap(m, gone) = [s \in Stacks |-> IF s \in gone THEN 0 ELSE m[s]]
    BY SameOperators DEF Alloc!Unmap
  <1> QED BY <1>1

\* What the other threads have in their caches, and what this one has.
LEMMA CachedBy ==
    ASSUME Owned, NEW th \in Threads, NEW s \in Stacks
    PROVE  /\ Cached(s) <=> \/ s \in Range(cache[th])
                            \/ \E o \in Threads \ {th} : s \in Range(cache[o])
           /\ s \in Range(cache[th]) => ~\E o \in Threads \ {th} : s \in Range(cache[o])
  <1>1. \A o \in Threads : s \in Range(cache[th]) /\ s \in Range(cache[o]) => th = o
    BY DEF Owned
  <1> QED BY <1>1 DEF Cached

\* allocate with an empty cache maps a stack that was not mapped, or fails.
LEMMA MapsKeeps ==
    ASSUME StackUse, Owned, NEW th \in Threads, Alloc!allocateMaps(th), UNCHANGED default_stacksize
    PROVE  Owned'
  <1>t. StackTypes
    BY DEF Owned
  <1>1. CASE UNCHANGED <<mapped, live, cache>>
    BY <1>1 DEF Owned, StackTypes, Cached
  <1> DEFINE free == {s \in Stacks : mapped[s] = 0}
             low == CHOOSE i \in free : \A j \in free : i <= j
  <1>2. CASE /\ free # {} /\ UNCHANGED cache
             /\ mapped' = [mapped EXCEPT ![low] = default_stacksize]
             /\ live' = [live EXCEPT ![low] = default_stacksize]
    <2>1. free \in SUBSET Nat
      BY SMTT(30) DEF StackUse, Stacks
    <2>2. low \in free
      <3> HIDE DEF free
      <3>1. \E i \in free : \A j \in free : i <= j
        BY <1>2, <2>1, Least
      <3> QED BY <3>1
    <2>3. PICK s \in Stacks : s = low /\ mapped[s] = 0
      BY <2>2
    <2>4. PICK n \in Nat \ {0} : n = default_stacksize
      BY <1>t DEF StackTypes, StackUse
    <2>5. live[s] = 0 /\ ~Cached(s)
      BY <2>3 DEF Owned
    <2>6. /\ mapped' \in [Stacks -> Nat] /\ live' \in [Stacks -> Nat]
          /\ mapped'[s] # 0 /\ live'[s] # 0
          /\ \A z \in Stacks \ {s} : mapped'[z] = mapped[z] /\ live'[z] = live[z]
      <3> HIDE DEF low
      <3> QED BY <1>t, <1>2, <2>3, <2>4 DEF StackTypes
    <2>7. \A z \in Stacks : Cached(z)' <=> Cached(z)
      BY <1>2 DEF Cached
    <2>8. StackTypes'
      BY <1>t, <1>2, <2>6 DEF StackTypes
    <2>9. /\ \A z \in Stacks : Cached(z)' => live'[z] = 0
          /\ \A z \in Stacks : mapped'[z] # 0 <=> live'[z] # 0 \/ Cached(z)'
      BY <2>5, <2>6, <2>7 DEF Owned
    <2>10. \A a, b \in Threads : Range(cache'[a]) \cap Range(cache'[b]) # {} => a = b
      BY <1>2 DEF Owned
    <2> QED BY <2>8, <2>9, <2>10 DEF Owned
  <1> QED BY <1>1, <1>2, SameOperators DEF Alloc!allocateMaps

\* allocate takes the last stack of the cache; after a failure it also gives some back.
LEMMA ReusesKeeps ==
    ASSUME StackUse, Owned, NEW th \in Threads, Alloc!allocateReuses(th), UNCHANGED default_stacksize
    PROVE  Owned'
  <1>t. StackTypes
    BY DEF Owned
  <1>1. CASE UNCHANGED <<cache, mapped, live>>
    BY <1>1 DEF Owned, StackTypes, Cached
  <1>2. cache[th] \in Seq(Stacks) /\ IsInjective(cache[th]) /\ cache[th] # <<>>
    BY <1>t DEF StackTypes, Alloc!allocateReuses
  <1>3. PICK s \in Stacks, rest \in Seq(Stacks) :
           /\ s = cache[th][Len(cache[th])] /\ rest = SubSeq(cache[th], 1, Len(cache[th]) - 1)
    BY <1>2, LastLemma
  <1>4. /\ s \in Range(cache[th]) /\ IsInjective(rest) /\ Range(rest) = Range(cache[th]) \ {s}
    BY <1>2, <1>3, LastLemma
  <1>5. PICK n \in Nat \ {0} : n = default_stacksize
    BY <1>t DEF StackTypes, StackUse
  <1>6. ASSUME live' = [live EXCEPT ![s] = n], NEW q \in Seq(Stacks), IsInjective(q),
               Range(q) \subseteq Range(rest), cache' = [cache EXCEPT ![th] = q],
               mapped' \in [Stacks -> Nat],
               \A z \in Stacks : mapped'[z] # 0 <=> mapped[z] # 0 /\ z \notin Range(rest) \ Range(q)
        PROVE  Owned'
    <2>1. /\ live' \in [Stacks -> Nat] /\ live'[s] # 0
          /\ \A z \in Stacks \ {s} : live'[z] = live[z]
      BY <1>t, <1>5, <1>6 DEF StackTypes
    <2>2. \A z \in Range(cache[th]) : z \in Stacks /\ live[z] = 0 /\ mapped[z] # 0
      <3>1. Range(cache[th]) \subseteq Stacks
        BY <1>2, RangeLemma
      <3> QED BY <3>1 DEF Owned, Cached
    <2>3. \A z \in Range(q) : live'[z] = 0 /\ (z \in Range(cache[th]) \/ live[z] # 0)
      BY <1>4, <1>6, <2>1, <2>2
    <2>4. \A z \in Stacks : live'[z] # 0 => \/ live[z] # 0 \/ z \in Range(cache[th])
                                            \/ mapped[z] = 0
      BY <1>4, <2>1
    <2>5. ASSUME NEW z \in Stacks
          PROVE  mapped'[z] # 0 <=> \/ live'[z] # 0 \/ z \in Range(q)
                                    \/ \E o \in Threads \ {th} : z \in Range(cache[o])
      <3>1. mapped[z] # 0 <=> live[z] # 0 \/ Cached(z)
        BY DEF Owned
      <3>2. mapped'[z] # 0 <=> mapped[z] # 0 /\ z \notin Range(rest) \ Range(q)
        BY <1>6
      <3>3. CASE z = s
        BY <1>4, <2>1, <2>2, <3>2, <3>3
      <3>4. CASE z # s
        BY <1>4, <1>6, <2>1, <2>2, <3>1, <3>2, <3>4, CachedBy
      <3> QED BY <3>3, <3>4
    <2> QED BY <1>6, <2>1, <2>3, <2>4, <2>5, ThreadKeeps
  <1>7. CASE /\ live' = [live EXCEPT ![s] = n] /\ cache' = [cache EXCEPT ![th] = rest]
             /\ UNCHANGED mapped
    BY <1>t, <1>4, <1>6, <1>7 DEF StackTypes
  <1>8. CASE live' = [live EXCEPT ![s] = n] /\ Alloc!gc_cache(th, rest, mapped)
    <2>1. PICK q \in Seq(Stacks) : q = Alloc!KeptBy(rest) /\ IsInjective(q) /\ Range(q) \subseteq Range(rest)
      BY <1>4, KeptByLemma
    <2>2. /\ cache' = [cache EXCEPT ![th] = q]
          /\ mapped' = Alloc!Unmap(mapped, Range(rest) \ Range(q))
      BY <1>8, <2>1, SameOperators DEF Alloc!gc_cache
    <2>3. /\ mapped' \in [Stacks -> Nat]
          /\ \A z \in Stacks : mapped'[z] # 0 <=> mapped[z] # 0 /\ z \notin Range(rest) \ Range(q)
      <3>1. mapped \in [Stacks -> Nat]
        BY <1>t DEF StackTypes
      <3>2. PICK m \in [Stacks -> Nat] : m = mapped
        BY <3>1
      <3>3. /\ Alloc!Unmap(m, Range(rest) \ Range(q)) \in [Stacks -> Nat]
            /\ \A z \in Stacks : Alloc!Unmap(m, Range(rest) \ Range(q))[z] # 0
                               <=> m[z] # 0 /\ z \notin Range(rest) \ Range(q)
        BY UnmapLemma
      <3>4. mapped' = Alloc!Unmap(m, Range(rest) \ Range(q))
        BY <2>2, <3>2
      <3> QED BY <3>2, <3>3, <3>4
    <2> QED BY <1>6, <1>8, <2>1, <2>2, <2>3
  <1> QED BY <1>1, <1>3, <1>5, <1>7, <1>8 DEF Alloc!allocateReuses

\* A thread puts the stacks of L, which contexts used, into its cache or unmaps them,
\* and may unmap some that it has there.
GivenBack(th, q, L) ==
  /\ UNCHANGED default_stacksize
  /\ IsInjective(q) /\ cache' = [cache EXCEPT ![th] = q]
  /\ (\A s \in L : live[s] # 0) /\ Range(q) \subseteq Range(cache[th]) \cup L
  /\ live' \in [Stacks -> Nat] /\ \A s \in L : live'[s] = 0
  /\ \A s \in Stacks \ L : live'[s] = live[s]
  /\ mapped' \in [Stacks -> Nat]
  /\ \A s \in Stacks : mapped'[s] # 0
                        <=> mapped[s] # 0 /\ s \notin (Range(cache[th]) \cup L) \ Range(q)

\* The owners stay when a thread gives stacks back.
LEMMA GivesBack ==
    ASSUME Owned, NEW th \in Threads, NEW q \in Seq(Stacks), NEW L \in SUBSET Stacks,
           GivenBack(th, q, L)
    PROVE  Owned'
  <1>0. /\ UNCHANGED default_stacksize
        /\ IsInjective(q) /\ cache' = [cache EXCEPT ![th] = q]
        /\ (\A s \in L : live[s] # 0) /\ Range(q) \subseteq Range(cache[th]) \cup L
        /\ live' \in [Stacks -> Nat] /\ \A s \in L : live'[s] = 0
        /\ \A s \in Stacks \ L : live'[s] = live[s]
        /\ mapped' \in [Stacks -> Nat]
        /\ \A s \in Stacks : mapped'[s] # 0
                              <=> mapped[s] # 0 /\ s \notin (Range(cache[th]) \cup L) \ Range(q)
    BY DEF GivenBack
  <1>1. Range(cache[th]) \subseteq Stacks
    BY RangeLemma DEF Owned, StackTypes
  <1>2. \A s \in Range(cache[th]) : live[s] = 0 /\ mapped[s] # 0
    BY <1>1 DEF Owned, Cached
  <1>3. \A s \in Range(q) : live'[s] = 0 /\ (s \in Range(cache[th]) \/ live[s] # 0)
    BY <1>0, <1>1, <1>2
  <1>4. \A s \in Stacks : live'[s] # 0 => live[s] # 0 \/ s \in Range(cache[th]) \/ mapped[s] = 0
    BY <1>0
  <1>5. ASSUME NEW s \in Stacks
        PROVE  mapped'[s] # 0 <=> \/ live'[s] # 0 \/ s \in Range(q)
                                  \/ \E o \in Threads \ {th} : s \in Range(cache[o])
    <2>1. mapped[s] # 0 <=> live[s] # 0 \/ Cached(s)
      BY DEF Owned
    <2>2. Cached(s) => live[s] = 0
      BY DEF Owned
    <2>3. /\ Cached(s) <=> \/ s \in Range(cache[th])
                           \/ \E o \in Threads \ {th} : s \in Range(cache[o])
          /\ s \in Range(cache[th]) => ~\E o \in Threads \ {th} : s \in Range(cache[o])
      BY CachedBy
    <2>4. CASE s \in L
      BY <1>0, <2>1, <2>2, <2>3, <2>4
    <2>5. CASE s \notin L
      BY <1>0, <2>1, <2>2, <2>3, <2>5
    <2> QED BY <2>4, <2>5
  <1> QED BY <1>0, <1>3, <1>4, <1>5, ThreadKeeps

\* The context of a task is destroyed: its stack goes to the cache of the thread, or is
\* unmapped.
LEMMA DeallocateKeeps ==
    ASSUME Owned, NEW th \in Threads, NEW s \in Stacks, Alloc!deallocate(th, s)
    PROVE  Owned'
  <1>t. StackTypes
    BY DEF Owned
  <1>1. live[s] # 0 /\ live' = [live EXCEPT ![s] = 0] /\ UNCHANGED default_stacksize
    BY DEF Alloc!deallocate
  <1>2. /\ live' \in [Stacks -> Nat] /\ \A z \in {s} : live'[z] = 0
        /\ \A z \in Stacks \ {s} : live'[z] = live[z]
    BY <1>t, <1>1 DEF StackTypes
  <1>3. {s} \in SUBSET Stacks /\ \A z \in {s} : live[z] # 0
    BY <1>1
  <1>4. PICK c \in Seq(Stacks) : c = cache[th] /\ IsInjective(c)
    BY <1>t DEF StackTypes
  <1>5. s \notin Range(c)
    BY <1>1, <1>4 DEF Owned, Cached
  <1>6. PICK m \in [Stacks -> Nat] : m = mapped
    BY <1>t DEF StackTypes
  <1>7. CASE Alloc!gc_cache(th, cache[th], Alloc!Unmap(mapped, {s}))
    <2>1. PICK q \in Seq(Stacks) : q = Alloc!KeptBy(c) /\ IsInjective(q) /\ Range(q) \subseteq Range(c)
      BY <1>4, KeptByLemma
    <2>2. PICK m1 \in [Stacks -> Nat] : /\ m1 = Alloc!Unmap(m, {s})
                                        /\ \A z \in Stacks : m1[z] # 0 <=> m[z] # 0 /\ z \notin {s}
      BY UnmapLemma
    <2>3. /\ cache' = [cache EXCEPT ![th] = q]
          /\ mapped' = Alloc!Unmap(m1, Range(c) \ Range(q))
      BY <1>4, <1>6, <1>7, <2>1, <2>2, SameOperators DEF Alloc!gc_cache
    <2>4. /\ mapped' \in [Stacks -> Nat]
          /\ \A z \in Stacks : mapped'[z] # 0 <=> m1[z] # 0 /\ z \notin Range(c) \ Range(q)
      <3>1. /\ Alloc!Unmap(m1, Range(c) \ Range(q)) \in [Stacks -> Nat]
            /\ \A z \in Stacks : Alloc!Unmap(m1, Range(c) \ Range(q))[z] # 0
                                 <=> m1[z] # 0 /\ z \notin Range(c) \ Range(q)
        BY UnmapLemma
      <3> QED BY <2>3, <3>1
    <2>5. \A z \in Stacks : mapped'[z] # 0
                            <=> mapped[z] # 0 /\ z \notin (Range(cache[th]) \cup {s}) \ Range(q)
      BY <1>4, <1>5, <1>6, <2>1, <2>2, <2>4
    <2>6. Range(q) \subseteq Range(cache[th]) \cup {s}
      BY <1>4, <2>1
    <2>7. GivenBack(th, q, {s})
      BY <1>1, <1>2, <1>3, <2>1, <2>3, <2>4, <2>5, <2>6 DEF GivenBack
    <2> QED BY <1>3, <2>7, GivesBack
  <1>8. CASE cache' = [cache EXCEPT ![th] = Append(@, s)] /\ UNCHANGED mapped
    <2>1. PICK q \in Seq(Stacks) : q = Append(c, s) /\ IsInjective(q) /\ Range(q) = Range(c) \cup {s}
      <3>1. /\ Append(c, s) \in Seq(Stacks) /\ Range(Append(c, s)) = Range(c) \cup {s}
            /\ IsInjective(c) /\ s \notin Range(c) => IsInjective(Append(c, s))
        BY AppendLemma, SMTT(30)
      <3> QED BY <1>4, <1>5, <3>1
    <2>2. cache' = [cache EXCEPT ![th] = q]
      BY <1>4, <1>8, <2>1
    <2>3. \A z \in Stacks : mapped'[z] # 0
                            <=> mapped[z] # 0 /\ z \notin (Range(cache[th]) \cup {s}) \ Range(q)
      BY <1>4, <1>8, <2>1
    <2>4. Range(q) \subseteq Range(cache[th]) \cup {s} /\ mapped' \in [Stacks -> Nat]
      BY <1>4, <1>6, <1>8, <2>1
    <2>5. GivenBack(th, q, {s})
      BY <1>1, <1>2, <1>3, <2>1, <2>2, <2>3, <2>4 DEF GivenBack
    <2> QED BY <1>3, <2>5, GivesBack
  <1>9. CASE mapped' = Alloc!Unmap(mapped, {s}) /\ UNCHANGED cache
    <2>1. cache' = [cache EXCEPT ![th] = c]
      BY <1>t, <1>4, <1>9 DEF StackTypes
    <2>2. /\ mapped' \in [Stacks -> Nat]
          /\ \A z \in Stacks : mapped'[z] # 0 <=> m[z] # 0 /\ z \notin {s}
      <3>1. /\ Alloc!Unmap(m, {s}) \in [Stacks -> Nat]
            /\ \A z \in Stacks : Alloc!Unmap(m, {s})[z] # 0 <=> m[z] # 0 /\ z \notin {s}
        BY UnmapLemma
      <3> QED BY <1>6, <1>9, <3>1
    <2>3. \A z \in Stacks : mapped'[z] # 0
                            <=> mapped[z] # 0 /\ z \notin (Range(cache[th]) \cup {s}) \ Range(c)
      BY <1>4, <1>5, <1>6, <2>2
    <2>4. Range(c) \subseteq Range(cache[th]) \cup {s}
      BY <1>4
    <2>5. GivenBack(th, c, {s})
      BY <1>1, <1>2, <1>3, <1>4, <2>1, <2>2, <2>3, <2>4 DEF GivenBack
    <2> QED BY <1>3, <2>5, GivesBack
  <1> QED BY <1>7, <1>8, <1>9 DEF Alloc!deallocate

\* A thread that ends unmaps the stacks of its cache.
LEMMA EndKeeps ==
    ASSUME Owned, NEW th \in Threads, Alloc!ThreadEnds(th)
    PROVE  Owned'
  <1>t. StackTypes
    BY DEF Owned
  <1>1. /\ cache' = [cache EXCEPT ![th] = <<>>] /\ UNCHANGED <<default_stacksize, live>>
        /\ mapped' = Alloc!Unmap(mapped, Range(cache[th]))
    BY SameOperators DEF Alloc!ThreadEnds
  <1>2. PICK c \in Seq(Stacks) : c = cache[th]
    BY <1>t DEF StackTypes
  <1>3. PICK m \in [Stacks -> Nat] : m = mapped
    BY <1>t DEF StackTypes
  <1>4. /\ Alloc!Unmap(m, Range(c)) \in [Stacks -> Nat]
        /\ \A z \in Stacks : Alloc!Unmap(m, Range(c))[z] # 0 <=> m[z] # 0 /\ z \notin Range(c)
    BY UnmapLemma
  <1>5. PICK q \in Seq(Stacks) : q = <<>> /\ IsInjective(q) /\ Range(q) = {}
    BY EmptyLemma
  <1>6. /\ mapped' \in [Stacks -> Nat] /\ cache' = [cache EXCEPT ![th] = q]
        /\ \A z \in Stacks : mapped'[z] # 0
                             <=> mapped[z] # 0 /\ z \notin (Range(cache[th]) \cup {}) \ Range(q)
    BY <1>1, <1>2, <1>3, <1>4, <1>5
  <1>7. /\ {} \in SUBSET Stacks /\ Range(q) \subseteq Range(cache[th]) \cup {}
        /\ live' \in [Stacks -> Nat] /\ \A z \in Stacks \ {} : live'[z] = live[z]
        /\ \A z \in {} : live[z] # 0 /\ live'[z] = 0
    BY <1>t, <1>1, <1>5 DEF StackTypes
  <1>8. GivenBack(th, q, {})
    BY <1>1, <1>5, <1>6, <1>7 DEF GivenBack
  <1> QED BY <1>7, <1>8, GivesBack

\* For any threads and number of stacks: every mapping is the stack of one context or is
\* in one cache, once, and nothing else is mapped, whichever allocations fail, and
\* whichever thread destroys a context, ends, or changes the default size.
THEOREM StackOwner ==
    ASSUME StackUse
    PROVE  Alloc!Spec => []Alloc!OneOwner
  <1>1. Alloc!Init => Owned
    <2> SUFFICES ASSUME Alloc!Init PROVE Owned
      OBVIOUS
    <2>1. /\ default_stacksize \in Sizes /\ mapped = [s \in Stacks |-> 0]
          /\ live = [s \in Stacks |-> 0] /\ cache = [th \in Threads |-> <<>>]
      BY SameOperators DEF Alloc!Init
    <2>2. \A th \in Threads : cache[th] = <<>> /\ Range(cache[th]) = {} /\ IsInjective(cache[th])
      BY <2>1, EmptyLemma
    <2>3. StackTypes
      BY <2>1, <2>2, EmptyLemma DEF StackTypes
    <2> QED BY <2>1, <2>2, <2>3 DEF Owned, Cached
  <1>2. Owned /\ [Alloc!Next]_(Alloc!vars) => Owned'
    <2> SUFFICES ASSUME Owned, [Alloc!Next]_(Alloc!vars) PROVE Owned'
      OBVIOUS
    <2>1. ASSUME UNCHANGED <<mapped, cache, live>>, default_stacksize' \in Sizes PROVE Owned'
      BY <2>1 DEF Owned, StackTypes, Cached
    <2>2. CASE UNCHANGED Alloc!vars
      BY <2>1, <2>2 DEF Alloc!vars, Owned, StackTypes
    <2>3. ASSUME NEW th \in Threads, Alloc!allocate(th) PROVE Owned'
      BY <2>3, MapsKeeps, ReusesKeeps DEF Alloc!allocate
    <2>4. ASSUME NEW th \in Threads, Alloc!ThreadEnds(th) PROVE Owned'
      BY <2>4, EndKeeps
    <2>5. ASSUME NEW th \in Threads, NEW s \in Stacks, Alloc!deallocate(th, s) PROVE Owned'
      BY <2>5, DeallocateKeeps
    <2>6. ASSUME NEW stacksize \in Sizes, Alloc!kernel(stacksize) PROVE Owned'
      BY <2>1, <2>6 DEF Alloc!kernel
    <2> QED BY <2>2, <2>3, <2>4, <2>5, <2>6, SameOperators DEF Alloc!Next
  <1>3. Owned => Alloc!OneOwner
    <2> SUFFICES ASSUME Owned PROVE Alloc!OneOwner
      OBVIOUS
    <2>1. \A th \in Threads : IsInjective(cache[th])
      BY DEF Owned, StackTypes
    <2>2. ASSUME NEW s \in Stacks
          PROVE  Cardinality({th \in Threads : s \in Range(cache[th])}) + (IF live[s] # 0 THEN 1 ELSE 0)
                 = IF mapped[s] # 0 THEN 1 ELSE 0
      <3>1. (mapped[s] # 0 <=> live[s] # 0 \/ Cached(s)) /\ (Cached(s) => live[s] = 0)
        BY DEF Owned
      <3>2. CASE Cached(s)
        <4>1. PICK o \in Threads : s \in Range(cache[o])
          BY <3>2 DEF Cached
        <4>2. {th \in Threads : s \in Range(cache[th])} = {o}
          BY <4>1 DEF Owned
        <4>3. Cardinality({th \in Threads : s \in Range(cache[th])}) = 1
          BY <4>2, FS_Singleton
        <4> QED BY <3>1, <3>2, <4>3, SMTT(30)
      <3>3. CASE ~Cached(s)
        <4>1. {th \in Threads : s \in Range(cache[th])} = {}
          BY <3>3 DEF Cached
        <4>2. Cardinality({th \in Threads : s \in Range(cache[th])}) = 0
          BY <4>1, FS_EmptySet
        <4> QED BY <3>1, <3>3, <4>2, SMTT(30)
      <3> QED BY <3>2, <3>3
    <2> QED BY <2>1, <2>2, SameOperators DEF Alloc!OneOwner
  <1> QED BY <1>1, <1>2, <1>3, PTL DEF Alloc!Spec
=============================================================================
