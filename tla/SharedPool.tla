----------------------------- MODULE SharedPool -----------------------------
(***************************************************************************)
(* shared_pool and its scoped_resource (include/ten/shared_pool.hh).  What *)
(* a call does between the lock and the unlock of mut is one action; the   *)
(* tasks that wait on not_empty sleep and are woken as in Channel.         *)
(***************************************************************************)
EXTENDS Naturals, Sequences, Functions, FiniteSets, Queues

CONSTANTS Tasks, None,
          Resources,  \* the addresses a resource may have
          Max,        \* max_resources
          Cancelable, \* the tasks that may be canceled
          MayFail     \* whether new_resource() may throw

VARIABLES avail,    \* avail
          set,      \* set
          waiting,  \* the list of the rendez not_empty
          pc,       \* idle, creating, insert, parked, relock, using
          held,     \* _c of the scoped_resource of the task
          token,    \* _ready of the task
          canceled  \* _canceled of the task

vars == <<avail, set, waiting, pc, held, token, canceled>>

Init ==
    /\ avail = <<>> /\ set = {} /\ waiting = <<>>
    /\ pc = [t \in Tasks |-> "idle"]
    /\ held = [t \in Tasks |-> None]
    /\ token = [t \in Tasks |-> FALSE]
    /\ canceled = [t \in Tasks |-> FALSE]

Goto(t, place) == pc' = [pc EXCEPT ![t] = place]

\* rendez::wakeup.
Wakeup ==
    IF waiting = <<>> THEN UNCHANGED <<waiting, token>>
    ELSE waiting' = Tail(waiting) /\ token' = [token EXCEPT ![Head(waiting)] = TRUE]

\* The loop of acquire(): take a resource, go and create one, or wait.
AcquirePops(t) ==
    /\ avail # <<>>
    /\ held' = [held EXCEPT ![t] = Head(avail)]
    /\ avail' = Tail(avail)
    /\ Goto(t, "using")
    /\ UNCHANGED <<set, waiting, token, canceled>>

AcquireCreates(t) ==
    /\ avail = <<>> /\ Cardinality(set) < Max
    /\ Goto(t, "creating")
    /\ UNCHANGED <<avail, set, waiting, held, token, canceled>>

AcquireSleeps(t) ==
    /\ avail = <<>> /\ Cardinality(set) >= Max
    /\ waiting' = Append(waiting, t)
    /\ Goto(t, "parked")
    /\ UNCHANGED <<avail, set, held, token, canceled>>

Acquire(t) ==
    /\ pc[t] \in {"idle", "relock"}
    /\ AcquirePops(t) \/ AcquireCreates(t) \/ AcquireSleeps(t)

\* new_resource(), without the lock: an address that nothing points to any more.
InUse == set \cup Range(avail) \cup {held[t] : t \in Tasks}

Create(t) ==
    /\ pc[t] = "creating"
    /\ \E r \in Resources \ InUse : held' = [held EXCEPT ![t] = r]
    /\ Goto(t, "insert")
    /\ UNCHANGED <<avail, set, waiting, token, canceled>>

CreateFails(t) ==
    /\ MayFail
    /\ pc[t] = "creating"
    /\ Goto(t, "idle")
    /\ UNCHANGED <<avail, set, waiting, held, token, canceled>>

\* The end of new_with_lock(), with the lock again.
Insert(t) ==
    /\ pc[t] = "insert"
    /\ set' = set \cup {held[t]}
    /\ Goto(t, "using")
    /\ UNCHANGED <<avail, waiting, held, token, canceled>>

\* Mutants of Discard: a resource that clear() has dropped goes back to the pool; only
\* a resource that comes back wakes a waiter.
DiscardKeeps(t, can_keep) ==
    /\ pc[t] = "using"
    /\ set' = IF can_keep THEN set ELSE set \ {held[t]}
    /\ avail' = IF can_keep THEN PushFront(avail, held[t]) ELSE avail
    /\ Wakeup
    /\ held' = [held EXCEPT ![t] = None]
    /\ Goto(t, "idle")
    /\ UNCHANGED canceled

DiscardQuietly(t, can_keep) ==
    LET keep == can_keep /\ held[t] \in set IN
    /\ pc[t] = "using"
    /\ set' = IF can_keep THEN set ELSE set \ {held[t]}
    /\ avail' = IF keep THEN PushFront(avail, held[t]) ELSE avail
    /\ IF keep THEN Wakeup ELSE UNCHANGED <<waiting, token>>
    /\ held' = [held EXCEPT ![t] = None]
    /\ Goto(t, "idle")
    /\ UNCHANGED canceled

\* release() and destroy(), from the destructor of scoped_resource: can_keep says
\* whether done() was called.
Discard(t, can_keep) ==
    LET keep == can_keep /\ held[t] \in set
        rest == Erase(avail, held[t])
    IN
    /\ pc[t] = "using"
    /\ set' = IF can_keep THEN set ELSE set \ {held[t]}
    /\ avail' = IF keep THEN PushFront(rest, held[t]) ELSE rest
    /\ Wakeup
    /\ held' = [held EXCEPT ![t] = None]
    /\ Goto(t, "idle")
    /\ UNCHANGED canceled

Clear ==
    /\ avail' = <<>> /\ set' = {}
    /\ UNCHANGED <<waiting, pc, held, token, canceled>>

Resume(t) ==
    /\ pc[t] = "parked" /\ token[t] /\ ~canceled[t]
    /\ token' = [token EXCEPT ![t] = FALSE]
    /\ Goto(t, "relock")
    /\ UNCHANGED <<avail, set, waiting, held, canceled>>

\* rendez::sleep throws.
Throw(t) ==
    /\ pc[t] = "parked" /\ canceled[t]
    /\ IF t \in Range(waiting)
          THEN waiting' = Without(waiting, t) /\ UNCHANGED token
          ELSE Wakeup
    /\ Goto(t, "idle")
    /\ UNCHANGED <<avail, set, held, canceled>>

Cancel(t) ==
    /\ ~canceled[t]
    /\ canceled' = [canceled EXCEPT ![t] = TRUE]
    /\ token' = [token EXCEPT ![t] = TRUE]
    /\ UNCHANGED <<avail, set, waiting, pc, held>>

Next ==
    \/ \E t \in Tasks :
          \/ Acquire(t) \/ Create(t) \/ CreateFails(t) \/ Insert(t)
          \/ \E can_keep \in BOOLEAN : Discard(t, can_keep)
          \/ Resume(t) \/ Throw(t)
    \/ \E t \in Cancelable : Cancel(t)
    \/ Clear

Spec == Init /\ [][Next]_vars
-----------------------------------------------------------------------------
(* Properties. *)

\* A resource is lent to one task at a time, the ones in the queue belong to the pool
\* and to nobody else, and one that clear() has dropped never comes back.
PoolAccounts ==
    /\ \A t, u \in Tasks : held[t] # None /\ held[t] = held[u] => t = u
    /\ IsInjective(avail)
    /\ Range(avail) \subseteq set
    /\ \A t \in Tasks : held[t] \notin Range(avail)

\* When all is quiet, and nobody has a resource, nobody waits for one: the resource
\* or the room for a new one that a discard leaves is offered to a waiter that takes
\* it or passes the offer on.
NobodyStuck ==
    (\A t \in Tasks : pc[t] = "idle" \/ (pc[t] = "parked" /\ ~token[t] /\ ~canceled[t]))
    => \A t \in Tasks : pc[t] # "parked"

\* The pool never has more than max_resources.
AtMostMax == Cardinality(set) <= Max
=============================================================================
