-------------------------------- MODULE Qutex --------------------------------
(***************************************************************************)
(* qutex, the mutex for tasks (src/qutex.cc), over the wake-up tokens that *)
(* Park specifies.  Every critical section of the std::mutex _m is one     *)
(* action: the ready() that unlock makes inside it gives a token.          *)
(*                                                                         *)
(* A task of Cancelable calls lock() with a cancellation_point open, which *)
(* a DCHECK forbids but a release build lets happen: its swap() throws     *)
(* when the task was canceled or its deadline has passed.                  *)
(***************************************************************************)
EXTENDS Naturals, Sequences, Functions, Queues

CONSTANTS Tasks, None, Cancelable

ASSUME QutexAssumption == None \notin Tasks /\ Cancelable \subseteq Tasks

VARIABLES owner,       \* _owner
          waiting,     \* _waiting
          pc,          \* where the task is in its call
          token,       \* _ready of the task
          interrupted  \* swap() of the task throws

vars == <<owner, waiting, pc, token, interrupted>>

\* swap: in the loop of lock(); parked: suspended; check: woken, before _m.
Places == {"idle", "swap", "parked", "check", "giveup", "holds"}

\* Mutant of Init: the constructor leaves _owner uninitialized.
InitUnset ==
    /\ owner = "unset"
    /\ waiting = <<>>
    /\ pc = [t \in Tasks |-> "idle"]
    /\ token = [t \in Tasks |-> FALSE]
    /\ interrupted = [t \in Tasks |-> FALSE]

Init ==
    /\ owner = None
    /\ waiting = <<>>
    /\ pc = [t \in Tasks |-> "idle"]
    /\ token = [t \in Tasks |-> FALSE]
    /\ interrupted = [t \in Tasks |-> FALSE]

Goto(t, place) == pc' = [pc EXCEPT ![t] = place]

Lock(t) ==
    /\ pc[t] = "idle"
    /\ IF owner = None
          THEN owner' = t /\ Goto(t, "holds") /\ UNCHANGED waiting
          ELSE waiting' = Append(waiting, t) /\ Goto(t, "swap") /\ UNCHANGED owner
    /\ UNCHANGED <<token, interrupted>>

\* try_lock of a free qutex; otherwise, or when another task is inside _m at the
\* moment, it returns false and changes nothing.
TryLock(t) ==
    /\ pc[t] = "idle"
    /\ owner = None
    /\ owner' = t
    /\ Goto(t, "holds")
    /\ UNCHANGED <<waiting, token, interrupted>>

\* check_canceled: the flag of a deadline is taken, the one of a cancel stays.
Throw(t) ==
    /\ Goto(t, "giveup")
    /\ \/ UNCHANGED interrupted
       \/ interrupted' = [interrupted EXCEPT ![t] = FALSE]

Throws(t) == t \in Cancelable /\ interrupted[t]

\* swap() or safe_swap().
Swap(t) ==
    /\ pc[t] = "swap"
    /\ IF Throws(t) THEN Throw(t) ELSE Goto(t, "parked") /\ UNCHANGED interrupted
    /\ UNCHANGED <<owner, waiting, token>>

\* Any token ends the suspension.
Resume(t) ==
    /\ pc[t] = "parked"
    /\ token[t]
    /\ token' = [token EXCEPT ![t] = FALSE]
    /\ IF Throws(t) THEN Throw(t) ELSE Goto(t, "check") /\ UNCHANGED interrupted
    /\ UNCHANGED <<owner, waiting>>

\* Mutant of Check: every wake-up is taken for the hand-over.
CheckNothing(t) ==
    /\ pc[t] = "check"
    /\ Goto(t, "holds")
    /\ UNCHANGED <<owner, waiting, token, interrupted>>

\* The loop that handles spurious wake-ups.
Check(t) ==
    /\ pc[t] = "check"
    /\ Goto(t, IF owner = t THEN "holds" ELSE "swap")
    /\ UNCHANGED <<owner, waiting, token, interrupted>>

\* Mutants of UnlockOrGiveup: a task that gives up forgets the lock it was given;
\* the new owner is not made ready; the last waiter is served first.
GiveupOnly(t) ==
    IF pc[t] = "holds"
       THEN IF waiting = <<>> THEN owner' = None /\ UNCHANGED <<waiting, token>>
            ELSE /\ owner' = Head(waiting) /\ waiting' = Tail(waiting)
                 /\ token' = [token EXCEPT ![Head(waiting)] = TRUE]
       ELSE waiting' = Erase(waiting, t) /\ UNCHANGED <<owner, token>>

UnlockSilently(t) ==
    IF owner = t
       THEN IF waiting = <<>> THEN owner' = None /\ UNCHANGED <<waiting, token>>
            ELSE owner' = Head(waiting) /\ waiting' = Tail(waiting) /\ UNCHANGED token
       ELSE waiting' = Erase(waiting, t) /\ UNCHANGED <<owner, token>>

UnlockLast(t) ==
    IF owner = t
       THEN IF waiting = <<>> THEN owner' = None /\ UNCHANGED <<waiting, token>>
            ELSE LET next == waiting[Len(waiting)] IN
                 /\ owner' = next /\ waiting' = Without(waiting, next)
                 /\ token' = [token EXCEPT ![next] = TRUE]
       ELSE waiting' = Erase(waiting, t) /\ UNCHANGED <<owner, token>>

\* The owner hands the lock to the first waiter and makes it ready; a task that is
\* not the owner leaves the list.
UnlockOrGiveup(t) ==
    IF owner = t
       THEN IF waiting = <<>> THEN owner' = None /\ UNCHANGED <<waiting, token>>
            ELSE /\ owner' = Head(waiting) /\ waiting' = Tail(waiting)
                 /\ token' = [token EXCEPT ![Head(waiting)] = TRUE]
       ELSE waiting' = Erase(waiting, t) /\ UNCHANGED <<owner, token>>

Unlock(t) ==
    /\ pc[t] = "holds"
    /\ UnlockOrGiveup(t)
    /\ Goto(t, "idle")
    /\ UNCHANGED interrupted

\* The catch block of lock().
GiveUp(t) ==
    /\ pc[t] = "giveup"
    /\ UnlockOrGiveup(t)
    /\ Goto(t, "idle")
    /\ UNCHANGED interrupted

\* Other code makes the task ready: a late wake-up, the end of a timeout.
Spurious(t) ==
    /\ ~token[t]
    /\ token' = [token EXCEPT ![t] = TRUE]
    /\ UNCHANGED <<owner, waiting, pc, interrupted>>

\* The task is canceled or its deadline passes.
Interrupt(t) ==
    /\ ~interrupted[t]
    /\ interrupted' = [interrupted EXCEPT ![t] = TRUE]
    /\ token' = [token EXCEPT ![t] = TRUE]
    /\ UNCHANGED <<owner, waiting, pc>>

Step(t) == Swap(t) \/ Resume(t) \/ Check(t) \/ GiveUp(t) \/ Unlock(t)

Next == \E t \in Tasks : Step(t) \/ Lock(t) \/ TryLock(t) \/ Spurious(t) \/ Interrupt(t)

Spec == Init /\ [][Next]_vars

\* The scheduler runs every task that holds its token, and a task that holds the
\* lock unlocks it.
FairSpec == Spec /\ \A t \in Tasks : WF_vars(Step(t))
-----------------------------------------------------------------------------
(* Properties. *)

InLock == {"swap", "parked", "check", "giveup"}

TypeOK ==
    /\ owner \in Tasks \cup {None}
    /\ waiting \in Seq(Tasks)
    /\ pc \in [Tasks -> Places]
    /\ token \in [Tasks -> BOOLEAN]
    /\ interrupted \in [Tasks -> BOOLEAN]

\* Two tasks never hold the qutex at once, whatever spurious wake-ups, cancels and
\* deadlines hit the tasks that wait in lock().
MutualExclusion ==
    \A t, u \in Tasks : pc[t] = "holds" /\ pc[u] = "holds" => t = u

\* A task that was handed the lock before it was suspended, or since, holds a wake-up
\* token; a free qutex has nobody waiting; a task inside lock() is in the list or the
\* owner.  So the lock is never handed to a task that will not take it or pass it on.
HandOver ==
    /\ owner = None => waiting = <<>>
    /\ owner # None => pc[owner] \in InLock \cup {"holds"}
    /\ owner # None /\ pc[owner] \in {"swap", "parked"} => token[owner]
    /\ \A t \in Tasks : pc[t] \in InLock => t = owner \/ t \in Range(waiting)

\* A qutex is a lock that is handed over in the order of arrival.
Lines == INSTANCE FifoLock WITH
             line   <- IF owner = None THEN <<>> ELSE PushFront(waiting, owner),
             inside <- {t \in Tasks : pc[t] = "holds"}

ImplementsFifoLock == Lines!Spec

\* Every task that calls lock() gets the qutex, or gives up because it was
\* interrupted.
LockReturns == \A t \in Tasks : pc[t] \in InLock ~> pc[t] \notin InLock
=============================================================================
