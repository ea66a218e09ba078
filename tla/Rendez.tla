------------------------------- MODULE Rendez -------------------------------
(***************************************************************************)
(* rendez, the condition variable for tasks (src/rendez.cc), with tasks    *)
(* that use it as the library does: a waiter sleeps in the loop of         *)
(* sleep(lk, pred) until there is an item and takes it, a signaler adds an *)
(* item under the qutex and calls wakeup() or wakeupall().                 *)
(*                                                                         *)
(* A critical section of the std::mutex _m is one action.  The calls of    *)
(* ready() come after it, so other steps may fall in between.              *)
(***************************************************************************)
EXTENDS Naturals, Sequences, Functions, Queues

CONSTANTS Waiters, Signalers, None, MaxItems,
          Canceled,   \* the waiters that may be canceled
          Deadlined,  \* the waiters that may meet a deadline
          OneThread   \* all tasks run on one thread

VARIABLES holder,   \* the task that holds the qutex
          items,    \* what the waiters wait for
          waiting,  \* _waiting
          pc,       \* where a task is in its call
          popped,   \* the tasks that a task took from _waiting and has still to ready
          token,    \* _ready of a waiter
          canceled, \* _canceled of a waiter
          late      \* _exception of a waiter: a deadline has passed

vars == <<holder, items, waiting, pc, popped, token, canceled, late>>

Everyone == Waiters \cup Signalers

Init ==
    /\ holder = None
    /\ items = 0
    /\ waiting = <<>>
    /\ pc = [t \in Everyone |-> "idle"]
    /\ popped = [t \in Everyone |-> <<>>]
    /\ token = [t \in Waiters |-> FALSE]
    /\ canceled = [t \in Waiters |-> FALSE]
    /\ late = [t \in Waiters |-> FALSE]

Goto(t, place) == pc' = [pc EXCEPT ![t] = place]

\* qutex::lock: at the first call, and again at the end of sleep(), where no
\* cancellation_point is open and nothing throws.  When the task has to wait for the
\* qutex, it uses up a token it may hold.
Lock(t) ==
    /\ pc[t] \in {"idle", "relock"}
    /\ holder = None
    /\ holder' = t
    /\ Goto(t, "locked")
    /\ token' \in {token, [token EXCEPT ![t] = FALSE]}
    /\ UNCHANGED <<items, waiting, popped, canceled, late>>

\* pred() holds: the waiter takes an item and unlocks.
Take(t) ==
    /\ pc[t] = "locked"
    /\ items > 0
    /\ items' = items - 1
    /\ holder' = None
    /\ Goto(t, "idle")
    /\ UNCHANGED <<waiting, popped, token, canceled, late>>

\* The task joins the list while it holds the qutex.
Push(t) ==
    /\ pc[t] = "locked"
    /\ items = 0
    /\ waiting' = Append(waiting, t)
    /\ Goto(t, "pushed")
    /\ UNCHANGED <<holder, items, popped, token, canceled, late>>

Unlock(t) ==
    /\ pc[t] = "pushed"
    /\ holder' = None
    /\ Goto(t, "swap")
    /\ UNCHANGED <<items, waiting, popped, token, canceled, late>>

\* check_canceled throws and takes the exception of a deadline with it.
Throw(t) ==
    /\ canceled[t] \/ late[t]
    /\ late' = IF canceled[t] THEN late ELSE [late EXCEPT ![t] = FALSE]
    /\ Goto(t, "catch")

\* swap(), before and after the suspension.
Swap(t) ==
    /\ pc[t] = "swap"
    /\ \/ Throw(t)
       \/ ~(canceled[t] \/ late[t]) /\ Goto(t, "parked") /\ UNCHANGED late
    /\ UNCHANGED <<holder, items, waiting, popped, token, canceled>>

Resume(t) ==
    /\ pc[t] = "parked"
    /\ token[t]
    /\ token' = [token EXCEPT ![t] = FALSE]
    /\ \/ Throw(t)
       \/ ~(canceled[t] \/ late[t]) /\ Goto(t, "relock") /\ UNCHANGED late
    /\ UNCHANGED <<holder, items, waiting, popped, canceled>>

\* Mutant of Catch: a task that was woken and canceled keeps the wake-up.
CatchKeeps(t) ==
    /\ pc[t] = "catch"
    /\ waiting' = Erase(waiting, t)
    /\ Goto(t, "pass")
    /\ UNCHANGED <<holder, items, popped, token, canceled, late>>

\* The exception: the task leaves the list; when it was woken already, it takes the
\* next task from the list to pass the wake-up on.
Catch(t) ==
    /\ pc[t] = "catch"
    /\ IF t \in Range(waiting)
          THEN waiting' = Without(waiting, t) /\ UNCHANGED popped
          ELSE IF waiting = <<>> THEN UNCHANGED <<waiting, popped>>
          ELSE /\ popped' = [popped EXCEPT ![t] = <<Head(waiting)>>]
               /\ waiting' = Tail(waiting)
    /\ Goto(t, "pass")
    /\ UNCHANGED <<holder, items, token, canceled, late>>

\* The call of ready() for the next of the tasks that t took from the list.
Ready(t) ==
    /\ popped[t] # <<>>
    /\ token' = [token EXCEPT ![Head(popped[t])] = TRUE]
    /\ popped' = [popped EXCEPT ![t] = Tail(popped[t])]
    /\ UNCHANGED <<holder, items, waiting, pc, canceled, late>>

\* sleep() throws: a canceled task ends, one with a deadline goes on.
Rethrow(t) ==
    /\ pc[t] = "pass"
    /\ popped[t] = <<>>
    /\ Goto(t, IF canceled[t] THEN "gone" ELSE "idle")
    /\ UNCHANGED <<holder, items, waiting, popped, token, canceled, late>>

\* A signaler adds an item under the qutex.
Put(t) ==
    /\ pc[t] = "idle"
    /\ holder = None
    /\ items < MaxItems
    /\ items' = items + 1
    /\ Goto(t, "signal")
    /\ UNCHANGED <<holder, waiting, popped, token, canceled, late>>

\* Mutant of Wakeup: the task that is woken stays in the list.
WakeupPeeks(t) ==
    /\ pc[t] = "signal"
    /\ popped' = [popped EXCEPT ![t] = IF waiting = <<>> THEN <<>> ELSE <<Head(waiting)>>]
    /\ Goto(t, "woke")
    /\ UNCHANGED <<holder, items, waiting, token, canceled, late>>

Wakeup(t) ==
    /\ pc[t] = "signal"
    /\ IF waiting = <<>> THEN UNCHANGED <<waiting, popped>>
       ELSE /\ popped' = [popped EXCEPT ![t] = <<Head(waiting)>>]
            /\ waiting' = Tail(waiting)
    /\ Goto(t, "woke")
    /\ UNCHANGED <<holder, items, token, canceled, late>>

Wakeupall(t) ==
    /\ pc[t] = "signal"
    /\ popped' = [popped EXCEPT ![t] = waiting]
    /\ waiting' = <<>>
    /\ Goto(t, "woke")
    /\ UNCHANGED <<holder, items, token, canceled, late>>

WakeupReturns(t) ==
    /\ pc[t] = "woke"
    /\ popped[t] = <<>>
    /\ Goto(t, "idle")
    /\ UNCHANGED <<holder, items, waiting, popped, token, canceled, late>>

Cancel(t) ==
    /\ ~canceled[t] /\ pc[t] # "gone"
    /\ canceled' = [canceled EXCEPT ![t] = TRUE]
    /\ token' = [token EXCEPT ![t] = TRUE]
    /\ UNCHANGED <<holder, items, waiting, pc, popped, late>>

\* A deadline passes.  The scheduler of the task sees it, so the task is suspended,
\* here or in the qutex, which uses the token up.
Deadline(t) ==
    /\ ~late[t] /\ pc[t] \in {"parked", "relock"}
    /\ late' = [late EXCEPT ![t] = TRUE]
    /\ token' = [token EXCEPT ![t] = @ \/ pc[t] = "parked"]
    /\ UNCHANGED <<holder, items, waiting, pc, popped, canceled>>

WaiterStep(t) ==
    \/ Take(t) \/ Push(t) \/ Unlock(t) \/ Swap(t) \/ Resume(t) \/ Catch(t) \/ Rethrow(t)

SignalerStep(t) == Wakeup(t) \/ Wakeupall(t) \/ WakeupReturns(t)

\* On one thread a task runs until it suspends itself.
MayRun(others) ==
    OneThread => \A u \in others : pc[u] \in {"idle", "parked", "relock", "gone"}

Next ==
    \/ \E t \in Everyone : MayRun(Everyone \ {t}) /\ Ready(t)
    \/ \E t \in Waiters : MayRun(Everyone \ {t}) /\ (Lock(t) \/ WaiterStep(t))
    \/ \E t \in Signalers : MayRun(Everyone \ {t}) /\ (Put(t) \/ SignalerStep(t))
    \/ \E t \in Canceled : MayRun(Everyone) /\ Cancel(t)
    \/ \E t \in Deadlined : MayRun(Everyone) /\ Deadline(t)

Spec == Init /\ [][Next]_vars

\* The scheduler runs every task that is not suspended, and the qutex is handed
\* over in the order of arrival: a task that wants it does not wait forever.
FairSpec ==
    /\ Spec
    /\ \A t \in Waiters : WF_vars(WaiterStep(t)) /\ SF_vars(pc[t] = "relock" /\ Lock(t))
    /\ \A t \in Signalers : WF_vars(SignalerStep(t))
    /\ \A t \in Everyone : WF_vars(Ready(t))
-----------------------------------------------------------------------------
(* Properties. *)

InSleep == {"pushed", "swap", "parked", "relock", "catch", "pass"}

\* The DCHECK of sleep(): a task that joins the list is not in it yet; and a task in
\* the list is inside sleep(), so no wake-up goes to a task that does not wait.
WaitsOnce ==
    /\ IsInjective(waiting)
    /\ \A t \in Range(waiting) : pc[t] \in InSleep \ {"relock", "pass"}

\* When all is quiet no task sleeps although there is an item: the wake-up of a task
\* that was canceled at the same time is passed on, and no wake-up comes between the
\* check of the predicate and the sleep.
RendezNoLostSignal ==
    (/\ holder = None
     /\ \A t \in Signalers : pc[t] = "idle"
     /\ \A t \in Waiters : pc[t] \in {"idle", "gone"} \/ (pc[t] = "parked" /\ ~token[t]))
    => items = 0 \/ \A t \in Waiters : pc[t] # "parked"

\* What ready() touches is still a task: wakeup() and the exception path of sleep()
\* call it for tasks they have taken from the list.
ReadiesLiveTask ==
    \A t \in Everyone : \A i \in DOMAIN popped[t] : pc[popped[t][i]] # "gone"

\* A sleeping task does not sleep on while an item stays for it.
SleeperServed ==
    \A t \in Waiters : pc[t] = "parked" /\ items > 0 ~> pc[t] # "parked" \/ items = 0
=============================================================================
