------------------------------- MODULE Channel -------------------------------
(***************************************************************************)
(* channel<T> (include/ten/channel.hh).  What a call does between the lock *)
(* and the unlock of qtx is one action.  A task that sleeps on a rendez is *)
(* in its list until it is woken or throws; as Rendez shows, a wake-up may *)
(* be given in the step that takes the task from the list as long as tasks *)
(* are only canceled.                                                      *)
(***************************************************************************)
EXTENDS Naturals, Sequences, Functions, Queues

CONSTANTS Senders, Receivers,
          Cancelable, \* the tasks that may be canceled
          Capacity,   \* capacity; 1 is the synchronous mode
          MaxSends,   \* bound: how many items each sender sends
          Closes,     \* whether somebody calls close()
          Clears      \* whether somebody calls clear()

VARIABLES queue,     \* queue
          closed,    \* closed
          not_empty, \* the list of the rendez not_empty
          not_full,  \* the list of the rendez not_full
          call,      \* the loop a task is in: send, sync (send, after the push), recv
          at,        \* where it is there: idle, parked, relock
          token,     \* _ready of the task
          canceled,  \* _canceled of the task
          sent,      \* how many items a sender has pushed
          got        \* the items that were received

vars == <<queue, closed, not_empty, not_full, call, at, token, canceled, sent, got>>

Callers == Senders \cup Receivers

Init ==
    /\ queue = <<>> /\ closed = FALSE
    /\ not_empty = <<>> /\ not_full = <<>>
    /\ call = [t \in Callers |-> "none"]
    /\ at = [t \in Callers |-> "idle"]
    /\ token = [t \in Callers |-> FALSE]
    /\ canceled = [t \in Callers |-> FALSE]
    /\ sent = [t \in Senders |-> 0]
    /\ got = {}

is_empty == queue = <<>>
is_full == Len(queue) >= Capacity
synchronous == Capacity = 1

\* rendez::wakeup and wakeupall: a list after it, and the tasks that get a token.
Rest(list) == IF list = <<>> THEN <<>> ELSE Tail(list)
First(list) == IF list = <<>> THEN {} ELSE {Head(list)}
Wake(woken) == token' = [t \in Callers |-> token[t] \/ t \in woken]

\* The task sleeps in loop c, or its call ends.
Sleeps(t, c) == call' = [call EXCEPT ![t] = c] /\ at' = [at EXCEPT ![t] = "parked"]
Returns(t) == call' = [call EXCEPT ![t] = "none"] /\ at' = [at EXCEPT ![t] = "idle"]

Item(t) == <<t, sent[t]>>

\* send(): wait for room.
SendWaits(t) ==
    /\ is_full /\ ~closed
    /\ not_full' = Append(not_full, t)
    /\ Sleeps(t, "send")
    /\ UNCHANGED <<queue, closed, not_empty, token, sent, got>>

\* check_closed() throws.
SendClosed(t) ==
    /\ closed
    /\ Returns(t)
    /\ UNCHANGED <<queue, closed, not_empty, not_full, token, sent, got>>

\* Push, wake a receiver, and wait for recv in synchronous mode.
SendPushes(t) ==
    /\ ~is_full /\ ~closed
    /\ sent' = [sent EXCEPT ![t] = @ + 1]
    /\ queue' = Append(queue, Item(t)')
    /\ not_empty' = Rest(not_empty)
    /\ Wake(First(not_empty))
    /\ IF synchronous
          THEN not_full' = Append(not_full, t) /\ Sleeps(t, "sync")
          ELSE Returns(t) /\ UNCHANGED not_full
    /\ UNCHANGED <<closed, got>>

\* Mutant of Send: the queue is not checked again after the sleep.
SendOnce(t) ==
    \/ at[t] = "idle" /\ SendWaits(t)
    \/ SendClosed(t)
    \/ SendPushes(t)
    \/ /\ at[t] = "relock" /\ ~closed /\ is_full
       /\ sent' = [sent EXCEPT ![t] = @ + 1]
       /\ queue' = Append(queue, Item(t)')
       /\ Returns(t)
       /\ UNCHANGED <<closed, not_empty, not_full, token, got>>

Send(t) == SendWaits(t) \/ SendClosed(t) \/ SendPushes(t)

\* Mutant of Sync: any wake-up is taken for the recv.
SyncOnce(t) ==
    /\ Returns(t)
    /\ UNCHANGED <<queue, closed, not_empty, not_full, token, sent, got>>

\* The second loop of send(): it ends when the queue is not full, or closed.
Sync(t) ==
    IF is_full /\ ~closed
       THEN /\ not_full' = Append(not_full, t) /\ Sleeps(t, "sync")
            /\ UNCHANGED <<queue, closed, not_empty, token, sent, got>>
       ELSE /\ Returns(t)
            /\ UNCHANGED <<queue, closed, not_empty, not_full, token, sent, got>>

RecvWaits(t) ==
    /\ is_empty /\ ~closed
    /\ not_empty' = Append(not_empty, t)
    /\ Sleeps(t, "recv")
    /\ UNCHANGED <<queue, closed, not_full, token, sent, got>>

RecvClosed(t) ==
    /\ is_empty /\ closed
    /\ Returns(t)
    /\ UNCHANGED <<queue, closed, not_empty, not_full, token, sent, got>>

\* Mutant of RecvPops: one sender is woken in synchronous mode as well.
RecvPopsOne(t) ==
    /\ ~is_empty
    /\ got' = got \cup {Head(queue)}
    /\ queue' = Tail(queue)
    /\ not_full' = Rest(not_full) /\ Wake(First(not_full))
    /\ Returns(t)
    /\ UNCHANGED <<closed, not_empty, sent>>

\* Pop, and wake all senders in synchronous mode, or one.
RecvPops(t) ==
    /\ ~is_empty
    /\ got' = got \cup {Head(queue)}
    /\ queue' = Tail(queue)
    /\ IF synchronous
          THEN not_full' = <<>> /\ Wake(Range(not_full))
          ELSE not_full' = Rest(not_full) /\ Wake(First(not_full))
    /\ Returns(t)
    /\ UNCHANGED <<closed, not_empty, sent>>

Recv(t) == RecvWaits(t) \/ RecvClosed(t) \/ RecvPops(t)

\* A call begins, or goes on after lk.lock() of rendez::sleep.
SendCall(t) == at[t] = "idle" /\ sent[t] < MaxSends /\ Send(t) /\ UNCHANGED canceled
RecvCall(t) == at[t] = "idle" /\ Recv(t) /\ UNCHANGED canceled

Relock(t) ==
    /\ at[t] = "relock"
    /\ \/ call[t] = "send" /\ Send(t)
       \/ call[t] = "sync" /\ Sync(t)
       \/ call[t] = "recv" /\ Recv(t)
    /\ UNCHANGED canceled

\* swap() of rendez::sleep returns.
Resume(t) ==
    /\ at[t] = "parked" /\ token[t] /\ ~canceled[t]
    /\ token' = [token EXCEPT ![t] = FALSE]
    /\ at' = [at EXCEPT ![t] = "relock"]
    /\ UNCHANGED <<queue, closed, not_empty, not_full, call, canceled, sent, got>>

\* rendez::sleep throws: the task leaves the list, or passes its wake-up on.
ThrowFrom(t, list) ==
    IF t \in Range(list) THEN <<Without(list, t), {}>> ELSE <<Rest(list), First(list)>>

\* Mutant of Throw: the task takes its wake-up with it.
ThrowAway(t) ==
    /\ at[t] = "parked" /\ canceled[t]
    /\ not_empty' = Erase(not_empty, t) /\ not_full' = Erase(not_full, t)
    /\ Returns(t)
    /\ UNCHANGED <<queue, closed, token, canceled, sent, got>>

Throw(t) ==
    /\ at[t] = "parked" /\ canceled[t]
    /\ IF call[t] = "recv"
          THEN /\ not_empty' = ThrowFrom(t, not_empty)[1]
               /\ Wake(ThrowFrom(t, not_empty)[2]) /\ UNCHANGED not_full
          ELSE /\ not_full' = ThrowFrom(t, not_full)[1]
               /\ Wake(ThrowFrom(t, not_full)[2]) /\ UNCHANGED not_empty
    /\ Returns(t)
    /\ UNCHANGED <<queue, closed, canceled, sent, got>>

\* Mutant of Close: only the receivers are woken.
CloseReceivers ==
    /\ closed' = TRUE
    /\ not_empty' = <<>> /\ Wake(Range(not_empty))
    /\ UNCHANGED <<queue, not_full, call, at, canceled, sent, got>>

Close ==
    /\ closed' = TRUE
    /\ not_empty' = <<>> /\ not_full' = <<>>
    /\ Wake(Range(not_empty) \cup Range(not_full))
    /\ UNCHANGED <<queue, call, at, canceled, sent, got>>

Clear ==
    /\ queue' = <<>>
    /\ not_full' = <<>> /\ Wake(Range(not_full))
    /\ UNCHANGED <<closed, not_empty, call, at, canceled, sent, got>>

Cancel(t) ==
    /\ ~canceled[t]
    /\ canceled' = [canceled EXCEPT ![t] = TRUE]
    /\ Wake({t})
    /\ UNCHANGED <<queue, closed, not_empty, not_full, call, at, sent, got>>

Step(t) == Resume(t) \/ Throw(t) \/ Relock(t)

Next ==
    \/ \E t \in Senders : SendCall(t)
    \/ \E t \in Receivers : RecvCall(t)
    \/ \E t \in Callers : Step(t)
    \/ \E t \in Cancelable : Cancel(t)
    \/ Closes /\ Close
    \/ Clears /\ Clear

Spec == Init /\ [][Next]_vars

\* The scheduler runs every task that has its token.
FairSpec == Spec /\ \A t \in Callers : WF_vars(Step(t))
-----------------------------------------------------------------------------
(* Properties. *)

\* The queue never holds more than the capacity, although a sender that was woken
\* has to wait for the qutex while others push.  A task is in a list once, in the one
\* of its loop, as long as nothing has woken it.
TypeOK ==
    /\ Len(queue) <= Capacity
    /\ IsInjective(not_full) /\ IsInjective(not_empty)
    /\ \A t \in Callers : at[t] = "parked" /\ ~token[t] =>
          t \in Range(IF call[t] = "recv" THEN not_empty ELSE not_full) \/ canceled[t]

\* When all is quiet nobody sleeps who could go on: no receiver while there is an
\* item, no sender while there is room, nobody on a closed channel.  Every wake-up
\* counts, also the ones of tasks that were canceled at the same time.
NobodyStuck ==
    (\A t \in Callers : at[t] = "idle" \/ (at[t] = "parked" /\ ~token[t] /\ ~canceled[t]))
    => \A t \in Callers : at[t] = "parked" =>
          /\ ~closed
          /\ IF call[t] = "recv" THEN is_empty ELSE is_full

\* close() ends every call that waits.
CloseWakes == \A t \in Callers : closed /\ at[t] # "idle" ~> at[t] = "idle"

\* A synchronous send that returns while the channel is open has been received:
\* "unbuffered (synchronous) channels block on every send until recv".
SyncReturn ==
    \A t \in Senders :
        call[t] = "sync" /\ call'[t] = "none" /\ ~canceled[t] /\ ~closed => Item(t) \in got

ChannelSendReceived == [][SyncReturn]_vars

\* And a send whose item was received returns.
SyncSendReturns ==
    \A t \in Senders : call[t] = "sync" /\ Item(t) \in got ~> call[t] # "sync"
=============================================================================
