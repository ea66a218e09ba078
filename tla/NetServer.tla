------------------------------- MODULE NetServer -------------------------------
(***************************************************************************)
(* netsock_server (include/ten/net.hh): the threads that accept            *)
(* connections on one listening socket, and the tasks that they spawn for  *)
(* them.                                                                   *)
(***************************************************************************)
EXTENDS Naturals

CONSTANTS Threads, Caller, \* the threads of serve, and the one that called it
          Conns, None,
          MaxFails,        \* how many times accept and spawn fail
          Throws           \* is accept_loop left by an exception: the process is
                           \* shutting down, or a standard descriptor was closed

VARIABLES listening, \* the socket has not been shut down
          connected, \* all connections ever made
          pending,   \* connections to be accepted
          thread,    \* a thread's step, and the connection in its hand
          served,    \* connections with a task
          closed,    \* connections that have been closed
          fails

vars == <<listening, connected, pending, thread, served, closed, fails>>

Init ==
    /\ listening = TRUE
    /\ connected = {} /\ pending = {} /\ served = {} /\ closed = {} /\ fails = 0
    /\ thread = [t \in Threads |-> [pc |-> "accept", conn |-> None]]

Go(t, pc) == thread' = [thread EXCEPT ![t] = [pc |-> pc, conn |-> None]]

Connect(c) ==
    /\ listening
    /\ c \notin connected
    /\ connected' = connected \cup {c}
    /\ pending' = pending \cup {c}
    /\ UNCHANGED <<listening, thread, served, closed, fails>>

Accept(t) ==
    /\ thread[t].pc = "accept" /\ listening
    /\ \E c \in pending :
          /\ pending' = pending \ {c}
          /\ thread' = [thread EXCEPT ![t] = [pc |-> "spawn", conn |-> c]]
    /\ UNCHANGED <<listening, connected, served, closed, fails>>

\* accept fails for want of resources, and the loop sleeps; or in another way, and it
\* yields.  It fails forever once the socket is shut down.
AcceptFails(t) ==
    /\ thread[t].pc = "accept"
    /\ \/ ~listening /\ UNCHANGED fails
       \/ listening /\ fails < MaxFails /\ fails' = fails + 1
    /\ Go(t, "sleep")
    /\ UNCHANGED <<listening, connected, pending, served, closed>>

\* Mutant of Sleep: after a failure the delay never ends.
SleepLong(t) ==
    /\ thread[t].pc = "sleep"
    /\ Go(t, IF fails > 0 THEN "sleep" ELSE "accept")
    /\ UNCHANGED <<listening, connected, pending, served, closed, fails>>

Sleep(t) ==
    /\ thread[t].pc = "sleep"
    /\ Go(t, "accept")
    /\ UNCHANGED <<listening, connected, pending, served, closed, fails>>

\* The task is interrupted in accept; or the descriptor is that of a standard stream,
\* which is closed.
AcceptThrows(t) ==
    /\ Throws
    /\ thread[t].pc = "accept"
    /\ \/ UNCHANGED <<pending, closed>>
       \/ \E c \in pending : pending' = pending \ {c} /\ closed' = closed \cup {c}
    /\ Go(t, "thrown")
    /\ UNCHANGED <<listening, connected, served, fails>>

Spawn(t) ==
    /\ thread[t].pc = "spawn"
    /\ served' = served \cup {thread[t].conn}
    /\ Go(t, "sleep")
    /\ UNCHANGED <<listening, connected, pending, closed, fails>>

\* Mutant of SpawnFails: the connection is forgotten.
SpawnFailsOpen(t) ==
    /\ thread[t].pc = "spawn" /\ fails < MaxFails
    /\ fails' = fails + 1
    /\ Go(t, "sleep")
    /\ UNCHANGED <<listening, connected, pending, served, closed>>

\* There is no memory for the task: the loop goes on after a while.
SpawnFails(t) ==
    /\ thread[t].pc = "spawn" /\ fails < MaxFails
    /\ fails' = fails + 1
    /\ closed' = closed \cup {thread[t].conn}
    /\ Go(t, "sleep")
    /\ UNCHANGED <<listening, connected, pending, served>>

\* client_task: on_connection returns or throws, and the socket is closed.
ClientDone(c) ==
    /\ c \in served
    /\ served' = served \ {c}
    /\ closed' = closed \cup {c}
    /\ UNCHANGED <<listening, connected, pending, thread, fails>>

\* An exception ends a thread; serve shuts the socket down and joins the others.
Thrown(t) ==
    /\ thread[t].pc = "thrown"
    /\ listening' = (listening /\ t # Caller)
    /\ Go(t, IF t = Caller THEN "join" ELSE "ended")
    /\ UNCHANGED <<connected, pending, served, closed, fails>>

Join ==
    /\ thread[Caller].pc = "join"
    /\ \A t \in Threads \ {Caller} : thread[t].pc = "ended"
    /\ Go(Caller, "ended")
    /\ UNCHANGED <<listening, connected, pending, served, closed, fails>>

\* serve has returned, or waits for connections.
Rest ==
    /\ closed = Conns \/ \A t \in Threads : thread[t].pc = "ended"
    /\ UNCHANGED vars

Step(t) ==
    Accept(t) \/ AcceptFails(t) \/ Sleep(t) \/ Spawn(t) \/ SpawnFails(t) \/ Thrown(t)

Next ==
    \/ \E c \in Conns : Connect(c) \/ ClientDone(c)
    \/ \E t \in Threads : Step(t) \/ AcceptThrows(t)
    \/ Join \/ Rest

\* The threads run.
Spec == Init /\ [][Next]_vars /\ WF_vars(Join) /\ \A t \in Threads : WF_vars(Step(t))
-----------------------------------------------------------------------------
(* Properties. *)

\* A connection that was made waits to be accepted, or is in the hand of a thread, or has a
\* task, or has been closed, whatever fails on the way.
NoneLost ==
    connected = pending \cup served \cup closed \cup ({thread[t].conn : t \in Threads} \ {None})

\* Every connection is accepted, and gets its task unless there is no memory for one.
Served == \A c \in Conns : c \in pending ~> c \in served \cup closed

\* When an exception ends serve's own loop, the other threads quit and serve returns.
ServeReturns == thread[Caller].pc = "join" ~> thread[Caller].pc = "ended"
=============================================================================
