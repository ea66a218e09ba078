-------------------------------- MODULE Park --------------------------------
(***************************************************************************)
(* What the task system promises to the code that blocks and wakes tasks   *)
(* (qutex, rendez, join, ioproc): a task has one wake-up token, its _ready *)
(* flag.  ready() gives it the token, from any thread and at any time; a   *)
(* suspended task runs again only by taking its token.  A token given to a *)
(* task that still runs is not lost: it ends the next suspension at once.  *)
(* At most one task of a thread runs at a time.                            *)
(***************************************************************************)
CONSTANTS Threads, Tasks, None

VARIABLES st,    \* where the task is in its life
          token, \* _ready of a task that is alive
          home   \* the thread whose scheduler runs it

vars == <<st, token, home>>

Active(th) == {t \in Tasks : st[t] = "active" /\ home[t] = th}

Init ==
    /\ st = [t \in Tasks |-> IF t \in Threads THEN "active" ELSE "unborn"]
    /\ token = [t \in Tasks |-> FALSE]
    /\ home = [t \in Tasks |-> IF t \in Threads THEN t ELSE None]

\* A new task has its token: it will run.
Spawn(t, th) ==
    /\ st[t] = "unborn"
    /\ st' = [st EXCEPT ![t] = "parked"]
    /\ token' = [token EXCEPT ![t] = TRUE]
    /\ home' = [home EXCEPT ![t] = th]

\* The second token of a task that already holds one disappears.
Ready(t) ==
    /\ st[t] \in {"active", "parked"}
    /\ token' = [token EXCEPT ![t] = TRUE]
    /\ UNCHANGED <<st, home>>

Suspend(t) ==
    /\ st[t] = "active"
    /\ st' = [st EXCEPT ![t] = "parked"]
    /\ \/ UNCHANGED token
       \/ token' = [token EXCEPT ![t] = TRUE]  \* yield
    /\ UNCHANGED home

Resume(t) ==
    /\ st[t] = "parked" /\ token[t]
    /\ Active(home[t]) = {}
    /\ st' = [st EXCEPT ![t] = "active"]
    /\ token' = [token EXCEPT ![t] = FALSE]
    /\ UNCHANGED home

Exit(t) ==
    /\ st[t] = "active"
    /\ st' = [st EXCEPT ![t] = "gone"]
    /\ token' = [token EXCEPT ![t] = FALSE]
    /\ UNCHANGED home

Next == \E t \in Tasks :
    \/ Ready(t) \/ Suspend(t) \/ Resume(t) \/ Exit(t)
    \/ \E th \in Threads : Spawn(t, th)

Spec == Init /\ [][Next]_vars

\* A task with its token runs unless the tasks before it never suspend.
FairSpec == Spec /\ \A t \in Tasks : SF_vars(Resume(t))
=============================================================================
