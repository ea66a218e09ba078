----------------------------- MODULE MCScheduler -----------------------------
(***************************************************************************)
(* Two threads and programs for their tasks.  A behaviour runs one         *)
(* program, that of its part, and the state spaces add up.                 *)
(***************************************************************************)
EXTENDS Scheduler, TLC

CONSTANTS main, worker, a, b,
          Parts  \* the programs a run checks

VARIABLE part    \* the program of this behaviour

\* Tasks of both threads suspend themselves and wake one another.
WakeProgram ==
    main :> {"spawn", "wake", "exit"} @@ worker :> {"spawn", "wake", "exit"}
    @@ a :> {"swap", "exit"} @@ b :> {"yield", "safe_swap", "wake", "exit"}

\* Tasks are canceled, by tasks of either thread, and their deadlines pass.
CancelProgram ==
    main :> {"spawn", "cancel", "exit"} @@ worker :> {"spawn", "exit"}
    @@ a :> {"sleep", "deadline", "exit"} @@ b :> {"poll", "cancel", "exit"}

\* Tasks of both threads join one another.
JoinProgram ==
    main :> {"spawn", "exit"} @@ worker :> {"spawn", "join", "exit"}
    @@ a :> {"join", "sleep", "exit"} @@ b :> {"yield", "exit"}

\* A task shuts the system down while the task of another thread waits for io.
ShutdownProgram ==
    main :> {"spawn", "shutdown", "exit"} @@ worker :> {"spawn", "exit"}
    @@ a :> {"poll", "exit"}

\* The same while the other thread waits on its condition variable.
QuietProgram ==
    main :> {"shutdown", "exit"} @@ worker :> {"spawn", "exit"} @@ a :> {"swap", "exit"}

Wakes == INSTANCE Scheduler WITH Program <- WakeProgram
Cancels == INSTANCE Scheduler WITH Program <- CancelProgram
Joins == INSTANCE Scheduler WITH Program <- JoinProgram
Shuts == INSTANCE Scheduler WITH Program <- ShutdownProgram, UserTasks <- {a}  \* b is never born
Quiet == INSTANCE Scheduler WITH Program <- QuietProgram, UserTasks <- {a}

Start == part \in Parts /\ Init

Steps ==
    /\ \/ part = "wake" /\ Wakes!Next
       \/ part = "cancel" /\ Cancels!Next
       \/ part = "join" /\ Joins!Next
       \/ part = "shutdown" /\ Shuts!Next
       \/ part = "quiet" /\ Quiet!Next
    /\ UNCHANGED part

Safe == Start /\ [][Steps]_<<vars, part>>

(* The fairness of Scheduler, with the calls that the program makes.       *)
Blocks(th) ==
    \/ part = "join" /\ Joins!BlockOrEnd(th)
    \/ part = "shutdown" /\ Shuts!BlockOrEnd(th)
    \/ part = "quiet" /\ Quiet!BlockOrEnd(th)

Fair ==
    /\ Safe
    /\ \A th \in Threads : /\ WF_vars(LibraryStep(th))
                           /\ SF_vars(Blocks(th))
                           /\ SF_vars(Wakeup(th))
                           /\ SF_vars(FireAlarm(th))
                           /\ WF_vars(CvTimeout(th) \/ IoWake(th))
-----------------------------------------------------------------------------
=============================================================================
