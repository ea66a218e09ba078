------------------------------ MODULE FifoLock ------------------------------
(***************************************************************************)
(* What a qutex promises: the tasks that want it stand in line, the first  *)
(* one holds it, and it is handed over in the order of arrival.  A task    *)
(* may leave the line when it is interrupted.                              *)
(***************************************************************************)
EXTENDS Sequences, Functions, Queues

CONSTANTS Tasks

VARIABLES line,  \* the tasks that hold or want the lock
          inside \* the tasks that have returned from lock()

vars == <<line, inside>>

Init == line = <<>> /\ inside = {}

Arrive(t) ==
    /\ t \notin Range(line)
    /\ line' = Append(line, t)
    /\ \/ UNCHANGED inside
       \/ line = <<>> /\ inside' = inside \cup {t}

Enter(t) ==
    /\ line # <<>> /\ Head(line) = t
    /\ inside' = inside \cup {t}
    /\ UNCHANGED line

Release(t) ==
    /\ t \in inside
    /\ inside' = inside \ {t}
    /\ line' = Tail(line)

GiveUp(t) ==
    /\ t \in Range(line) \ inside
    /\ line' = Without(line, t)
    /\ UNCHANGED inside

Next == \E t \in Tasks : Arrive(t) \/ Enter(t) \/ Release(t) \/ GiveUp(t)

Spec == Init /\ [][Next]_vars
=============================================================================
