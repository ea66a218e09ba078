------------------------------ MODULE MCRendez ------------------------------
(***************************************************************************)
(* The rendez: its tasks on threads of their own, or all on one thread,    *)
(* where they may have deadlines as well.                                  *)
(***************************************************************************)
EXTENDS Rendez

CONSTANTS Timed,  \* the waiters on one thread that may meet a deadline
          Parts   \* what a run checks

VARIABLE part  \* where the tasks of this behaviour run

OnOne == INSTANCE Rendez WITH Deadlined <- Timed, OneThread <- TRUE

Start == part \in Parts /\ Init

Steps ==
    /\ \/ part = "threads" /\ Next
       \/ part = "one_thread" /\ OnOne!Next
    /\ UNCHANGED part

Safe == Start /\ [][Steps]_<<part, vars>>
=============================================================================
