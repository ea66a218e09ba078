----------------------------- MODULE MCLockFree -----------------------------
(***************************************************************************)
(* The queues that threads share without the scheduler: the bounded queue  *)
(* and the deque that is stolen from.  A behaviour runs one of them, the   *)
(* other keeps its initial state, and the state spaces add up.             *)
(***************************************************************************)
EXTENDS MpmcQueue, TLC

CONSTANTS p1, p2, c1, c2, v, w, h1, h2, Garbage, Parts  \* Parts: what a run checks

VARIABLES part,  \* the component that this behaviour runs
          d_top, d_bottom, d_array, d_arrays, d_late, d_owner, d_thief, d_pushed,
          d_got

Symmetric == Permutations({p1, p2}) \cup Permutations({c1, c2}) \cup Permutations({v, w})
             \cup Permutations({h1, h2})


Deque == INSTANCE WorkDeque WITH
    Thieves <- {h1, h2}, Word <- 64, LogSize <- 2, MaxItems <- 3,
    Reorders <- FALSE, TakesFresh <- FALSE, top <- d_top, bottom <- d_bottom,
    array <- d_array, arrays <- d_arrays, late <- d_late, owner <- d_owner,
    thief <- d_thief, pushed <- d_pushed, got <- d_got
Grow == INSTANCE WorkDeque WITH
    Thieves <- {h1, h2}, Word <- 64, LogSize <- 1, MaxItems <- 3,
    Reorders <- FALSE, TakesFresh <- FALSE, top <- d_top, bottom <- d_bottom,
    array <- d_array, arrays <- d_arrays, late <- d_late, owner <- d_owner,
    thief <- d_thief, pushed <- d_pushed, got <- d_got
Single == INSTANCE WorkDeque WITH
    Thieves <- {h1, h2}, Word <- 64, LogSize <- 2, MaxItems <- 1, Reorders <- TRUE,
    TakesFresh <- FALSE, top <- d_top, bottom <- d_bottom, array <- d_array,
    arrays <- d_arrays, late <- d_late, owner <- d_owner, thief <- d_thief,
    pushed <- d_pushed, got <- d_got

mpmcVars == <<seq, data, enqueue_pos, dequeue_pos, thread, sent>>
dequeVars == <<d_top, d_bottom, d_array, d_arrays, d_late, d_owner, d_thief,
               d_pushed, d_got>>
NotMpmc == <<part, dequeVars>>
NotDeque == <<part, mpmcVars>>
allVars == <<part, mpmcVars, dequeVars>>

Start ==
    /\ part \in Parts
    /\ Init
    /\ IF part = "grow" THEN Grow!Init
       ELSE IF part = "single" THEN Single!Init
       ELSE Deque!Init

Steps ==
    \/ part = "mpmc" /\ Next /\ UNCHANGED NotMpmc
    \/ part = "deque" /\ Deque!Next /\ UNCHANGED NotDeque
    \/ part = "grow" /\ Grow!Next /\ UNCHANGED NotDeque
    \/ part = "single" /\ Single!Next /\ UNCHANGED NotDeque

Safe == Start /\ [][Steps]_allVars
-----------------------------------------------------------------------------
(* Properties: those of the modules, of the component that runs.           *)


=============================================================================
