--------------------------------- MODULE Fifo ---------------------------------
(***************************************************************************)
(* What a queue promises: one step puts an item in at the back, one step   *)
(* takes the item at the front.                                            *)
(***************************************************************************)
EXTENDS Naturals, Sequences

CONSTANT Items

VARIABLES waiting, taken

Init == waiting = <<>> /\ taken = <<>>

Put == \E i \in Items : waiting' = Append(waiting, i) /\ UNCHANGED taken

Get ==
    /\ waiting # <<>>
    /\ taken' = Append(taken, Head(waiting))
    /\ waiting' = Tail(waiting)

Spec == Init /\ [][Put \/ Get]_<<waiting, taken>>
=============================================================================
