-------------------------------- MODULE Queues --------------------------------
(* Queues of distinct waiting tasks: std::deque as the task library uses it. *)
EXTENDS Naturals, Sequences, Functions

\* push_front.
PushFront(q, t) == <<t>> \o q

\* find and erase: the queue without the first occurrence of t.
Without(q, t) ==
    LET k == CHOOSE i \in DOMAIN q : q[i] = t
    IN  [i \in 1..(Len(q) - 1) |-> IF i < k THEN q[i] ELSE q[i + 1]]

\* The same when t may be missing.
Erase(q, t) == IF t \in Range(q) THEN Without(q, t) ELSE q
=============================================================================
