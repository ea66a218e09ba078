------------------------------ MODULE MpscQueue ------------------------------
(***************************************************************************)
(* The intrusive queue for many producers and one consumer                 *)
(* (include/ten/mpsc_queue.hh).  A step is one access to memory that       *)
(* threads share.                                                          *)
(***************************************************************************)
EXTENDS Naturals, Sequences, SequencesExt

CONSTANTS Producers, None, Stub,
          MaxItems  \* how many items are pushed: they are numbered as they are allocated

VARIABLES next,     \* next of the nodes
          head, tail,
          producer, \* a producer between the exchange and the store of _push
          consumer, \* registers of pop
          freed,    \* the nodes that pop has deleted
          order,    \* the items in the order of their exchange
          got       \* what pop has returned

vars == <<next, head, tail, producer, consumer, freed, order, got>>

Items == 1..MaxItems
Nodes == Items \cup {Stub}

Init ==
    /\ next = [n \in Nodes |-> None]
    /\ head = Stub /\ tail = Stub
    /\ producer = [p \in Producers |-> [node |-> None, prev |-> None]]
    /\ consumer = [pc |-> "idle", tail |-> Stub, next |-> None, prev |-> None]
    /\ freed = {} /\ order = <<>> /\ got = <<>>

\* push: allocates a node, and exchanges it for the head.
Push(p) ==
    LET n == Len(order) + 1 IN
    /\ producer[p].node = None /\ n <= MaxItems
    /\ producer' = [producer EXCEPT ![p] = [node |-> n, prev |-> head]]
    /\ next' = [next EXCEPT ![n] = None]
    /\ head' = n
    /\ order' = Append(order, n)
    /\ UNCHANGED <<tail, consumer, freed, got>>

PushLink(p) ==
    /\ producer[p].node # None
    /\ next' = [next EXCEPT ![producer[p].prev] = producer[p].node]
    /\ producer' = [producer EXCEPT ![p] = [node |-> None, prev |-> None]]
    /\ UNCHANGED <<head, tail, consumer, freed, order, got>>
-----------------------------------------------------------------------------
(* pop *)

\* Loads tail->next; the stub is empty, or is stepped over.
Pop ==
    /\ consumer.pc = "idle"
    /\ IF tail # Stub
          THEN /\ consumer' = [consumer EXCEPT !.pc = "take", !.tail = tail, !.next = next[tail]]
               /\ UNCHANGED tail
       ELSE IF next[Stub] = None THEN UNCHANGED <<consumer, tail>>
       ELSE /\ tail' = next[Stub]
            /\ consumer' = [consumer EXCEPT !.pc = "load", !.tail = next[Stub]]
    /\ UNCHANGED <<next, head, producer, freed, order, got>>

PopLoad ==
    /\ consumer.pc = "load"
    /\ consumer' = [consumer EXCEPT !.pc = "take", !.next = next[consumer.tail]]
    /\ UNCHANGED <<next, head, tail, producer, freed, order, got>>

\* Mutant of Take: the item of the next node is returned, as in a queue whose first node
\* is always a dummy.
TakeNext(place) ==
    /\ consumer.pc = place /\ consumer.next # None
    /\ tail' = consumer.next
    /\ freed' = freed \cup {consumer.tail}
    /\ got' = Append(got, consumer.next)
    /\ consumer' = [consumer EXCEPT !.pc = "idle"]
    /\ UNCHANGED <<next, head, producer, order>>

\* Returns the item of the node and deletes it, once it has a successor.
Take(place) ==
    /\ consumer.pc = place /\ consumer.next # None
    /\ tail' = consumer.next
    /\ freed' = freed \cup {consumer.tail}
    /\ got' = Append(got, consumer.tail)
    /\ consumer' = [consumer EXCEPT !.pc = "idle"]
    /\ UNCHANGED <<next, head, producer, order>>

\* Mutant of PopHead: the last node is taken although a producer may still link to it.
PopHeadTakes ==
    /\ consumer.pc = "take" /\ consumer.next = None
    /\ freed' = freed \cup {consumer.tail}
    /\ got' = Append(got, consumer.tail)
    /\ tail' = Stub /\ head' = IF head = consumer.tail THEN Stub ELSE head
    /\ next' = [next EXCEPT ![Stub] = None]
    /\ consumer' = [consumer EXCEPT !.pc = "idle"]
    /\ UNCHANGED <<producer, order>>

\* Mutant of PopHead: the stub is never put back.
PopHeadGivesUp ==
    /\ consumer.pc = "take" /\ consumer.next = None
    /\ consumer' = [consumer EXCEPT !.pc = "idle"]
    /\ UNCHANGED <<next, head, tail, producer, freed, order, got>>

\* Compares the tail with the head: a push is not finished, or this is the last node.
PopHead ==
    /\ consumer.pc = "take" /\ consumer.next = None
    /\ consumer' = [consumer EXCEPT !.pc = IF consumer.tail # head THEN "idle" ELSE "stub"]
    /\ UNCHANGED <<next, head, tail, producer, freed, order, got>>

\* _push(&_stub).
PopStub ==
    /\ consumer.pc = "stub"
    /\ next' = [next EXCEPT ![Stub] = None]
    /\ head' = Stub
    /\ consumer' = [consumer EXCEPT !.pc = "link", !.prev = head]
    /\ UNCHANGED <<tail, producer, freed, order, got>>

PopLink ==
    /\ consumer.pc = "link"
    /\ next' = [next EXCEPT ![consumer.prev] = Stub]
    /\ consumer' = [consumer EXCEPT !.pc = "last"]
    /\ UNCHANGED <<head, tail, producer, freed, order, got>>

PopLast ==
    /\ consumer.pc = "last"
    /\ consumer' = [consumer EXCEPT !.next = next[consumer.tail],
                      !.pc = IF next[consumer.tail] = None THEN "idle" ELSE "take last"]
    /\ UNCHANGED <<next, head, tail, producer, freed, order, got>>

Consumer ==
    \/ Pop \/ PopLoad \/ Take("take") \/ PopHead
    \/ PopStub \/ PopLink \/ PopLast \/ Take("take last")

Next == (\E p \in Producers : Push(p) \/ PushLink(p)) \/ Consumer

\* A producer that has exchanged the head stores the link, and the consumer goes on
\* calling pop.
Spec ==
    /\ Init /\ [][Next]_vars
    /\ \A p \in Producers : WF_vars(PushLink(p))
    /\ WF_vars(Consumer)
-----------------------------------------------------------------------------
(* Properties. *)

\* The items are popped in the order of the exchanges of their pushes, each once.
PopsInOrder == IsPrefix(got, order)

\* No thread touches a node that pop has deleted: not the producer that has yet to
\* store its link, nor the consumer.
NoneFreed ==
    /\ \A p \in Producers : producer[p].prev \notin freed
    /\ consumer.pc # "idle" => consumer.tail \notin freed
    /\ consumer.pc = "link" => consumer.prev \notin freed
    /\ {head, tail} \cap freed = {}

\* Every item is popped in the end, although a pop may find nothing while a push is
\* under way.
AllPopped == \A n \in Items : n \in ToSet(order) ~> n \in ToSet(got)
=============================================================================
