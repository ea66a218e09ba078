------------------------------- MODULE Llqueue -------------------------------
(***************************************************************************)
(* The low-lock queue (include/ten/llqueue.hh) through which other threads *)
(* hand ready tasks to a scheduler: a list behind a dummy node, one spin   *)
(* lock for the producers and one for the consumers, which never exclude   *)
(* each other.  A step is one access to memory that threads share.         *)
(***************************************************************************)
EXTENDS Naturals, Sequences, SequencesExt

CONSTANTS Producers, Consumers, None,
          MaxItems  \* how many items are pushed: they are numbered as they are allocated

VARIABLES next, value,   \* the fields of the nodes
          first, last,
          producerLock, consumerLock,
          producer,      \* a producer's step of push, and its node
          consumer,      \* a consumer's step of pop or empty, and its registers
          freed,         \* the nodes that pop has deleted
          taken          \* the items in the order in which pop has taken them

locks == <<producerLock, consumerLock>>
vars == <<next, value, first, last, locks, producer, consumer, freed, taken>>

Dummy == 0
Items == 1..MaxItems
Nodes == Items \cup {Dummy}

Init ==
    /\ next = [n \in Nodes |-> None]
    /\ value = [n \in Nodes |-> None]
    /\ first = Dummy /\ last = Dummy
    /\ producerLock = FALSE /\ consumerLock = FALSE
    /\ producer = [p \in Producers |-> [pc |-> "idle", node |-> None]]
    /\ consumer = [c \in Consumers |-> [pc |-> "idle", first |-> None, next |-> None]]
    /\ freed = {} /\ taken = <<>>
-----------------------------------------------------------------------------
(* push *)

\* The nodes that have been allocated: their item is in them, or has been taken.
Allocated == {n \in Items : value[n] # None} \cup ToSet(taken)

\* A new node for the item.
Push(p) ==
    /\ producer[p].pc = "idle" /\ Allocated # Items
    /\ LET n == CHOOSE i \in Items \ Allocated : \A j \in Items \ Allocated : i <= j IN
        /\ producer' = [producer EXCEPT ![p] = [pc |-> "lock", node |-> n]]
        /\ value' = [value EXCEPT ![n] = n]
    /\ UNCHANGED <<next, first, last, locks, consumer, freed, taken>>

\* Mutant of PushLock: the lock is tested and set in two steps, so that it may be held.
PushLockHeld(p) ==
    /\ producer[p].pc = "lock"
    /\ producerLock' = TRUE
    /\ producer' = [producer EXCEPT ![p].pc = "publish"]
    /\ UNCHANGED <<next, value, first, last, consumerLock, consumer, freed, taken>>

\* The thread spins until it has set the flag.
PushLock(p) ==
    /\ producer[p].pc = "lock" /\ ~producerLock
    /\ producerLock' = TRUE
    /\ producer' = [producer EXCEPT ![p].pc = "publish"]
    /\ UNCHANGED <<next, value, first, last, consumerLock, consumer, freed, taken>>

PushPublish(p) ==
    /\ producer[p].pc = "publish"
    /\ next' = [next EXCEPT ![last] = producer[p].node]
    /\ producer' = [producer EXCEPT ![p].pc = "swing"]
    /\ UNCHANGED <<value, first, last, locks, consumer, freed, taken>>

PushSwing(p) ==
    /\ producer[p].pc = "swing"
    /\ last' = producer[p].node
    /\ producer' = [producer EXCEPT ![p].pc = "unlock"]
    /\ UNCHANGED <<next, value, first, locks, consumer, freed, taken>>

PushUnlock(p) ==
    /\ producer[p].pc = "unlock"
    /\ producerLock' = FALSE
    /\ producer' = [producer EXCEPT ![p] = [pc |-> "idle", node |-> None]]
    /\ UNCHANGED <<next, value, first, last, consumerLock, consumer, freed, taken>>
-----------------------------------------------------------------------------
(* pop and empty *)

\* Mutant of PopLock: consumers do not exclude each other.
PopLockHeld(c) ==
    /\ consumer[c].pc = "idle"
    /\ consumerLock' = TRUE
    /\ consumer' = [consumer EXCEPT ![c].pc = "load"]
    /\ UNCHANGED <<next, value, first, last, producerLock, producer, freed, taken>>

PopLock(c) ==
    /\ consumer[c].pc = "idle" /\ ~consumerLock
    /\ consumerLock' = TRUE
    /\ consumer' = [consumer EXCEPT ![c].pc = "load"]
    /\ UNCHANGED <<next, value, first, last, producerLock, producer, freed, taken>>

\* Loads the first node's successor.  pop of an empty queue, and empty, only unlock.
PopLoad(c) ==
    /\ consumer[c].pc = "load"
    /\ \E pc \in IF next[first] = None THEN {"unlock"} ELSE {"take", "unlock"} :
          consumer' = [consumer EXCEPT ![c] = [pc |-> pc, first |-> first, next |-> next[first]]]
    /\ UNCHANGED <<next, value, first, last, locks, producer, freed, taken>>

\* Takes the item out of the next node, which is the dummy now.
PopTake(c) ==
    LET n == consumer[c].next IN
    /\ consumer[c].pc = "take"
    /\ taken' = IF value[n] = None THEN taken ELSE Append(taken, value[n])
    /\ value' = [value EXCEPT ![n] = None]
    /\ first' = n
    /\ consumer' = [consumer EXCEPT ![c].pc = "unlock popped"]
    /\ UNCHANGED <<next, last, locks, producer, freed>>

PopUnlock(c) ==
    /\ consumer[c].pc \in {"unlock", "unlock popped"}
    /\ consumerLock' = FALSE
    /\ consumer' = [consumer EXCEPT ![c] =
          IF @.pc = "unlock" THEN [pc |-> "idle", first |-> None, next |-> None]
          ELSE [@ EXCEPT !.pc = "delete"]]
    /\ UNCHANGED <<next, value, first, last, producerLock, producer, freed, taken>>

PopDelete(c) ==
    /\ consumer[c].pc = "delete"
    /\ freed' = freed \cup {consumer[c].first}
    /\ consumer' = [consumer EXCEPT ![c] = [pc |-> "idle", first |-> None, next |-> None]]
    /\ UNCHANGED <<next, value, first, last, locks, producer, taken>>

Next ==
    \/ \E p \in Producers :
          Push(p) \/ PushLock(p) \/ PushPublish(p) \/ PushSwing(p) \/ PushUnlock(p)
    \/ \E c \in Consumers :
          PopLock(c) \/ PopLoad(c) \/ PopTake(c) \/ PopUnlock(c) \/ PopDelete(c)

Spec == Init /\ [][Next]_vars
-----------------------------------------------------------------------------
(* Properties. *)

\* The list that starts behind the dummy: the items that have been published and not taken.
Listed ==
    LET walk[k \in 0..MaxItems] ==
          IF k = 0 THEN first
          ELSE IF walk[k - 1] = None THEN None ELSE next[walk[k - 1]]
    IN SelectSeq([k \in 1..MaxItems |-> walk[k]], LAMBDA n : n # None)

Abstract == INSTANCE Fifo WITH waiting <- Listed

\* Producers and consumers that hold different locks together make a queue: the store of
\* push that publishes a node puts its item in, the step of pop that moves _first takes
\* one, and no other step has an effect.
IsFifo == Abstract!Spec

\* No thread touches a node that pop has deleted: the producer that is about to publish
\* stores into _last, which a consumer may have taken already, and pop reads _first.
NoneFreed ==
    /\ first \notin freed
    /\ \A p \in Producers : producer[p].pc = "publish" => last \notin freed
    /\ \A c \in Consumers : consumer[c].pc = "delete" => consumer[c].first \notin freed
    /\ \A c \in Consumers : consumer[c].pc = "take" => consumer[c].next \notin freed
=============================================================================
