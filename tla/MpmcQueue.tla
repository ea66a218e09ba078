------------------------------ MODULE MpmcQueue ------------------------------
(***************************************************************************)
(* The bounded queue for many producers and consumers                      *)
(* (include/ten/mpmc_bounded_queue.hh).  A step is one atomic access; the  *)
(* data of a cell is read or written in the step before its sequence_ is   *)
(* stored.  enqueue_pos_ and dequeue_pos_ stay below MaxPos, far from the  *)
(* end of a size_t.                                                        *)
(***************************************************************************)
EXTENDS Naturals, Sequences

CONSTANTS Producers, Consumers, Values, None,
          Size,   \* buffer_size
          MaxPos  \* bound of the positions

ASSUME MpmcAssumption ==
    /\ Size \in Nat /\ Size >= 2 /\ MaxPos \in Nat
    /\ Producers \cap Consumers = {} /\ None \notin Values

VARIABLES seq, data,      \* the cells
          enqueue_pos, dequeue_pos,
          thread,         \* registers of a call: [pc, pos, value]
          sent            \* what was enqueued at each position

vars == <<seq, data, enqueue_pos, dequeue_pos, thread, sent>>

Threads == Producers \cup Consumers
cell(pos) == pos % Size

Init ==
    /\ seq = [i \in 0..(Size - 1) |-> i]
    /\ data = [i \in 0..(Size - 1) |-> None]
    /\ enqueue_pos = 0 /\ dequeue_pos = 0
    /\ thread = [t \in Threads |-> [pc |-> "idle", pos |-> 0, value |-> None]]
    /\ sent = <<>>

\* Loads the position, on the call and again when it was overtaken.
Load(t, pos) ==
    /\ thread[t].pc \in {"idle", "load"}
    /\ thread' = [thread EXCEPT ![t].pc = "seq", ![t].pos = pos]
    /\ UNCHANGED <<seq, data, enqueue_pos, dequeue_pos, sent>>

\* Mutant of LoadSeq: a call goes for a cell that is not yet free, or not yet filled.
LoadSeqLoose(t, expected) ==
    LET s == seq[cell(thread[t].pos)] IN
    /\ thread[t].pc = "seq"
    /\ thread' = [thread EXCEPT ![t].pc = IF s <= expected THEN "swap" ELSE "load"]
    /\ UNCHANGED <<seq, data, enqueue_pos, dequeue_pos, sent>>

\* Loads sequence_ of the cell: the call goes for it, finds the queue full or empty, or
\* was overtaken.
LoadSeq(t, expected) ==
    LET s == seq[cell(thread[t].pos)] IN
    /\ thread[t].pc = "seq"
    /\ thread' = [thread EXCEPT ![t].pc = IF s = expected THEN "swap"
                                          ELSE IF s < expected THEN "idle" ELSE "load"]
    /\ UNCHANGED <<seq, data, enqueue_pos, dequeue_pos, sent>>

\* compare_exchange_weak: it may fail, and loads the position when it does.
EnqueueSwap(t, value) ==
    /\ thread[t].pc = "swap" /\ enqueue_pos < MaxPos
    /\ \/ /\ enqueue_pos = thread[t].pos
          /\ enqueue_pos' = enqueue_pos + 1
          /\ sent' = Append(sent, value)
          /\ thread' = [thread EXCEPT ![t].pc = "write", ![t].value = value]
       \/ /\ thread' = [thread EXCEPT ![t].pc = "seq", ![t].pos = enqueue_pos]
          /\ UNCHANGED <<enqueue_pos, sent>>
    /\ UNCHANGED <<seq, data, dequeue_pos>>

\* Mutant of EnqueueWrite: the cell is looked up with the position of the queue.
EnqueueWriteElsewhere(t) ==
    /\ thread[t].pc = "write"
    /\ data' = [data EXCEPT ![cell(enqueue_pos)] = thread[t].value]
    /\ thread' = [thread EXCEPT ![t].pc = "store"]
    /\ UNCHANGED <<seq, enqueue_pos, dequeue_pos, sent>>

EnqueueWrite(t) ==
    /\ thread[t].pc = "write"
    /\ data' = [data EXCEPT ![cell(thread[t].pos)] = thread[t].value]
    /\ thread' = [thread EXCEPT ![t].pc = "store"]
    /\ UNCHANGED <<seq, enqueue_pos, dequeue_pos, sent>>

EnqueueStore(t) ==
    /\ thread[t].pc = "store"
    /\ seq' = [seq EXCEPT ![cell(thread[t].pos)] = thread[t].pos + 1]
    /\ thread' = [thread EXCEPT ![t].pc = "idle", ![t].value = None]
    /\ UNCHANGED <<data, enqueue_pos, dequeue_pos, sent>>

DequeueSwap(t) ==
    /\ thread[t].pc = "swap"
    /\ \/ /\ dequeue_pos = thread[t].pos
          /\ dequeue_pos' = dequeue_pos + 1
          /\ thread' = [thread EXCEPT ![t].pc = "read"]
       \/ /\ thread' = [thread EXCEPT ![t].pc = "seq", ![t].pos = dequeue_pos]
          /\ UNCHANGED dequeue_pos
    /\ UNCHANGED <<seq, data, enqueue_pos, sent>>

\* Mutant of DequeueRead: the cell is free before its data is read.
DequeueReadLate(t) ==
    /\ thread[t].pc = "read"
    /\ seq' = [seq EXCEPT ![cell(thread[t].pos)] = thread[t].pos + Size]
    /\ thread' = [thread EXCEPT ![t].pc = "free", ![t].value = data[cell(thread[t].pos)]]
    /\ UNCHANGED <<data, enqueue_pos, dequeue_pos, sent>>

DequeueRead(t) ==
    /\ thread[t].pc = "read"
    /\ thread' = [thread EXCEPT ![t].pc = "free", ![t].value = data[cell(thread[t].pos)]]
    /\ UNCHANGED <<seq, data, enqueue_pos, dequeue_pos, sent>>

DequeueStore(t) ==
    /\ thread[t].pc = "free"
    /\ seq' = [seq EXCEPT ![cell(thread[t].pos)] = thread[t].pos + Size]
    /\ thread' = [thread EXCEPT ![t].pc = "idle", ![t].value = None]
    /\ UNCHANGED <<data, enqueue_pos, dequeue_pos, sent>>

Enqueue(t) ==
    \/ Load(t, enqueue_pos)
    \/ LoadSeq(t, thread[t].pos)
    \/ \E value \in Values : EnqueueSwap(t, value)
    \/ EnqueueWrite(t) \/ EnqueueStore(t)

Dequeue(t) ==
    \/ Load(t, dequeue_pos)
    \/ LoadSeq(t, thread[t].pos + 1)
    \/ DequeueSwap(t) \/ DequeueRead(t) \/ DequeueStore(t)

Next ==
    \/ \E t \in Producers : Enqueue(t)
    \/ \E t \in Consumers : Dequeue(t)

Spec == Init /\ [][Next]_vars
-----------------------------------------------------------------------------
(* Properties. *)

\* A dequeue returns what was enqueued at its position: the queue is first in, first
\* out, and no cell is read before it is written or after it is written again.
InOrder ==
    \A t \in Consumers :
        thread[t].pc = "free" => thread[t].value = sent[thread[t].pos + 1]

\* Between its exchange and its store a call has its cell for itself.
OwnCell ==
    \A t, u \in Threads :
        /\ thread[t].pc \in {"write", "store", "read", "free"}
        /\ thread[u].pc \in {"write", "store", "read", "free"}
        /\ cell(thread[t].pos) = cell(thread[u].pos)
        => t = u

\* The queue holds Size items at most.
Bounded == dequeue_pos <= enqueue_pos /\ enqueue_pos <= dequeue_pos + Size
=============================================================================
