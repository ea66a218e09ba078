------------------------------ MODULE MpmcProof ------------------------------
(***************************************************************************)
(* The properties of MpmcQueue for every size of at least two, and any     *)
(* number of producers and consumers.                                      *)
(***************************************************************************)
EXTENDS MpmcQueue, Integers, TLAPS

\* Leaves with many hypotheses need more than the few seconds the provers get by default.
USE SMTT(30), ZenonT(30)

Registers(places) == [pc : places, pos : Nat, value : Values \cup {None}]
Common == {"idle", "load", "seq", "swap"}
Writing(t) == t \in Producers /\ thread[t].pc \in {"write", "store"}
Reading(t) == t \in Consumers /\ thread[t].pc \in {"read", "free"}

Places == Common \cup {"write", "store", "read", "free"}

Types ==
    /\ seq \in [0..(Size - 1) -> Nat]
    /\ data \in [0..(Size - 1) -> Values \cup {None}]
    /\ enqueue_pos \in Nat /\ dequeue_pos \in Nat
    /\ sent \in Seq(Values) /\ Len(sent) = enqueue_pos
    /\ thread \in [Threads -> Registers(Places)]
    /\ \A t \in Producers : thread[t].pc \in Common \cup {"write", "store"}
    /\ \A t \in Consumers : thread[t].pc \in Common \cup {"read", "free"}
    /\ \A t \in Producers : thread[t].pos <= enqueue_pos
    /\ \A t \in Consumers : thread[t].pos <= dequeue_pos

\* The next Size positions use every cell once: the first of them hold items, or are
\* being written, and the others are free or still being read.
Window ==
    \A p \in Nat : dequeue_pos <= p /\ p < dequeue_pos + Size =>
        IF p < enqueue_pos
        THEN \/ seq[cell(p)] = p
             \/ seq[cell(p)] = p + 1 /\ data[cell(p)] = sent[p + 1]
        ELSE seq[cell(p)] = p \/ seq[cell(p)] + Size = p + 1

Writers ==
    \A t \in Threads : Writing(t) =>
        /\ dequeue_pos <= thread[t].pos /\ thread[t].pos < enqueue_pos
        /\ seq[cell(thread[t].pos)] = thread[t].pos
        /\ thread[t].value = sent[thread[t].pos + 1]
        /\ thread[t].pc = "store" => data[cell(thread[t].pos)] = sent[thread[t].pos + 1]

Readers ==
    \A t \in Threads : Reading(t) =>
        /\ thread[t].pos < dequeue_pos /\ enqueue_pos <= thread[t].pos + Size
        /\ seq[cell(thread[t].pos)] = thread[t].pos + 1
        /\ data[cell(thread[t].pos)] = sent[thread[t].pos + 1]
        /\ thread[t].pc = "free" => thread[t].value = sent[thread[t].pos + 1]

Apart ==
    \A t, u \in Threads :
        (Writing(t) /\ Writing(u)) \/ (Reading(t) /\ Reading(u)) =>
            t = u \/ thread[t].pos # thread[u].pos

\* What a call has read is still so if the position has not moved.
Chosen ==
    \A t \in Threads : thread[t].pc = "swap" =>
        /\ t \in Producers /\ thread[t].pos = enqueue_pos
              => seq[cell(enqueue_pos)] = enqueue_pos
        /\ t \in Consumers /\ thread[t].pos = dequeue_pos
              => seq[cell(dequeue_pos)] = dequeue_pos + 1

Inv == Types /\ Bounded /\ Window /\ Writers /\ Readers /\ Apart /\ Chosen
-----------------------------------------------------------------------------
(* Cells. *)

\* A positive number of rounds is at least one round.
LEMMA Product == ASSUME NEW k \in Int, k >= 1 PROVE Size * k >= Size
  BY MpmcAssumption

\* Multiplication by the size distributes over a difference of rounds.
LEMMA Difference ==
  ASSUME NEW k \in Int, NEW l \in Int PROVE Size * (k - l) = Size * k - Size * l
  BY MpmcAssumption

\* A position is a number of rounds and a cell.
LEMMA Rounds ==
  ASSUME NEW p \in Nat
  PROVE  cell(p) \in 0..(Size - 1) /\ \E k \in Int : p = (Size * k) + cell(p)
  <1>1. p % Size \in 0..(Size - 1)
    BY MpmcAssumption
  <1>2. p = (Size * (p \div Size)) + (p % Size) /\ p \div Size \in Int
    BY MpmcAssumption
  <1> QED BY <1>1, <1>2 DEF cell

\* The round and the cell of a position are unique.
LEMMA OneCell ==
  ASSUME NEW k \in Int, NEW l \in Int, NEW x \in 0..(Size - 1), NEW y \in 0..(Size - 1),
         Size * k + x = Size * l + y
  PROVE  k = l /\ x = y
  <1>0. Size * k \in Int /\ Size * l \in Int
    BY MpmcAssumption
  <1>1. Size * (k - l) = y - x /\ Size * (l - k) = x - y
    BY <1>0, Difference, MpmcAssumption
  <1>2. ASSUME k - l >= 1 PROVE FALSE
    <2>1. Size * (k - l) >= Size BY <1>2, Product
    <2> QED BY <2>1, <1>1, MpmcAssumption
  <1>3. ASSUME l - k >= 1 PROVE FALSE
    <2>1. Size * (l - k) >= Size BY <1>3, Product
    <2> QED BY <2>1, <1>1, MpmcAssumption
  <1>4. k = l BY <1>2, <1>3
  <1> QED BY <1>4, <1>0, MpmcAssumption

\* The first positions are the cells.
LEMMA CellSmall == ASSUME NEW p \in 0..(Size - 1) PROVE cell(p) = p
  <1>0. p \in Nat
    BY MpmcAssumption
  <1>1. PICK k \in Int : p = (Size * k) + cell(p)
    BY <1>0, Rounds
  <1>2. PICK x \in 0..(Size - 1) : x = cell(p)
    BY <1>0, Rounds
  <1>3. Size * k + x = Size * 0 + p
    BY <1>1, <1>2, MpmcAssumption
  <1> QED BY <1>2, <1>3, OneCell

\* The cells repeat after Size positions.
LEMMA CellNext == ASSUME NEW p \in Nat PROVE cell(p + Size) = cell(p)
  <1>0. PICK q \in Nat : q = p + Size
    BY MpmcAssumption
  <1>1. PICK k \in Int : p = (Size * k) + cell(p)
    BY Rounds
  <1>2. PICK l \in Int : q = (Size * l) + cell(q)
    BY Rounds
  <1>3. PICK x \in 0..(Size - 1), y \in 0..(Size - 1) : x = cell(p) /\ y = cell(q)
    BY Rounds
  <1>4. Size * k \in Int /\ Size * l \in Int /\ Size * (k + 1) = Size * k + Size
    BY MpmcAssumption
  <1>5. Size * (k + 1) + x = Size * l + y
    BY <1>0, <1>1, <1>2, <1>3, <1>4, MpmcAssumption
  <1>6. x = y
    BY <1>5, OneCell
  <1> QED BY <1>0, <1>3, <1>6

\* Positions that are less than Size apart have cells of their own.
LEMMA CellSame ==
  ASSUME NEW p \in Nat, NEW q \in Nat, p <= q, q < p + Size, cell(p) = cell(q)
  PROVE  p = q
  <1>1. PICK k \in Int : p = (Size * k) + cell(p)
    BY Rounds
  <1>2. PICK l \in Int : q = (Size * l) + cell(q)
    BY Rounds
  <1>3. PICK x \in 0..(Size - 1) : x = cell(p)
    BY Rounds
  <1>4. p = Size * k + x /\ q = Size * l + x
    BY <1>1, <1>2, <1>3
  <1>0. Size * k \in Int /\ Size * l \in Int
    BY MpmcAssumption
  <1>5. q - p = Size * (l - k) /\ Size * (k - l) = p - q
    BY <1>0, <1>4, Difference, MpmcAssumption
  <1>6. ~(l - k >= 1)
    <2> SUFFICES ASSUME l - k >= 1 PROVE FALSE OBVIOUS
    <2>1. Size * (l - k) >= Size BY Product
    <2> QED BY <2>1, <1>5, MpmcAssumption
  <1>7. ~(k - l >= 1)
    <2> SUFFICES ASSUME k - l >= 1 PROVE FALSE OBVIOUS
    <2>1. Size * (k - l) >= Size BY Product
    <2> QED BY <2>1, <1>5, MpmcAssumption
  <1>8. k = l BY <1>6, <1>7
  <1> QED BY <1>8, <1>4
-----------------------------------------------------------------------------
(* The invariant. *)

\* The constructor, which numbers the cells, establishes the invariant.
LEMMA InitInv == Init => Inv
  <1> SUFFICES ASSUME Init PROVE Inv
    OBVIOUS
  <1> USE MpmcAssumption DEF Init
  <1>1. Types
    BY DEF Types, Registers, Common, Places, Threads
  <1>2. Window
    <2> SUFFICES ASSUME NEW p \in Nat, p < Size PROVE seq[cell(p)] = p
      BY DEF Window
    <2>1. p \in 0..(Size - 1) OBVIOUS
    <2> QED BY <2>1, CellSmall
  <1>3. \A t \in Threads : thread[t].pc = "idle"
    OBVIOUS
  <1> QED BY <1>1, <1>2, <1>3 DEF Inv, Bounded, Writers, Readers, Apart, Chosen, Writing, Reading

\* A step of one thread, with what it does to the others left out.
Step(t) ==
    /\ thread' \in [Threads -> Registers(Places)]
    /\ \A u \in Threads : u # t => thread'[u] = thread[u]

\* A step of one thread that moves no position back keeps the types.
LEMMA StepTypes ==
  ASSUME Types, NEW t \in Threads, Step(t),
         seq' \in [0..(Size - 1) -> Nat], data' \in [0..(Size - 1) -> Values \cup {None}],
         enqueue_pos' \in Nat, dequeue_pos' \in Nat,
         enqueue_pos <= enqueue_pos', dequeue_pos <= dequeue_pos',
         sent' \in Seq(Values), Len(sent') = enqueue_pos',
         t \in Producers => /\ thread'[t].pc \in Common \cup {"write", "store"}
                            /\ thread'[t].pos <= enqueue_pos',
         t \in Consumers => /\ thread'[t].pc \in Common \cup {"read", "free"}
                            /\ thread'[t].pos <= dequeue_pos'
  PROVE  Types'
  <1>1. \A u \in Threads : thread[u].pos \in Nat /\ thread'[u].pos \in Nat
    BY DEF Types, Registers, Step
  <1>2. \A u \in Producers : /\ thread'[u].pc \in Common \cup {"write", "store"}
                              /\ thread'[u].pos <= enqueue_pos'
    <2> TAKE u \in Producers
    <2>1. CASE u = t BY <2>1
    <2>2. CASE u # t BY <2>2, <1>1 DEF Types, Step, Threads
    <2> QED BY <2>1, <2>2
  <1>3. \A u \in Consumers : /\ thread'[u].pc \in Common \cup {"read", "free"}
                              /\ thread'[u].pos <= dequeue_pos'
    <2> TAKE u \in Consumers
    <2>1. CASE u = t BY <2>1
    <2>2. CASE u # t BY <2>2, <1>1 DEF Types, Step, Threads
    <2> QED BY <2>1, <2>2
  <1> QED BY <1>2, <1>3 DEF Types, Step

\* Loading a position, or a sequence number, only moves the thread.
LEMMA Retreats ==
  ASSUME Inv, NEW t \in Threads, Step(t), thread'[t].pc = "seq",
         t \in Producers => thread'[t].pos = enqueue_pos,
         t \in Consumers => thread'[t].pos = dequeue_pos,
         UNCHANGED <<seq, data, enqueue_pos, dequeue_pos, sent>>
  PROVE  Inv'
  <1>2. Types'
    BY StepTypes DEF Inv, Types, Common
  <1>3. Bounded' /\ Window'
    BY DEF Inv, Bounded, Window, cell
  <1>4. \A u \in Threads : Writing(u)' \/ Reading(u)' \/ (thread'[u].pc = "swap") =>
                              thread'[u] = thread[u]
    BY DEF Step, Writing, Reading
  <1>5. Writers' /\ Readers'
    BY <1>4 DEF Inv, Writers, Readers, Writing, Reading, cell
  <1>6. Apart' /\ Chosen'
    BY <1>4 DEF Inv, Apart, Chosen, Writing, Reading, cell
  <1> QED BY <1>2, <1>3, <1>5, <1>6 DEF Inv

\* Reading the enqueue or dequeue position keeps the invariant.
LEMMA LoadInv ==
  ASSUME Inv, NEW t \in Threads, NEW pos \in Nat,
         t \in Producers => pos = enqueue_pos, t \in Consumers => pos = dequeue_pos,
         Load(t, pos)
  PROVE  Inv'
  <1>1. Step(t) /\ thread'[t].pc = "seq" /\ thread'[t].pos = pos
    BY ZenonT(30) DEF Load, Inv, Types, Registers, Step, Places, Common
  <1>2. UNCHANGED <<seq, data, enqueue_pos, dequeue_pos, sent>>
    BY DEF Load
  <1> QED BY <1>1, <1>2, Retreats, Zenon

\* Reading the sequence number of the cell, and what follows from it, keeps the
\* invariant.
LEMMA LoadSeqInv ==
  ASSUME Inv, NEW t \in Threads, NEW expected \in Nat,
         t \in Producers => expected = thread[t].pos,
         t \in Consumers => expected = thread[t].pos + 1,
         LoadSeq(t, expected)
  PROVE  Inv'
  <1>0. UNCHANGED <<seq, data, enqueue_pos, dequeue_pos, sent>>
    BY DEF LoadSeq
  <1>1. /\ Step(t) /\ thread'[t].pc \in {"swap", "idle", "load"}
        /\ thread'[t].pos = thread[t].pos
        /\ thread'[t].pc = "swap" => seq[cell(thread[t].pos)] = expected
    <2>1. PICK place \in {"swap", "idle", "load"} :
             /\ thread' = [thread EXCEPT ![t].pc = place]
             /\ place = "swap" => seq[cell(thread[t].pos)] = expected
      BY Zenon DEF LoadSeq
    <2> QED BY <2>1, ZenonT(30) DEF Inv, Types, Registers, Step, Places, Common
  <1>2. Types'
    BY <1>0, <1>1, StepTypes DEF Inv, Types, Common
  <1>3. Bounded' /\ Window'
    BY <1>0 DEF Inv, Bounded, Window, cell
  <1>4. \A u \in Threads : Writing(u)' \/ Reading(u)' => thread'[u] = thread[u]
    BY <1>1 DEF Step, Writing, Reading
  <1>5. Writers' /\ Readers'
    BY <1>0, <1>4 DEF Inv, Writers, Readers, Writing, Reading, cell
  <1>6. Apart'
    BY <1>0, <1>4 DEF Inv, Apart, Writing, Reading
  <1>7. Chosen'
    BY <1>0, <1>1 DEF Inv, Chosen, Step, cell
  <1> QED BY <1>2, <1>3, <1>5, <1>6, <1>7 DEF Inv

\* A producer that gets its position gets a free cell, and nobody else gets it.
LEMMA EnqueueSwapInv ==
  ASSUME Inv, NEW t \in Producers, NEW value \in Values, EnqueueSwap(t, value)
  PROVE  Inv'
  <1>0. UNCHANGED <<seq, data, dequeue_pos>> /\ t \in Threads /\ thread[t].pc = "swap"
    BY DEF EnqueueSwap, Threads
  <1>b. t \notin Consumers
    BY MpmcAssumption
  <1>a. /\ enqueue_pos \in Nat /\ dequeue_pos \in Nat /\ Size \in Nat /\ Size >= 2
        /\ dequeue_pos <= enqueue_pos /\ enqueue_pos <= dequeue_pos + Size
        /\ sent \in Seq(Values) /\ Len(sent) = enqueue_pos
    BY MpmcAssumption DEF Inv, Types, Bounded
  <1>1. CASE /\ enqueue_pos = thread[t].pos
             /\ enqueue_pos' = enqueue_pos + 1
             /\ sent' = Append(sent, value)
             /\ thread' = [thread EXCEPT ![t].pc = "write", ![t].value = value]
    <2>1. /\ Step(t) /\ thread'[t].pc = "write" /\ thread'[t].pos = enqueue_pos
          /\ thread'[t].value = value
      BY <1>0, <1>1, ZenonT(30) DEF Inv, Types, Registers, Step, Places, Common
    <2>2. /\ sent' \in Seq(Values) /\ Len(sent') = enqueue_pos' /\ sent'[enqueue_pos + 1] = value
          /\ \A p \in Nat : p < enqueue_pos => sent'[p + 1] = sent[p + 1]
      BY <1>1, <1>a
    <2>3. seq[cell(enqueue_pos)] = enqueue_pos
      BY <1>0, <1>1 DEF Inv, Chosen
    <2>4. enqueue_pos < dequeue_pos + Size
      <3> SUFFICES ASSUME enqueue_pos = dequeue_pos + Size PROVE FALSE BY <1>a
      <3>1. cell(enqueue_pos) = cell(dequeue_pos) BY <1>a, CellNext
      <3>2. seq[cell(dequeue_pos)] = dequeue_pos \/ seq[cell(dequeue_pos)] = dequeue_pos + 1
        BY <1>a DEF Inv, Window
      <3> QED BY <3>1, <3>2, <2>3, <1>a
    <2>5. \A u \in Threads : Reading(u) => enqueue_pos < thread[u].pos + Size
      <3> TAKE u \in Threads
      <3> HAVE Reading(u)
      <3>1. PICK q \in Nat : q = thread[u].pos BY DEF Inv, Types, Registers
      <3>2. enqueue_pos <= q + Size /\ seq[cell(q)] = q + 1 BY <3>1 DEF Inv, Readers
      <3>3. ASSUME enqueue_pos = q + Size PROVE FALSE
        <4>1. cell(enqueue_pos) = cell(q) BY <3>3, CellNext
        <4> QED BY <4>1, <3>2, <3>3, <2>3, <1>a
      <3> QED BY <3>1, <3>2, <3>3, <1>a
    <2>6. Types'
      <3>1. /\ seq' \in [0..(Size - 1) -> Nat]
            /\ data' \in [0..(Size - 1) -> Values \cup {None}]
            /\ enqueue_pos' \in Nat /\ dequeue_pos' \in Nat
            /\ enqueue_pos <= enqueue_pos' /\ dequeue_pos <= dequeue_pos'
        BY <1>0, <1>1, <1>a DEF Inv, Types
      <3>2. thread'[t].pc \in Common \cup {"write", "store"} /\ thread'[t].pos <= enqueue_pos'
        BY <1>1, <1>a, <2>1 DEF Common
      <3> QED BY <1>0, <1>b, <2>1, <2>2, <3>1, <3>2, StepTypes DEF Inv
    <2>7. Bounded'
      BY <1>0, <1>a, <1>1, <2>4 DEF Bounded
    <2>8. Window'
      <3> SUFFICES ASSUME NEW p \in Nat, dequeue_pos <= p, p < dequeue_pos + Size
                   PROVE  IF p < enqueue_pos + 1
                          THEN \/ seq[cell(p)] = p
                               \/ seq[cell(p)] = p + 1 /\ data[cell(p)] = sent'[p + 1]
                          ELSE seq[cell(p)] = p \/ seq[cell(p)] + Size = p + 1
        BY <1>0, <1>1, Zenon DEF Window, cell
      <3>1. CASE p < enqueue_pos BY <3>1, <1>a, <2>2 DEF Inv, Window
      <3>2. CASE p = enqueue_pos BY <3>2, <1>a, <2>3
      <3>3. CASE p > enqueue_pos BY <3>3, <1>a DEF Inv, Window
      <3> QED BY <3>1, <3>2, <3>3, <1>a
    <2>9. Writers'
      <3> SUFFICES ASSUME NEW u \in Threads, Writing(u)'
                   PROVE  /\ dequeue_pos <= thread'[u].pos /\ thread'[u].pos < enqueue_pos + 1
                          /\ seq[cell(thread'[u].pos)] = thread'[u].pos
                          /\ thread'[u].value = sent'[thread'[u].pos + 1]
                          /\ thread'[u].pc = "store" =>
                                data[cell(thread'[u].pos)] = sent'[thread'[u].pos + 1]
        BY <1>0, <1>1, Zenon DEF Writers, cell
      <3>1. CASE u = t BY <3>1, <1>a, <2>1, <2>2, <2>3
      <3>2. CASE u # t
        <4>1. thread'[u] = thread[u] /\ Writing(u) /\ thread[u].pos \in Nat
          BY <3>2, <2>1 DEF Step, Writing, Inv, Types, Registers
        <4> QED BY <4>1, <2>2, <1>a DEF Inv, Writers
      <3> QED BY <3>1, <3>2
    <2>10. Readers'
      <3> SUFFICES ASSUME NEW u \in Threads, Reading(u)'
                   PROVE  /\ thread'[u].pos < dequeue_pos
                          /\ enqueue_pos + 1 <= thread'[u].pos + Size
                          /\ seq[cell(thread'[u].pos)] = thread'[u].pos + 1
                          /\ data[cell(thread'[u].pos)] = sent'[thread'[u].pos + 1]
                          /\ thread'[u].pc = "free" =>
                                thread'[u].value = sent'[thread'[u].pos + 1]
        BY <1>0, <1>1, Zenon DEF Readers, cell
      <3>1. thread'[u] = thread[u] /\ Reading(u) /\ thread[u].pos \in Nat
        BY <2>1 DEF Step, Reading, Inv, Types, Registers
      <3>2. thread[u].pos < dequeue_pos BY <3>1 DEF Inv, Readers
      <3> QED BY <3>1, <3>2, <2>2, <2>5, <1>a DEF Inv, Readers
    <2>11. Apart'
      <3>1. \A u \in Threads : Writing(u) => thread[u].pos # enqueue_pos
        BY <1>a DEF Inv, Writers
      <3> QED BY <3>1, <2>1 DEF Inv, Apart, Step, Writing, Reading
    <2>12. Chosen'
      <3> SUFFICES ASSUME NEW u \in Threads, thread'[u].pc = "swap"
                   PROVE  /\ u \in Producers => thread'[u].pos # enqueue_pos + 1
                          /\ u \in Consumers /\ thread'[u].pos = dequeue_pos
                                => seq[cell(dequeue_pos)] = dequeue_pos + 1
        BY <1>0, <1>1, Zenon DEF Chosen, cell
      <3>1. thread'[u] = thread[u] BY <2>1 DEF Step
      <3>2. u \in Producers => thread[u].pos <= enqueue_pos BY DEF Inv, Types
      <3> QED BY <3>1, <3>2, <1>a DEF Inv, Chosen
    <2> QED BY <2>6, <2>7, <2>8, <2>9, <2>10, <2>11, <2>12 DEF Inv
  <1>2. CASE /\ thread' = [thread EXCEPT ![t].pc = "seq", ![t].pos = enqueue_pos]
             /\ UNCHANGED <<enqueue_pos, sent>>
    <2>1. Step(t) /\ thread'[t].pc = "seq" /\ thread'[t].pos = enqueue_pos
      BY <1>0, <1>2, ZenonT(30) DEF Inv, Types, Registers, Step, Places, Common
    <2> QED BY <1>0, <1>2, <1>b, <2>1, Retreats, Zenon
  <1> QED BY <1>1, <1>2 DEF EnqueueSwap

\* The cell of a call that writes or reads is not the cell of any other.
LEMMA WriterCell ==
  ASSUME Inv, NEW t \in Threads, Writing(t)
  PROVE  /\ thread[t].pos \in Nat
         /\ \A p \in Nat : /\ dequeue_pos <= p /\ p < dequeue_pos + Size
                          /\ cell(p) = cell(thread[t].pos)
                          => p = thread[t].pos
         /\ \A u \in Threads : Writing(u) /\ cell(thread[u].pos) = cell(thread[t].pos) => u = t
         /\ \A u \in Threads : Reading(u) => cell(thread[u].pos) # cell(thread[t].pos)
  <1>a. /\ enqueue_pos \in Nat /\ dequeue_pos \in Nat /\ Size \in Nat /\ Size >= 2
        /\ dequeue_pos <= enqueue_pos /\ enqueue_pos <= dequeue_pos + Size
    BY MpmcAssumption DEF Inv, Types, Bounded
  <1>0. PICK x \in Nat : x = thread[t].pos
    BY DEF Inv, Types, Registers
  <1>1. dequeue_pos <= x /\ x < enqueue_pos
    BY <1>0 DEF Inv, Writers
  <1>2. ASSUME NEW p \in Nat, dequeue_pos <= p, p < dequeue_pos + Size, cell(p) = cell(x)
        PROVE  p = x
    <2>1. CASE p <= x BY <2>1, <1>2, <1>1, <1>a, CellSame
    <2>2. CASE x <= p BY <2>2, <1>2, <1>1, <1>a, CellSame
    <2> QED BY <2>1, <2>2
  <1>3. ASSUME NEW u \in Threads, Writing(u), cell(thread[u].pos) = cell(x) PROVE u = t
    <2>1. PICK y \in Nat : y = thread[u].pos
      BY DEF Inv, Types, Registers
    <2>2. dequeue_pos <= y /\ y < enqueue_pos
      BY <1>3, <2>1 DEF Inv, Writers
    <2>3. y = x
      BY <1>2, <1>3, <2>1, <2>2, <1>a
    <2> QED BY <1>3, <1>0, <2>1, <2>3, Zenon DEF Inv, Apart
  <1>4. ASSUME NEW u \in Threads, Reading(u), cell(thread[u].pos) = cell(x) PROVE FALSE
    <2>1. PICK y \in Nat : y = thread[u].pos
      BY DEF Inv, Types, Registers
    <2>2. y < dequeue_pos /\ enqueue_pos <= y + Size
      BY <1>4, <2>1 DEF Inv, Readers
    <2>3. y <= x /\ x < y + Size /\ cell(y) = cell(x)
      BY <1>1, <1>4, <2>1, <2>2, <1>a
    <2>4. y = x
      BY <2>3, CellSame
    <2> QED BY <2>2, <2>4, <1>1, <1>a
  <1> QED BY <1>0, <1>2, <1>3, <1>4

\* The cell that a consumer reads is reused only by the position one round later.
LEMMA ReaderCell ==
  ASSUME Inv, NEW t \in Threads, Reading(t)
  PROVE  /\ thread[t].pos \in Nat
         /\ \A p \in Nat : /\ dequeue_pos <= p /\ p < dequeue_pos + Size
                          /\ cell(p) = cell(thread[t].pos)
                          => p = thread[t].pos + Size
         /\ \A u \in Threads : Reading(u) /\ cell(thread[u].pos) = cell(thread[t].pos) => u = t
         /\ \A u \in Threads : Writing(u) => cell(thread[u].pos) # cell(thread[t].pos)
  <1>a. /\ enqueue_pos \in Nat /\ dequeue_pos \in Nat /\ Size \in Nat /\ Size >= 2
        /\ dequeue_pos <= enqueue_pos /\ enqueue_pos <= dequeue_pos + Size
    BY MpmcAssumption DEF Inv, Types, Bounded
  <1>0. PICK x \in Nat : x = thread[t].pos
    BY DEF Inv, Types, Registers
  <1>1. x < dequeue_pos /\ enqueue_pos <= x + Size
    BY <1>0 DEF Inv, Readers
  <1>2. ASSUME NEW p \in Nat, dequeue_pos <= p, p < dequeue_pos + Size, cell(p) = cell(x)
        PROVE  p = x + Size
    <2>0. PICK z \in Nat : z = x + Size BY <1>a
    <2>3. cell(p) = cell(z) BY <2>0, <1>2, CellNext
    <2>1. CASE p <= z BY <2>0, <2>1, <2>3, <1>2, <1>1, <1>a, CellSame
    <2>2. CASE z <= p BY <2>0, <2>2, <2>3, <1>2, <1>1, <1>a, CellSame
    <2> QED BY <2>0, <2>1, <2>2
  <1>3. ASSUME NEW u \in Threads, Reading(u), cell(thread[u].pos) = cell(x) PROVE u = t
    <2>1. PICK y \in Nat : y = thread[u].pos
      BY DEF Inv, Types, Registers
    <2>2. y < dequeue_pos /\ enqueue_pos <= y + Size
      BY <1>3, <2>1 DEF Inv, Readers
    <2>3. cell(y) = cell(x) BY <1>3, <2>1
    <2>4. ASSUME y <= x PROVE y = x BY <2>2, <2>3, <2>4, <1>1, <1>a, CellSame
    <2>5. ASSUME x <= y PROVE y = x BY <2>2, <2>3, <2>5, <1>1, <1>a, CellSame
    <2>6. y = x BY <2>4, <2>5
    <2> QED BY <1>3, <1>0, <2>1, <2>6, Zenon DEF Inv, Apart
  <1>4. ASSUME NEW u \in Threads, Writing(u), cell(thread[u].pos) = cell(x) PROVE FALSE
    BY <1>0, <1>4, WriterCell
  <1> QED BY <1>0, <1>2, <1>3, <1>4

\* The data of a cell that is being written concerns nobody else.
LEMMA EnqueueWriteInv ==
  ASSUME Inv, NEW t \in Producers, EnqueueWrite(t)
  PROVE  Inv'
  <1>0. /\ UNCHANGED <<seq, enqueue_pos, dequeue_pos, sent>> /\ t \in Threads
        /\ thread[t].pc = "write" /\ Writing(t) /\ t \notin Consumers
    BY MpmcAssumption DEF EnqueueWrite, Threads, Writing
  <1>1. PICK x \in Nat : x = thread[t].pos
    BY <1>0 DEF Inv, Types, Registers
  <1>2. cell(x) \in 0..(Size - 1)
    BY Rounds
  <1>3. /\ Step(t) /\ thread'[t].pc = "store" /\ thread'[t].pos = x
        /\ thread'[t].value = thread[t].value
    BY <1>0, <1>1, ZenonT(30) DEF EnqueueWrite, Inv, Types, Registers, Step, Places, Common
  <1>4. data' = [data EXCEPT ![cell(x)] = thread[t].value] /\ thread[t].value \in Values \cup {None}
    BY <1>0, <1>1 DEF EnqueueWrite, Inv, Types, Registers
  <1>5. /\ data' \in [0..(Size - 1) -> Values \cup {None}] /\ data'[cell(x)] = sent[x + 1]
        /\ \A i \in 0..(Size - 1) : i # cell(x) => data'[i] = data[i]
    BY <1>0, <1>1, <1>2, <1>4 DEF Inv, Types, Writers
  <1>6. Types'
    <2>1. thread'[t].pos <= enqueue_pos BY <1>1, <1>3 DEF Inv, Types
    <2> QED BY <1>0, <1>3, <1>5, <2>1, StepTypes DEF Inv, Types, Common
  <1>7. Window'
    <2> SUFFICES ASSUME NEW p \in Nat, dequeue_pos <= p, p < dequeue_pos + Size
                 PROVE  IF p < enqueue_pos
                        THEN \/ seq[cell(p)] = p
                             \/ seq[cell(p)] = p + 1 /\ data'[cell(p)] = sent[p + 1]
                        ELSE seq[cell(p)] = p \/ seq[cell(p)] + Size = p + 1
      BY <1>0, Zenon DEF Window, cell
    <2>1. CASE cell(p) = cell(x)
      <3>1. p = x BY <1>0, <1>1, <2>1, WriterCell
      <3> QED BY <3>1, <1>0, <1>1, <1>5 DEF Inv, Writers
    <2>2. CASE cell(p) # cell(x)
      <3>1. data'[cell(p)] = data[cell(p)] BY <2>2, <1>5, Rounds, Zenon
      <3> QED BY <3>1 DEF Inv, Window
    <2> QED BY <2>1, <2>2
  <1>8. Writers'
    <2> SUFFICES ASSUME NEW u \in Threads, Writing(u)'
                 PROVE  /\ dequeue_pos <= thread'[u].pos /\ thread'[u].pos < enqueue_pos
                        /\ seq[cell(thread'[u].pos)] = thread'[u].pos
                        /\ thread'[u].value = sent[thread'[u].pos + 1]
                        /\ thread'[u].pc = "store" =>
                              data'[cell(thread'[u].pos)] = sent[thread'[u].pos + 1]
      BY <1>0, Zenon DEF Writers, cell
    <2>1. CASE u = t BY <2>1, <1>0, <1>1, <1>3, <1>5 DEF Inv, Writers
    <2>2. CASE u # t
      <3>1. thread'[u] = thread[u] /\ Writing(u) /\ thread[u].pos \in Nat
        BY <2>2, <1>3 DEF Step, Writing, Inv, Types, Registers
      <3>2. cell(thread[u].pos) # cell(x) BY <1>0, <1>1, <2>2, <3>1, WriterCell
      <3>3. data'[cell(thread[u].pos)] = data[cell(thread[u].pos)] BY <3>1, <3>2, <1>5, Rounds, Zenon
      <3> QED BY <3>1, <3>3 DEF Inv, Writers
    <2> QED BY <2>1, <2>2
  <1>9. Readers'
    <2> SUFFICES ASSUME NEW u \in Threads, Reading(u)'
                 PROVE  /\ thread'[u].pos < dequeue_pos /\ enqueue_pos <= thread'[u].pos + Size
                        /\ seq[cell(thread'[u].pos)] = thread'[u].pos + 1
                        /\ data'[cell(thread'[u].pos)] = sent[thread'[u].pos + 1]
                        /\ thread'[u].pc = "free" => thread'[u].value = sent[thread'[u].pos + 1]
      BY <1>0, Zenon DEF Readers, cell
    <2>1. thread'[u] = thread[u] /\ Reading(u) /\ thread[u].pos \in Nat
      BY <1>0, <1>3 DEF Step, Reading, Inv, Types, Registers
    <2>2. cell(thread[u].pos) # cell(x) BY <1>0, <1>1, <2>1, WriterCell
    <2>3. data'[cell(thread[u].pos)] = data[cell(thread[u].pos)] BY <2>1, <2>2, <1>5, Rounds, Zenon
    <2> QED BY <2>1, <2>3 DEF Inv, Readers
  <1>10. Apart'
    BY <1>0, <1>1, <1>3 DEF Inv, Apart, Step, Writing, Reading
  <1>11. Bounded' /\ Chosen'
    BY <1>0, <1>3 DEF Inv, Bounded, Chosen, Step, cell
  <1> QED BY <1>6, <1>7, <1>8, <1>9, <1>10, <1>11 DEF Inv

\* The store publishes what is in the cell.
LEMMA EnqueueStoreInv ==
  ASSUME Inv, NEW t \in Producers, EnqueueStore(t)
  PROVE  Inv'
  <1>0. /\ UNCHANGED <<data, enqueue_pos, dequeue_pos, sent>> /\ t \in Threads
        /\ thread[t].pc = "store" /\ Writing(t) /\ t \notin Consumers
    BY MpmcAssumption DEF EnqueueStore, Threads, Writing
  <1>a. /\ enqueue_pos \in Nat /\ dequeue_pos \in Nat /\ Size \in Nat /\ Size >= 2
        /\ dequeue_pos <= enqueue_pos /\ enqueue_pos <= dequeue_pos + Size
    BY MpmcAssumption DEF Inv, Types, Bounded
  <1>1. PICK x \in Nat : x = thread[t].pos
    BY <1>0 DEF Inv, Types, Registers
  <1>2. /\ cell(x) \in 0..(Size - 1) /\ seq[cell(x)] = x /\ data[cell(x)] = sent[x + 1]
        /\ dequeue_pos <= x /\ x < enqueue_pos
    BY <1>0, <1>1, Rounds DEF Inv, Writers
  <1>3. Step(t) /\ thread'[t].pc = "idle" /\ thread'[t].pos = x
    BY <1>0, <1>1, ZenonT(30) DEF EnqueueStore, Inv, Types, Registers, Step, Places, Common
  <1>4. seq' = [seq EXCEPT ![cell(x)] = x + 1]
    BY <1>1 DEF EnqueueStore
  <1>5. /\ seq' \in [0..(Size - 1) -> Nat] /\ seq'[cell(x)] = x + 1
        /\ \A i \in 0..(Size - 1) : i # cell(x) => seq'[i] = seq[i]
    BY <1>2, <1>4 DEF Inv, Types
  <1>6. Types'
    <2>1. thread'[t].pos <= enqueue_pos BY <1>2, <1>3, <1>a
    <2> QED BY <1>0, <1>3, <1>5, <2>1, StepTypes DEF Inv, Types, Common
  <1>7. Window'
    <2> SUFFICES ASSUME NEW p \in Nat, dequeue_pos <= p, p < dequeue_pos + Size
                 PROVE  IF p < enqueue_pos
                        THEN \/ seq'[cell(p)] = p
                             \/ seq'[cell(p)] = p + 1 /\ data[cell(p)] = sent[p + 1]
                        ELSE seq'[cell(p)] = p \/ seq'[cell(p)] + Size = p + 1
      BY <1>0, Zenon DEF Window, cell
    <2>1. CASE cell(p) = cell(x)
      <3>1. p = x BY <1>0, <1>1, <2>1, WriterCell
      <3> QED BY <3>1, <1>2, <1>5
    <2>2. CASE cell(p) # cell(x)
      <3>1. seq'[cell(p)] = seq[cell(p)] BY <2>2, <1>5, Rounds, Zenon
      <3> QED BY <3>1 DEF Inv, Window
    <2> QED BY <2>1, <2>2
  <1>8. Writers'
    <2> SUFFICES ASSUME NEW u \in Threads, Writing(u)'
                 PROVE  /\ dequeue_pos <= thread'[u].pos /\ thread'[u].pos < enqueue_pos
                        /\ seq'[cell(thread'[u].pos)] = thread'[u].pos
                        /\ thread'[u].value = sent[thread'[u].pos + 1]
                        /\ thread'[u].pc = "store" =>
                              data[cell(thread'[u].pos)] = sent[thread'[u].pos + 1]
      BY <1>0, Zenon DEF Writers, cell
    <2>0. u # t BY <1>3 DEF Writing
    <2>1. thread'[u] = thread[u] /\ Writing(u) /\ thread[u].pos \in Nat
      BY <2>0, <1>3 DEF Step, Writing, Inv, Types, Registers
    <2>2. cell(thread[u].pos) # cell(x) BY <1>0, <1>1, <2>0, <2>1, WriterCell
    <2>3. seq'[cell(thread[u].pos)] = seq[cell(thread[u].pos)]
      BY <2>1, <2>2, <1>5, Rounds, Zenon
    <2> QED BY <2>1, <2>3 DEF Inv, Writers
  <1>9. Readers'
    <2> SUFFICES ASSUME NEW u \in Threads, Reading(u)'
                 PROVE  /\ thread'[u].pos < dequeue_pos /\ enqueue_pos <= thread'[u].pos + Size
                        /\ seq'[cell(thread'[u].pos)] = thread'[u].pos + 1
                        /\ data[cell(thread'[u].pos)] = sent[thread'[u].pos + 1]
                        /\ thread'[u].pc = "free" => thread'[u].value = sent[thread'[u].pos + 1]
      BY <1>0, Zenon DEF Readers, cell
    <2>1. thread'[u] = thread[u] /\ Reading(u) /\ thread[u].pos \in Nat
      BY <1>0, <1>3 DEF Step, Reading, Inv, Types, Registers
    <2>2. cell(thread[u].pos) # cell(x) BY <1>0, <1>1, <2>1, WriterCell
    <2>3. seq'[cell(thread[u].pos)] = seq[cell(thread[u].pos)]
      BY <2>1, <2>2, <1>5, Rounds, Zenon
    <2> QED BY <2>1, <2>3 DEF Inv, Readers
  <1>10. Bounded' /\ Apart'
    BY <1>0, <1>3 DEF Inv, Bounded, Apart, Step, Writing, Reading
  <1>11. Chosen'
    <2> SUFFICES ASSUME NEW u \in Threads, thread'[u].pc = "swap"
                 PROVE  /\ u \in Producers /\ thread'[u].pos = enqueue_pos
                              => seq'[cell(enqueue_pos)] = enqueue_pos
                        /\ u \in Consumers /\ thread'[u].pos = dequeue_pos
                              => seq'[cell(dequeue_pos)] = dequeue_pos + 1
      BY <1>0, Zenon DEF Chosen, cell
    <2>1. thread'[u] = thread[u] BY <1>3 DEF Step
    <2>2. ASSUME u \in Producers, thread'[u].pos = enqueue_pos
          PROVE  seq'[cell(enqueue_pos)] = enqueue_pos
      <3>1. seq[cell(enqueue_pos)] = enqueue_pos BY <2>1, <2>2 DEF Inv, Chosen
      <3>2. cell(enqueue_pos) # cell(x) BY <3>1, <1>2, <1>a
      <3> QED BY <3>1, <3>2, <1>5, <1>a, Rounds, Zenon
    <2>3. ASSUME u \in Consumers, thread'[u].pos = dequeue_pos
          PROVE  seq'[cell(dequeue_pos)] = dequeue_pos + 1
      <3>1. seq[cell(dequeue_pos)] = dequeue_pos + 1 BY <2>1, <2>3 DEF Inv, Chosen
      <3>2. cell(dequeue_pos) # cell(x)
        <4> SUFFICES ASSUME cell(dequeue_pos) = cell(x) PROVE FALSE OBVIOUS
        <4>1. dequeue_pos = x BY <1>2, <1>a, CellSame
        <4> QED BY <4>1, <3>1, <1>2, <1>a
      <3> QED BY <3>1, <3>2, <1>5, <1>a, Rounds, Zenon
    <2> QED BY <2>2, <2>3
  <1> QED BY <1>6, <1>7, <1>8, <1>9, <1>10, <1>11 DEF Inv

\* A consumer that gets its position gets a cell that is full.
LEMMA DequeueSwapInv ==
  ASSUME Inv, NEW t \in Consumers, DequeueSwap(t)
  PROVE  Inv'
  <1>0. /\ UNCHANGED <<seq, data, enqueue_pos, sent>> /\ t \in Threads
        /\ thread[t].pc = "swap" /\ t \notin Producers
    BY MpmcAssumption DEF DequeueSwap, Threads
  <1>a. /\ enqueue_pos \in Nat /\ dequeue_pos \in Nat /\ Size \in Nat /\ Size >= 2
        /\ dequeue_pos <= enqueue_pos /\ enqueue_pos <= dequeue_pos + Size
    BY MpmcAssumption DEF Inv, Types, Bounded
  <1>1. CASE /\ dequeue_pos = thread[t].pos
             /\ dequeue_pos' = dequeue_pos + 1
             /\ thread' = [thread EXCEPT ![t].pc = "read"]
    <2>1. Step(t) /\ thread'[t].pc = "read" /\ thread'[t].pos = dequeue_pos
      BY <1>0, <1>1, ZenonT(30) DEF Inv, Types, Registers, Step, Places, Common
    <2>2. seq[cell(dequeue_pos)] = dequeue_pos + 1
      BY <1>0, <1>1 DEF Inv, Chosen
    <2>3. dequeue_pos < enqueue_pos /\ data[cell(dequeue_pos)] = sent[dequeue_pos + 1]
      BY <1>a, <2>2 DEF Inv, Window
    <2>4. Types'
      <3>1. dequeue_pos' \in Nat /\ dequeue_pos <= dequeue_pos' /\ thread'[t].pos <= dequeue_pos'
        BY <1>1, <1>a, <2>1
      <3> QED BY <1>0, <2>1, <3>1, StepTypes DEF Inv, Types, Common
    <2>5. Bounded'
      BY <1>0, <1>a, <1>1, <2>3 DEF Bounded
    <2>6. Window'
      <3> SUFFICES ASSUME NEW p \in Nat, dequeue_pos + 1 <= p, p < dequeue_pos + 1 + Size
                   PROVE  IF p < enqueue_pos
                          THEN \/ seq[cell(p)] = p
                               \/ seq[cell(p)] = p + 1 /\ data[cell(p)] = sent[p + 1]
                          ELSE seq[cell(p)] = p \/ seq[cell(p)] + Size = p + 1
        BY <1>0, <1>1, Zenon DEF Window, cell
      <3>1. CASE p < dequeue_pos + Size BY <3>1, <1>a DEF Inv, Window
      <3>2. CASE p = dequeue_pos + Size
        <4>1. cell(p) = cell(dequeue_pos) BY <3>2, <1>a, CellNext
        <4> QED BY <4>1, <3>2, <2>2, <1>a
      <3> QED BY <3>1, <3>2, <1>a
    <2>7. Writers'
      <3> SUFFICES ASSUME NEW u \in Threads, Writing(u)'
                   PROVE  /\ dequeue_pos + 1 <= thread'[u].pos /\ thread'[u].pos < enqueue_pos
                          /\ seq[cell(thread'[u].pos)] = thread'[u].pos
                          /\ thread'[u].value = sent[thread'[u].pos + 1]
                          /\ thread'[u].pc = "store" =>
                                data[cell(thread'[u].pos)] = sent[thread'[u].pos + 1]
        BY <1>0, <1>1, Zenon DEF Writers, cell
      <3>1. thread'[u] = thread[u] /\ Writing(u) /\ thread[u].pos \in Nat
        BY <1>0, <2>1 DEF Step, Writing, Inv, Types, Registers
      <3>2. thread[u].pos # dequeue_pos BY <3>1, <2>2, <1>a DEF Inv, Writers
      <3> QED BY <3>1, <3>2, <1>a DEF Inv, Writers
    <2>8. Readers'
      <3> SUFFICES ASSUME NEW u \in Threads, Reading(u)'
                   PROVE  /\ thread'[u].pos < dequeue_pos + 1
                          /\ enqueue_pos <= thread'[u].pos + Size
                          /\ seq[cell(thread'[u].pos)] = thread'[u].pos + 1
                          /\ data[cell(thread'[u].pos)] = sent[thread'[u].pos + 1]
                          /\ thread'[u].pc = "free" => thread'[u].value = sent[thread'[u].pos + 1]
        BY <1>0, <1>1, Zenon DEF Readers, cell
      <3>1. CASE u = t BY <3>1, <2>1, <2>2, <2>3, <1>a
      <3>2. CASE u # t
        <4>1. thread'[u] = thread[u] /\ Reading(u) /\ thread[u].pos \in Nat
          BY <3>2, <2>1 DEF Step, Reading, Inv, Types, Registers
        <4> QED BY <4>1, <1>a DEF Inv, Readers
      <3> QED BY <3>1, <3>2
    <2>9. Apart'
      <3>1. \A u \in Threads : Reading(u) => thread[u].pos # dequeue_pos
        BY <1>a DEF Inv, Readers
      <3> QED BY <3>1, <2>1 DEF Inv, Apart, Step, Writing, Reading
    <2>10. Chosen'
      <3> SUFFICES ASSUME NEW u \in Threads, thread'[u].pc = "swap"
                   PROVE  /\ u \in Producers /\ thread'[u].pos = enqueue_pos
                                => seq[cell(enqueue_pos)] = enqueue_pos
                          /\ u \in Consumers => thread'[u].pos # dequeue_pos + 1
        BY <1>0, <1>1, Zenon DEF Chosen, cell
      <3>1. thread'[u] = thread[u] BY <2>1 DEF Step
      <3>2. u \in Consumers => thread[u].pos <= dequeue_pos BY DEF Inv, Types
      <3> QED BY <3>1, <3>2, <1>a DEF Inv, Chosen
    <2> QED BY <2>4, <2>5, <2>6, <2>7, <2>8, <2>9, <2>10 DEF Inv
  <1>2. CASE /\ thread' = [thread EXCEPT ![t].pc = "seq", ![t].pos = dequeue_pos]
             /\ UNCHANGED dequeue_pos
    <2>1. Step(t) /\ thread'[t].pc = "seq" /\ thread'[t].pos = dequeue_pos
      BY <1>0, <1>2, ZenonT(30) DEF Inv, Types, Registers, Step, Places, Common
    <2> QED BY <1>0, <1>2, <2>1, Retreats, Zenon
  <1> QED BY <1>1, <1>2 DEF DequeueSwap

\* Taking the data out of the cell keeps the invariant.
LEMMA DequeueReadInv ==
  ASSUME Inv, NEW t \in Consumers, DequeueRead(t)
  PROVE  Inv'
  <1>0. /\ UNCHANGED <<seq, data, enqueue_pos, dequeue_pos, sent>> /\ t \in Threads
        /\ thread[t].pc = "read" /\ Reading(t) /\ t \notin Producers
    BY MpmcAssumption DEF DequeueRead, Threads, Reading
  <1>1. PICK x \in Nat : x = thread[t].pos
    BY <1>0 DEF Inv, Types, Registers
  <1>2. /\ cell(x) \in 0..(Size - 1) /\ data[cell(x)] = sent[x + 1]
        /\ data[cell(x)] \in Values \cup {None}
    <2>1. cell(x) \in 0..(Size - 1) BY Rounds
    <2> QED BY <2>1, <1>0, <1>1 DEF Inv, Readers, Types
  <1>3. thread' = [thread EXCEPT ![t].pc = "free", ![t].value = data[cell(x)]]
    BY <1>1 DEF DequeueRead
  <1>4. /\ Step(t) /\ thread'[t].pc = "free" /\ thread'[t].pos = x
        /\ thread'[t].value = sent[x + 1]
    BY <1>0, <1>1, <1>2, <1>3, ZenonT(30) DEF Inv, Types, Registers, Step, Places, Common
  <1>5. Types'
    <2>1. thread'[t].pos <= dequeue_pos BY <1>1, <1>4 DEF Inv, Types
    <2> QED BY <1>0, <1>4, <2>1, StepTypes DEF Inv, Types, Common
  <1>6. Bounded' /\ Window'
    BY <1>0 DEF Inv, Bounded, Window, cell
  <1>7. Writers'
    <2>1. \A u \in Threads : Writing(u)' => thread'[u] = thread[u]
      BY <1>4 DEF Step, Writing
    <2> QED BY <1>0, <2>1 DEF Inv, Writers, Writing, cell
  <1>8. Readers'
    <2> SUFFICES ASSUME NEW u \in Threads, Reading(u)'
                 PROVE  /\ thread'[u].pos < dequeue_pos /\ enqueue_pos <= thread'[u].pos + Size
                        /\ seq[cell(thread'[u].pos)] = thread'[u].pos + 1
                        /\ data[cell(thread'[u].pos)] = sent[thread'[u].pos + 1]
                        /\ thread'[u].pc = "free" => thread'[u].value = sent[thread'[u].pos + 1]
      BY <1>0, Zenon DEF Readers, cell
    <2>1. CASE u = t BY <2>1, <1>0, <1>1, <1>4 DEF Inv, Readers
    <2>2. CASE u # t
      <3>1. thread'[u] = thread[u] /\ Reading(u) BY <2>2, <1>4 DEF Step, Reading
      <3> QED BY <3>1 DEF Inv, Readers
    <2> QED BY <2>1, <2>2
  <1>9. Apart'
    BY <1>0, <1>1, <1>4 DEF Inv, Apart, Step, Writing, Reading
  <1>10. Chosen'
    BY <1>0, <1>4 DEF Inv, Chosen, Step, cell
  <1> QED BY <1>5, <1>6, <1>7, <1>8, <1>9, <1>10 DEF Inv

\* The store frees the cell for the position one round later.
LEMMA DequeueStoreInv ==
  ASSUME Inv, NEW t \in Consumers, DequeueStore(t)
  PROVE  Inv'
  <1>0. /\ UNCHANGED <<data, enqueue_pos, dequeue_pos, sent>> /\ t \in Threads
        /\ thread[t].pc = "free" /\ Reading(t) /\ t \notin Producers
    BY MpmcAssumption DEF DequeueStore, Threads, Reading
  <1>a. /\ enqueue_pos \in Nat /\ dequeue_pos \in Nat /\ Size \in Nat /\ Size >= 2
        /\ dequeue_pos <= enqueue_pos /\ enqueue_pos <= dequeue_pos + Size
    BY MpmcAssumption DEF Inv, Types, Bounded
  <1>1. PICK x \in Nat : x = thread[t].pos
    BY <1>0 DEF Inv, Types, Registers
  <1>2. /\ cell(x) \in 0..(Size - 1) /\ seq[cell(x)] = x + 1
        /\ x < dequeue_pos /\ enqueue_pos <= x + Size
    BY <1>0, <1>1, Rounds DEF Inv, Readers
  <1>3. Step(t) /\ thread'[t].pc = "idle" /\ thread'[t].pos = x
    BY <1>0, <1>1, ZenonT(30) DEF DequeueStore, Inv, Types, Registers, Step, Places, Common
  <1>4. seq' = [seq EXCEPT ![cell(x)] = x + Size] /\ x + Size \in Nat
    BY <1>1, <1>a DEF DequeueStore
  <1>5. /\ seq' \in [0..(Size - 1) -> Nat] /\ seq'[cell(x)] = x + Size
        /\ \A i \in 0..(Size - 1) : i # cell(x) => seq'[i] = seq[i]
    BY <1>2, <1>4 DEF Inv, Types
  <1>6. Types'
    <2>1. thread'[t].pos <= dequeue_pos BY <1>2, <1>3, <1>a
    <2> QED BY <1>0, <1>3, <1>5, <2>1, StepTypes DEF Inv, Types, Common
  <1>7. Window'
    <2> SUFFICES ASSUME NEW p \in Nat, dequeue_pos <= p, p < dequeue_pos + Size
                 PROVE  IF p < enqueue_pos
                        THEN \/ seq'[cell(p)] = p
                             \/ seq'[cell(p)] = p + 1 /\ data[cell(p)] = sent[p + 1]
                        ELSE seq'[cell(p)] = p \/ seq'[cell(p)] + Size = p + 1
      BY <1>0, Zenon DEF Window, cell
    <2>1. CASE cell(p) = cell(x)
      <3>1. p = x + Size BY <1>0, <1>1, <2>1, ReaderCell
      <3> QED BY <3>1, <2>1, <1>2, <1>5, <1>a
    <2>2. CASE cell(p) # cell(x)
      <3>1. seq'[cell(p)] = seq[cell(p)] BY <2>2, <1>5, Rounds, Zenon
      <3> QED BY <3>1 DEF Inv, Window
    <2> QED BY <2>1, <2>2
  <1>8. Writers'
    <2> SUFFICES ASSUME NEW u \in Threads, Writing(u)'
                 PROVE  /\ dequeue_pos <= thread'[u].pos /\ thread'[u].pos < enqueue_pos
                        /\ seq'[cell(thread'[u].pos)] = thread'[u].pos
                        /\ thread'[u].value = sent[thread'[u].pos + 1]
                        /\ thread'[u].pc = "store" =>
                              data[cell(thread'[u].pos)] = sent[thread'[u].pos + 1]
      BY <1>0, Zenon DEF Writers, cell
    <2>1. thread'[u] = thread[u] /\ Writing(u) /\ thread[u].pos \in Nat
      BY <1>0, <1>3 DEF Step, Writing, Inv, Types, Registers
    <2>2. cell(thread[u].pos) # cell(x) BY <1>0, <1>1, <2>1, ReaderCell
    <2>3. seq'[cell(thread[u].pos)] = seq[cell(thread[u].pos)]
      BY <2>1, <2>2, <1>5, Rounds, Zenon
    <2> QED BY <2>1, <2>3 DEF Inv, Writers
  <1>9. Readers'
    <2> SUFFICES ASSUME NEW u \in Threads, Reading(u)'
                 PROVE  /\ thread'[u].pos < dequeue_pos /\ enqueue_pos <= thread'[u].pos + Size
                        /\ seq'[cell(thread'[u].pos)] = thread'[u].pos + 1
                        /\ data[cell(thread'[u].pos)] = sent[thread'[u].pos + 1]
                        /\ thread'[u].pc = "free" => thread'[u].value = sent[thread'[u].pos + 1]
      BY <1>0, Zenon DEF Readers, cell
    <2>0. u # t BY <1>3 DEF Reading
    <2>1. thread'[u] = thread[u] /\ Reading(u) /\ thread[u].pos \in Nat
      BY <2>0, <1>3 DEF Step, Reading, Inv, Types, Registers
    <2>2. cell(thread[u].pos) # cell(x) BY <1>0, <1>1, <2>0, <2>1, ReaderCell
    <2>3. seq'[cell(thread[u].pos)] = seq[cell(thread[u].pos)]
      BY <2>1, <2>2, <1>5, Rounds, Zenon
    <2> QED BY <2>1, <2>3 DEF Inv, Readers
  <1>10. Bounded' /\ Apart'
    BY <1>0, <1>3 DEF Inv, Bounded, Apart, Step, Writing, Reading
  <1>11. Chosen'
    <2> SUFFICES ASSUME NEW u \in Threads, thread'[u].pc = "swap"
                 PROVE  /\ u \in Producers /\ thread'[u].pos = enqueue_pos
                              => seq'[cell(enqueue_pos)] = enqueue_pos
                        /\ u \in Consumers /\ thread'[u].pos = dequeue_pos
                              => seq'[cell(dequeue_pos)] = dequeue_pos + 1
      BY <1>0, Zenon DEF Chosen, cell
    <2>1. thread'[u] = thread[u] BY <1>3 DEF Step
    <2>2. ASSUME u \in Producers, thread'[u].pos = enqueue_pos
          PROVE  seq'[cell(enqueue_pos)] = enqueue_pos
      <3>1. seq[cell(enqueue_pos)] = enqueue_pos BY <2>1, <2>2 DEF Inv, Chosen
      <3>2. cell(enqueue_pos) # cell(x)
        <4> SUFFICES ASSUME cell(enqueue_pos) = cell(x) PROVE FALSE OBVIOUS
        <4>1. enqueue_pos = x + 1 BY <3>1, <1>2
        <4>2. x <= enqueue_pos /\ enqueue_pos < x + Size BY <4>1, <1>a
        <4>3. x = enqueue_pos BY <4>2, <1>a, CellSame
        <4> QED BY <4>1, <4>3
      <3> QED BY <3>1, <3>2, <1>5, <1>a, Rounds, Zenon
    <2>3. ASSUME u \in Consumers, thread'[u].pos = dequeue_pos
          PROVE  seq'[cell(dequeue_pos)] = dequeue_pos + 1
      <3>1. seq[cell(dequeue_pos)] = dequeue_pos + 1 BY <2>1, <2>3 DEF Inv, Chosen
      <3>2. cell(dequeue_pos) # cell(x) BY <3>1, <1>2, <1>a
      <3> QED BY <3>1, <3>2, <1>5, <1>a, Rounds, Zenon
    <2> QED BY <2>2, <2>3
  <1> QED BY <1>6, <1>7, <1>8, <1>9, <1>10, <1>11 DEF Inv

\* Every step of the bounded queue, and every stuttering step, keeps the invariant.
LEMMA NextInv == Inv /\ [Next]_vars => Inv'
  <1> SUFFICES ASSUME Inv, [Next]_vars PROVE Inv'
    OBVIOUS
  <1>0. /\ enqueue_pos \in Nat /\ dequeue_pos \in Nat
        /\ \A t \in Threads : thread[t].pos \in Nat /\ thread[t].pos + 1 \in Nat
    BY DEF Inv, Types, Registers
  <1>1. ASSUME NEW t \in Producers, Enqueue(t) PROVE Inv'
    <2>0. t \in Threads /\ t \notin Consumers BY MpmcAssumption DEF Threads
    <2>1. CASE Load(t, enqueue_pos) BY <2>0, <2>1, <1>0, LoadInv
    <2>2. CASE LoadSeq(t, thread[t].pos) BY <2>0, <2>2, <1>0, LoadSeqInv
    <2>3. ASSUME NEW value \in Values, EnqueueSwap(t, value) PROVE Inv'
      BY <2>3, EnqueueSwapInv
    <2>4. CASE EnqueueWrite(t) BY <2>4, EnqueueWriteInv
    <2>5. CASE EnqueueStore(t) BY <2>5, EnqueueStoreInv
    <2> QED BY <1>1, <2>1, <2>2, <2>3, <2>4, <2>5 DEF Enqueue
  <1>2. ASSUME NEW t \in Consumers, Dequeue(t) PROVE Inv'
    <2>0. t \in Threads /\ t \notin Producers BY MpmcAssumption DEF Threads
    <2>1. CASE Load(t, dequeue_pos) BY <2>0, <2>1, <1>0, LoadInv
    <2>2. CASE LoadSeq(t, thread[t].pos + 1) BY <2>0, <2>2, <1>0, LoadSeqInv
    <2>3. CASE DequeueSwap(t) BY <2>3, DequeueSwapInv
    <2>4. CASE DequeueRead(t) BY <2>4, DequeueReadInv
    <2>5. CASE DequeueStore(t) BY <2>5, DequeueStoreInv
    <2> QED BY <1>2, <2>1, <2>2, <2>3, <2>4, <2>5 DEF Dequeue
  <1>3. CASE UNCHANGED vars
    <2>1. UNCHANGED <<seq, data, enqueue_pos, dequeue_pos, thread, sent>>
      BY <1>3 DEF vars
    <2>2. Types' /\ Bounded' /\ Window'
      BY <2>1 DEF Inv, Types, Bounded, Window, cell
    <2>3. Writers' /\ Readers'
      BY <2>1, Zenon DEF Inv, Writers, Readers, Writing, Reading, cell
    <2>4. Apart' /\ Chosen'
      BY <2>1, Zenon DEF Inv, Apart, Chosen, Writing, Reading, cell
    <2> QED BY <2>2, <2>3, <2>4 DEF Inv
  <1> QED BY <1>1, <1>2, <1>3 DEF Next
-----------------------------------------------------------------------------
(* The theorems. *)

\* Whatever the size of the queue and however many threads enqueue and dequeue, the
\* invariant above holds.
THEOREM Invariance == Spec => []Inv
  BY InitInv, NextInv, PTL DEF Spec

\* The queue is first in, first out: dequeue() returns what enqueue() put at its
\* position.
THEOREM FirstInFirstOut == Spec => []InOrder
  <1>1. Inv => InOrder
    BY MpmcAssumption DEF Inv, InOrder, Readers, Reading, Threads
  <1> QED BY <1>1, Invariance, PTL

\* Between its exchange and its store a call of enqueue() or dequeue() has its cell
\* for itself.
THEOREM Exclusive == Spec => []OwnCell
  <1>1. Inv => OwnCell
    <2> SUFFICES ASSUME Inv, NEW t \in Threads, NEW u \in Threads,
                        thread[t].pc \in {"write", "store", "read", "free"},
                        thread[u].pc \in {"write", "store", "read", "free"},
                        cell(thread[t].pos) = cell(thread[u].pos)
                 PROVE  t = u
      BY DEF OwnCell
    <2>1. (Writing(t) \/ Reading(t)) /\ (Writing(u) \/ Reading(u))
      BY DEF Inv, Types, Common, Writing, Reading, Threads
    <2>2. CASE Writing(t) BY <2>1, <2>2, WriterCell
    <2>3. CASE Reading(t) BY <2>1, <2>3, ReaderCell
    <2> QED BY <2>1, <2>2, <2>3
  <1> QED BY <1>1, Invariance, PTL

\* The queue never holds more than buffer_size items.
THEOREM NeverOverfull == Spec => []Bounded
  <1>1. Inv => Bounded
    BY DEF Inv
  <1> QED BY <1>1, Invariance, PTL
=============================================================================
