------------------------------- MODULE Buffer -------------------------------
(***************************************************************************)
(* buffer of buffer.hh: the bytes that were read from a socket and not yet *)
(* used, between front and back of a block that reserve compacts or        *)
(* enlarges.  Its numbers are unsigned and of Width bits, 32 in the code.  *)
(* The callers' pattern is reserve, read into back(), commit what was      *)
(* read, use what lies at front(), remove what was used.                   *)
(***************************************************************************)
EXTENDS Integers, Sequences

CONSTANTS Width, Capacity,  \* of the numbers; of the block at first
          Sizes,            \* what the callers ask for
          MaxBytes          \* bound: bytes read in all

VARIABLES capacity, front, back,
          block,    \* the memory: what realloc was asked for, 0-based
          read,     \* history: how many bytes were read; they are 1, 2, ...
          used,     \* history: how many of them were removed
          promised  \* history: what reserve was asked for and not committed

vars == <<capacity, front, back, block, read, used, promised>>

U(n) == n % 2^Width
Size == U(back - front)
Available == U(capacity - back)
Potential == U(capacity - Size)

Init == /\ capacity = Capacity /\ front = 0 /\ back = 0
        /\ block = [i \in 0..Capacity - 1 |-> 0]
        /\ read = 0 /\ used = 0 /\ promised = 0

CompactedForward(b) ==  \* mutant: the bytes are moved one too few
  IF front = 0 THEN b
  ELSE [i \in DOMAIN b |-> IF i + 1 < Size THEN b[front + i] ELSE b[i]]

(* compact: memmove the bytes to the beginning of the block. *)
Compacted(b) ==
  IF front = 0 THEN b
  ELSE [i \in DOMAIN b |-> IF i < Size THEN b[front + i] ELSE b[i]]
CompactBack == IF front = 0 THEN back ELSE Size

compact ==
  /\ block' = Compacted(block) /\ back' = CompactBack /\ front' = 0
  /\ UNCHANGED <<capacity, read, used, promised>>

reserveLazy(n) ==  \* mutant: no compaction when the block could hold the bytes
  /\ IF n > Potential
     THEN /\ capacity' = U(capacity + U(n - Potential))
          /\ block' = [i \in 0..capacity' - 1 |-> IF i \in DOMAIN block THEN Compacted(block)[i] ELSE 0]
          /\ front' = 0 /\ back' = CompactBack
     ELSE UNCHANGED <<capacity, front, back, block>>
  /\ promised' = n
  /\ UNCHANGED <<read, used>>

(* reserve: compacting may be enough, else the block grows by what is      *)
(* missing then.                                                           *)
reserve(n) ==
  LET newcapacity == U(capacity + U(n - Potential))
      moved == Compacted(block)
  IN /\ IF n > Potential
        THEN /\ capacity' = newcapacity
             /\ block' = [i \in 0..newcapacity - 1 |-> IF i \in DOMAIN block THEN moved[i] ELSE 0]
             /\ front' = 0 /\ back' = CompactBack
        ELSE IF n > Available
        THEN block' = moved /\ front' = 0 /\ back' = CompactBack /\ UNCHANGED capacity
        ELSE UNCHANGED <<capacity, front, back, block>>
     /\ promised' = n
     /\ UNCHANGED <<read, used>>

(* A caller reads n bytes into back(), and commit; it never asks for more  *)
(* than available(), which commit would refuse.                            *)
commit(n) ==
  /\ n <= Available /\ read + n <= MaxBytes
  /\ block' = [i \in DOMAIN block |->
                 IF i \in back..(back + n - 1) THEN read + 1 + i - back ELSE block[i]]
  /\ back' = back + n
  /\ read' = read + n
  /\ promised' = IF n < promised THEN promised - n ELSE 0
  /\ UNCHANGED <<capacity, front, used>>

(* remove refuses more than size(); an emptied buffer begins again. *)
remove(n) ==
  /\ n <= Size /\ n > 0
  /\ IF front + n = back THEN front' = 0 /\ back' = 0
     ELSE front' = front + n /\ UNCHANGED back
  /\ used' = used + n
  /\ UNCHANGED <<capacity, block, read, promised>>

Next == \/ compact
        \/ \E n \in Sizes : reserve(n) \/ commit(n) \/ remove(n)

Spec == Init /\ [][Next]_vars

-----------------------------------------------------------------------------
(* Between front() and back() are the bytes that were read and not yet     *)
(* removed, in their order, wherever reserve has moved them.               *)
Contents ==
  /\ back - front = read - used
  /\ \A i \in 0..(back - front - 1) : front + i \in DOMAIN block /\ block[front + i] = used + i + 1

(* "reserve n bytes past back": what reserve was asked for is there, behind *)
(* the committed bytes, until it is committed, whatever is removed or      *)
(* compacted meanwhile.                                                    *)
ReserveRoom == \A i \in 0..(promised - 1) : back + i \in DOMAIN block

=============================================================================
