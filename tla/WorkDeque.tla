------------------------------ MODULE WorkDeque ------------------------------
(***************************************************************************)
(* The work-stealing deque (include/ten/work_deque.hh): one owner pushes   *)
(* and takes, thieves steal.  A step is one access to memory that another  *)
(* thread may see; the arithmetic is that of size_t with Word values.      *)
(***************************************************************************)
EXTENDS Integers, Sequences, FiniteSets, TLC

CONSTANTS Thieves, None, Garbage,
          Word,       \* size_t is 0..Word-1
          LogSize,    \* the size of the first array is 2^LogSize
          MaxItems,   \* how many items the owner pushes
          Reorders,   \* the store of take() may be seen after its next load
          TakesFresh  \* whether take() comes before the first push()

VARIABLES top, bottom,
          array,   \* _array: which of arrays
          arrays,  \* the arrays so far: [size, item, freed]
          late,    \* the store to _bottom that only the owner sees, or None
          owner,   \* registers of the owner
          thief,   \* and of the thieves
          pushed,  \* how many items were pushed: they are numbered from 1
          got      \* how often an item was taken or stolen

vars == <<top, bottom, array, arrays, late, owner, thief, pushed, got>>

Minus(x, y) == (x - y) % Word
Plus(x, y) == (x + y) % Word
Signed(x) == IF x >= Word \div 2 THEN x - Word ELSE x
Items == 1..MaxItems
Slots(size, item) == [size |-> size, item |-> item, freed |-> FALSE]
Get(a, i) == arrays[a].item[i % arrays[a].size]
Own == IF late = None THEN bottom ELSE late      \* _bottom as the owner sees it
Count(x) == got' = [got EXCEPT ![x] = @ + 1]
Span == Signed(Minus(bottom, top))

Init ==
    /\ top = 0 /\ bottom = 0 /\ array = 1 /\ late = None /\ pushed = 0
    /\ arrays = <<Slots(2^LogSize, [i \in 0..(2^LogSize - 1) |-> Garbage])>>
    /\ owner = [pc |-> "idle", b |-> 0, t |-> 0]
    /\ thief = [h \in Thieves |->
                  [pc |-> "idle", t |-> 0, old |-> 1, b |-> 0, a |-> 1, x |-> None, size |-> 0]]
    /\ got = [x \in Items \cup {Garbage} |-> 0]

Goto(place) == owner' = [owner EXCEPT !.pc = place]
-----------------------------------------------------------------------------
(* push *)

\* array::grow, and the exchange of _array.
Grown(a, t, b) ==
    LET size == 2 * arrays[a].size
        from(i) == {j \in t..(b - 1) : j % size = i}
    IN  Slots(size, [i \in 0..(size - 1) |->
                       IF from(i) = {} THEN Garbage
                       ELSE Get(a, CHOOSE j \in from(i) : \A k \in from(i) : k <= j)])

Push ==
    LET b == Own IN
    /\ owner.pc = "idle" /\ pushed < MaxItems
    /\ pushed' = pushed + 1
    /\ owner' = [pc |-> IF Minus(b, top) > arrays[array].size - 1 THEN "grow" ELSE "put",
                 b |-> b, t |-> top]
    /\ UNCHANGED <<top, bottom, array, arrays, late, thief, got>>

PushGrow ==
    /\ owner.pc = "grow" /\ late = None
    /\ arrays' = Append(arrays, Grown(array, owner.t, owner.b))
    /\ array' = Len(arrays) + 1
    /\ Goto("shift")
    /\ UNCHANGED <<top, bottom, late, thief, pushed, got>>

PushShift ==
    /\ owner.pc = "shift"
    /\ bottom' = Plus(owner.b, arrays[array].size)
    /\ Goto("shift top")
    /\ UNCHANGED <<top, array, arrays, late, thief, pushed, got>>

PushLoad ==
    /\ owner.pc = "shift top"
    /\ owner' = [owner EXCEPT !.pc = "swap top", !.t = top]
    /\ UNCHANGED <<top, bottom, array, arrays, late, thief, pushed, got>>

\* Mutant of PushSwap: _bottom is not put back when a thief was faster.
PushSwapOnly ==
    /\ owner.pc = "swap top"
    /\ top' = IF top = owner.t THEN Plus(top, arrays[array].size) ELSE top
    /\ owner' = [owner EXCEPT !.pc = "delete", !.b = bottom]
    /\ UNCHANGED <<bottom, array, arrays, late, thief, pushed, got>>

PushSwap ==
    /\ owner.pc = "swap top"
    /\ IF top = owner.t
          THEN top' = Plus(top, arrays[array].size) /\ UNCHANGED bottom
          ELSE bottom' = owner.b /\ UNCHANGED top
    /\ owner' = [owner EXCEPT !.pc = "delete", !.b = bottom']
    /\ UNCHANGED <<array, arrays, late, thief, pushed, got>>

PushDelete ==
    /\ owner.pc = "delete"
    /\ arrays' = [arrays EXCEPT ![array - 1].freed = TRUE]
    /\ Goto("put")
    /\ UNCHANGED <<top, bottom, array, late, thief, pushed, got>>

PushPut ==
    /\ owner.pc = "put" /\ late = None
    /\ arrays' = [arrays EXCEPT ![array].item[owner.b % arrays[array].size] = pushed]
    /\ Goto("publish")
    /\ UNCHANGED <<top, bottom, array, late, thief, pushed, got>>

PushPublish ==
    /\ owner.pc = "publish"
    /\ bottom' = Plus(owner.b, 1)
    /\ Goto("idle")
    /\ UNCHANGED <<top, array, arrays, late, thief, pushed, got>>
-----------------------------------------------------------------------------
(* take *)

\* The store is a release store: the load of _top may come before it is seen.
Take ==
    LET b == Minus(Own, 1) IN
    /\ owner.pc = "idle" /\ (pushed > 0 \/ TakesFresh)
    /\ IF Reorders THEN late = None /\ late' = b /\ UNCHANGED bottom
                   ELSE bottom' = b /\ UNCHANGED late
    /\ owner' = [pc |-> "take", b |-> b, t |-> 0]
    /\ UNCHANGED <<top, array, arrays, thief, pushed, got>>

Seen ==
    /\ late # None
    /\ bottom' = late /\ late' = None
    /\ UNCHANGED <<top, array, arrays, owner, thief, pushed, got>>

TakeTop ==
    /\ owner.pc = "take"
    /\ owner' = [owner EXCEPT !.t = top,
                   !.pc = IF top < owner.b THEN "idle"
                          ELSE IF top = owner.b THEN "take last" ELSE "restore"]
    /\ IF top < owner.b THEN Count(Get(array, owner.b)) ELSE UNCHANGED got
    /\ UNCHANGED <<top, bottom, array, arrays, late, thief, pushed>>


TakeLast ==
    /\ owner.pc = "take last" /\ late = None
    /\ IF top = owner.t
          THEN top' = Plus(top, 1) /\ Count(Get(array, owner.b))
          ELSE UNCHANGED <<top, got>>
    /\ Goto("restore")
    /\ UNCHANGED <<bottom, array, arrays, late, thief, pushed>>

\* Mutant of TakeRestore: _bottom stays below _top.
TakeRestoreNot ==
    /\ owner.pc = "restore" /\ late = None
    /\ Goto("idle")
    /\ UNCHANGED <<top, bottom, array, arrays, late, thief, pushed, got>>

TakeRestore ==
    /\ owner.pc = "restore" /\ late = None
    /\ bottom' = Plus(owner.b, 1)
    /\ Goto("idle")
    /\ UNCHANGED <<top, array, arrays, late, thief, pushed, got>>
-----------------------------------------------------------------------------
(* steal *)

StealTop(h) ==
    /\ thief[h].pc \in {"idle", "empty"}
    /\ thief' = [thief EXCEPT ![h].pc = "old", ![h].t = top]
    /\ UNCHANGED <<top, bottom, array, arrays, late, owner, pushed, got>>

StealOld(h) ==
    /\ thief[h].pc = "old"
    /\ thief' = [thief EXCEPT ![h].pc = "bottom", ![h].old = array]
    /\ UNCHANGED <<top, bottom, array, arrays, late, owner, pushed, got>>

StealBottom(h) ==
    /\ thief[h].pc = "bottom"
    /\ thief' = [thief EXCEPT ![h].pc = "array", ![h].b = bottom, ![h].size = Span]
    /\ UNCHANGED <<top, bottom, array, arrays, late, owner, pushed, got>>

\* Mutant of StealArray: the last item is left to the owner.
StealArrayLess(h) ==
    LET size == Signed(Minus(thief[h].b, thief[h].t)) IN
    /\ thief[h].pc = "array"
    /\ thief' = [thief EXCEPT ![h].a = array, ![h].pc = IF size <= 1 THEN "empty" ELSE "get"]
    /\ UNCHANGED <<top, bottom, array, arrays, late, owner, pushed, got>>

StealArray(h) ==
    LET size == Signed(Minus(thief[h].b, thief[h].t)) IN
    /\ thief[h].pc = "array"
    /\ thief' = [thief EXCEPT ![h].a = array,
                   ![h].pc = IF size <= 0 THEN "empty"
                             ELSE IF size % arrays[array].size = 0 THEN "full" ELSE "get"]
    /\ UNCHANGED <<top, bottom, array, arrays, late, owner, pushed, got>>

StealFull(h) ==
    /\ thief[h].pc = "full"
    /\ thief' = [thief EXCEPT ![h].pc = IF thief[h].a = thief[h].old /\ thief[h].t = top
                                           THEN "empty" ELSE "idle"]
    /\ UNCHANGED <<top, bottom, array, arrays, late, owner, pushed, got>>

\* The memory of a deleted array may hold anything.
StealGet(h) ==
    /\ thief[h].pc = "get"
    /\ thief' = [thief EXCEPT ![h].pc = "swap",
                   ![h].x = IF arrays[thief[h].a].freed THEN Garbage
                            ELSE Get(thief[h].a, thief[h].t)]
    /\ UNCHANGED <<top, bottom, array, arrays, late, owner, pushed, got>>

StealSwap(h) ==
    /\ thief[h].pc = "swap"
    /\ IF top = thief[h].t
          THEN top' = Plus(top, 1) /\ Count(thief[h].x)
          ELSE UNCHANGED <<top, got>>
    /\ thief' = [thief EXCEPT ![h].pc = "idle", ![h].x = None]
    /\ UNCHANGED <<bottom, array, arrays, late, owner, pushed>>
-----------------------------------------------------------------------------
Owner ==
    \/ Push \/ PushGrow \/ PushShift \/ PushLoad \/ PushSwap \/ PushDelete \/ PushPut
    \/ PushPublish \/ Take \/ TakeTop \/ TakeLast \/ TakeRestore \/ Seen

Steal(h) ==
    \/ StealTop(h) \/ StealOld(h) \/ StealBottom(h) \/ StealArray(h)
    \/ StealFull(h) \/ StealGet(h) \/ StealSwap(h)

Next == Owner \/ \E h \in Thieves : Steal(h)

Spec == Init /\ [][Next]_vars
-----------------------------------------------------------------------------
(* Properties. *)

\* No item is taken or stolen twice, and what is taken or stolen was pushed: a thief
\* that read a deleted array loses the race for _top.
AtMostOnce == got[Garbage] = 0 /\ \A x \in Items : got[x] <= 1

\* Between the calls of the owner and of thieves at their last step, an item is in the
\* deque or was taken or stolen.
NothingLost ==
    owner.pc = "idle" /\ late = None =>
        LET inside == {Get(array, Plus(top, i)) : i \in 0..(Span - 1)}
        IN  /\ Span >= 0
            /\ \A x \in 1..pushed : got[x] = 0 <=> x \in inside

\* A steal that says "empty" found the deque empty when it read _bottom.
EmptyIsEmpty == \A h \in Thieves : thief[h].pc = "empty" => thief[h].size <= 0
=============================================================================
