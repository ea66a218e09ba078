----------------------------- MODULE StackAlloc -----------------------------
(***************************************************************************)
(* stack_allocator (src/stack_alloc.cc) under context (src/context.cc):    *)
(* the stacks of tasks, which each thread caches, and the flag by which an *)
(* allocation that fails in one thread makes the others give stacks back.  *)
(***************************************************************************)
EXTENDS Naturals, Sequences, Functions, FiniteSets

CONSTANTS Threads,
          MaxStacks,  \* bound: stacks that fit in memory; their addresses are 1..MaxStacks
          Sizes       \* what kernel(stacksize) may be given

VARIABLES default_stacksize,
          mapped,     \* the mappings: address -> size, 0 for none
          cache,      \* stack_cache of the thread
          live,       \* the stacks of contexts: address -> the size they ask for
          alloc_fail,
          aborted     \* a CHECK has failed

vars == <<default_stacksize, mapped, cache, live, alloc_fail, aborted>>

Stacks == 1..MaxStacks

Init == /\ default_stacksize \in Sizes
        /\ mapped = [s \in Stacks |-> 0] /\ live = [s \in Stacks |-> 0]
        /\ cache = [th \in Threads |-> <<>>]
        /\ alloc_fail = FALSE /\ aborted = FALSE

(* erase of the last n entries, whose destructors unmap the stacks: what   *)
(* stays of q, and m without what went.                                    *)
KeptBy(q) == SubSeq(q, 1, Len(q) - Len(q) \div 5)
Unmap(m, gone) == [s \in Stacks |-> IF s \in gone THEN 0 ELSE m[s]]

gc_cache(th, q, m) ==
  /\ cache' = [cache EXCEPT ![th] = KeptBy(q)]
  /\ mapped' = Unmap(m, Range(q) \ Range(KeptBy(q)))

(* allocate with an empty cache: mmap and mprotect, each of which may fail. *)
allocateMaps(th) ==
  LET free == {s \in Stacks : mapped[s] = 0}
      s == CHOOSE i \in free : \A j \in free : i <= j
  IN /\ cache[th] = <<>>
     /\ \/ alloc_fail' = TRUE /\ UNCHANGED <<mapped, live>>
        \/ /\ free # {}
           /\ mapped' = [mapped EXCEPT ![s] = default_stacksize]
           /\ live' = [live EXCEPT ![s] = default_stacksize]
           /\ UNCHANGED alloc_fail
     /\ UNCHANGED <<cache, aborted>>

allocateReuses(th) ==
  LET q == cache[th]
      s == q[Len(q)]
      rest == SubSeq(q, 1, Len(q) - 1)
  IN /\ q # <<>>
     /\ IF mapped[s] # default_stacksize
        THEN aborted' = TRUE /\ UNCHANGED <<cache, mapped, live, alloc_fail>>
        ELSE /\ live' = [live EXCEPT ![s] = default_stacksize]
             /\ IF rest # <<>> /\ alloc_fail
                THEN gc_cache(th, rest, mapped) /\ alloc_fail' = FALSE
                ELSE cache' = [cache EXCEPT ![th] = rest] /\ UNCHANGED <<mapped, alloc_fail>>
             /\ UNCHANGED aborted

allocate(th) == /\ ~aborted
                /\ allocateMaps(th) \/ allocateReuses(th)
                /\ UNCHANGED default_stacksize

deallocateLeaks(th, s) ==  \* mutant: a stack that cannot be cached is forgotten
  /\ ~aborted /\ live[s] # 0
  /\ live' = [live EXCEPT ![s] = 0]
  /\ \/ cache' = [cache EXCEPT ![th] = Append(@, s)]
     \/ UNCHANGED cache
  /\ UNCHANGED <<mapped, default_stacksize, alloc_fail, aborted>>

(* deallocate, in the thread that destroys the context; emplace_back may   *)
(* throw.                                                                  *)
deallocate(th, s) ==
  /\ ~aborted /\ live[s] # 0
  /\ live' = [live EXCEPT ![s] = 0]
  /\ IF cache[th] # <<>> /\ alloc_fail
     THEN gc_cache(th, cache[th], Unmap(mapped, {s})) /\ alloc_fail' = FALSE
     ELSE /\ \/ cache' = [cache EXCEPT ![th] = Append(@, s)] /\ UNCHANGED mapped
             \/ mapped' = Unmap(mapped, {s}) /\ UNCHANGED cache
          /\ UNCHANGED alloc_fail
  /\ UNCHANGED <<default_stacksize, aborted>>

(* The thread ends: ~vector of its cache, by thread_cached. *)
ThreadEnds(th) ==
  /\ ~aborted /\ cache[th] # <<>>
  /\ cache' = [cache EXCEPT ![th] = <<>>]
  /\ mapped' = Unmap(mapped, Range(cache[th]))
  /\ UNCHANGED <<default_stacksize, live, alloc_fail, aborted>>

kernel(stacksize) ==
  /\ ~aborted /\ default_stacksize' = stacksize
  /\ UNCHANGED <<mapped, cache, live, alloc_fail, aborted>>

Next ==
  \/ \E th \in Threads : \/ allocate(th) \/ ThreadEnds(th)
                         \/ \E s \in Stacks : deallocate(th, s)
  \/ \E stacksize \in Sizes : kernel(stacksize)

Spec == Init /\ [][Next]_vars

-----------------------------------------------------------------------------
(* Every mapping is the stack of one context or is in one cache, once, and *)
(* nothing else is mapped: no stack is run on twice, leaked, or used after *)
(* munmap, whatever fails in whichever thread.                             *)
OneOwner ==
  /\ \A th \in Threads : IsInjective(cache[th])
  /\ \A s \in Stacks :
       Cardinality({th \in Threads : s \in Range(cache[th])}) + (IF live[s] # 0 THEN 1 ELSE 0)
         = (IF mapped[s] # 0 THEN 1 ELSE 0)

(* CHECK(reuse.size == stack_size) of allocate. *)
SizesAgree == ~aborted
=============================================================================
