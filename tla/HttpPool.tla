------------------------------ MODULE HttpPool ------------------------------
(***************************************************************************)
(* http_pool with lifetimes (include/ten/http/client.hh): the SharedPool   *)
(* of http_client, a worker task Lt that replaces the clients that are too *)
(* old and drops the ones that nobody used for long, and the               *)
(* scoped_resource that retires an old client after its last use.          *)
(***************************************************************************)
EXTENDS SharedPool

CONSTANTS Lt,         \* the task of _lt_run, one of Tasks
          Pre, Life,  \* the ages of _pretire and _retire
          MaxNow      \* bound on the clock

VARIABLES now,      \* kernel::now()
          born,     \* when the client was made
          retired,  \* retired of lt_state
          mustdie,  \* _mustdie of the scoped_resource of the task
          alive     \* the http_pool has not been destroyed

httpVars == <<avail, set, waiting, pc, held, token, canceled, now, born, retired, mustdie, alive>>

Borrowers == Tasks \ {Lt}

HttpInit ==
    /\ Init /\ now = 0 /\ retired = 0 /\ alive = TRUE
    /\ born = [r \in Resources |-> 0]
    /\ mustdie = [t \in Tasks |-> FALSE]

pretire_by(r) == now - born[r] >= Pre
retire_by(r) == now - born[r] >= Life

(* new_resource(): the client knows when it must go. *)
NewClient(t) == Create(t) /\ born' = [born EXCEPT ![held'[t]] = now]

(* The constructor of http_scoped_resource: acquire(), and an old client   *)
(* asks for its replacement; the wakeup of Lt only ends its sleep before   *)
(* the deadline does.                                                      *)
Scoped(t) ==
    IF pc'[t] = "using" /\ pretire_by(held'[t])
       THEN mustdie' = [mustdie EXCEPT ![t] = TRUE] /\ retired' = retired + 1
       ELSE UNCHANGED <<mustdie, retired>>

ScopeAcquires(t) ==
    /\ alive
    /\ Acquire(t) \/ Insert(t)
    /\ Scoped(t)
    /\ UNCHANGED <<now, born, alive>>

ScopeEndsAnyhow(t, success) ==  \* mutant: an old client is kept like another
    /\ Discard(t, success)
    /\ mustdie' = [mustdie EXCEPT ![t] = FALSE]
    /\ UNCHANGED <<now, born, retired, alive>>

(* The destructor: an old client is not kept, whatever done() said. *)
ScopeEnds(t, success) ==
    /\ Discard(t, success /\ ~mustdie[t])
    /\ mustdie' = [mustdie EXCEPT ![t] = FALSE]
    /\ UNCHANGED <<now, born, retired, alive>>

Waits(t) ==
    /\ \/ NewClient(t)
       \/ (CreateFails(t) \/ Resume(t) \/ Throw(t)) /\ UNCHANGED born
    /\ UNCHANGED <<now, retired, mustdie, alive>>

-----------------------------------------------------------------------------
(* _lt_run.  With the lock it goes on to the end of the loop's body: the   *)
(* next replacement to create, or else the sweep and the next sleep.       *)

(* The stale clients at the back of the queue q are dropped, in avail and  *)
(* in the pool's set s.                                                    *)
Kept(q) == LET fresh == {i \in DOMAIN q : ~retire_by(q[i])}
               n == CHOOSE k \in fresh \cup {0} : \A i \in fresh : i <= k
           IN SubSeq(q, 1, n)

SweepForgets(q, s) ==  \* mutant: the dropped clients stay in set
    /\ avail' = Kept(q) /\ set' = s /\ Goto(Lt, "asleep")

Sweep(q, s) ==
    /\ avail' = Kept(q)
    /\ set' = s \ Range(SubSeq(q, Len(Kept(q)) + 1, Len(q)))
    /\ Goto(Lt, "asleep")

(* Awake, by worker.wakeup() or by the deadline. *)
LtAwake ==
    /\ pc[Lt] = "asleep"
    /\ IF retired > 0
          THEN Goto(Lt, "creating") /\ UNCHANGED <<avail, set, waiting, token>>
          ELSE /\ Sweep(avail, set)
               /\ IF Kept(avail) # avail THEN Wakeup ELSE UNCHANGED <<waiting, token>>
    /\ UNCHANGED <<held, canceled, now, born, retired, mustdie, alive>>

LtCreates ==
    /\ NewClient(Lt)
    /\ UNCHANGED <<now, retired, mustdie, alive>>

(* The lock again: the new client goes to the front of avail and a waiter  *)
(* is woken; a sweep that drops a client wakes another.                    *)
WakeMany(n) ==
    /\ waiting' = SubSeq(waiting, n + 1, Len(waiting))
    /\ token' = [t \in Tasks |-> token[t] \/ \E i \in 1..n : i <= Len(waiting) /\ waiting[i] = t]

LtInserts ==
    LET q == PushFront(avail, held[Lt])
        s == set \cup {held[Lt]}
    IN
    /\ pc[Lt] = "insert"
    /\ retired' = retired - 1
    /\ held' = [held EXCEPT ![Lt] = None]
    /\ IF retired' > 0
          THEN avail' = q /\ set' = s /\ Goto(Lt, "creating") /\ WakeMany(1)
          ELSE Sweep(q, s) /\ WakeMany(IF Kept(q) # q THEN 2 ELSE 1)
    /\ UNCHANGED <<canceled, now, born, mustdie, alive>>


(* new_with_lock throws without the lock; after the last replacement the   *)
(* sweep then goes on without it.                                          *)
LtFails ==
    /\ MayFail /\ pc[Lt] = "creating"
    /\ retired' = retired - 1
    /\ Goto(Lt, IF retired' > 0 THEN "creating" ELSE "unlocked")
    /\ UNCHANGED <<avail, set, waiting, held, token, canceled, now, born, mustdie, alive>>

LtPeeks ==
    LET back == avail[Len(avail)] IN
    /\ pc[Lt] = "unlocked"
    /\ IF avail # <<>> /\ retire_by(back)
          THEN held' = [held EXCEPT ![Lt] = back] /\ Goto(Lt, "drop")
          ELSE Goto(Lt, "asleep") /\ UNCHANGED held
    /\ UNCHANGED <<avail, set, waiting, token, canceled, now, born, retired, mustdie, alive>>

(* pop_back and erase; to pop from an empty deque is undefined, here it    *)
(* leaves the deque empty.  The wakeup after the sweep is made here.       *)
LtDrops ==
    /\ pc[Lt] = "drop"
    /\ avail' = IF avail = <<>> THEN avail ELSE SubSeq(avail, 1, Len(avail) - 1)
    /\ set' = set \ {held[Lt]}
    /\ held' = [held EXCEPT ![Lt] = None]
    /\ Goto(Lt, "unlocked")
    /\ Wakeup
    /\ UNCHANGED <<canceled, now, born, retired, mustdie, alive>>

(* The task starts; it keeps the pool_impl and the lt_state from then on. *)
LtStarts ==
    /\ pc[Lt] = "idle" /\ Goto(Lt, "asleep")
    /\ UNCHANGED <<avail, set, waiting, held, token, canceled, now, born, retired, mustdie, alive>>

LtRuns == LtStarts \/ LtAwake \/ LtCreates \/ LtInserts \/ LtFails \/ LtPeeks \/ LtDrops

-----------------------------------------------------------------------------
Tick ==
    /\ now < MaxNow /\ now' = now + 1
    /\ UNCHANGED <<avail, set, waiting, pc, held, token, canceled, born, retired, mustdie, alive>>

(* clear() and cancel of a borrower. *)
Others ==
    /\ alive
    /\ Clear \/ \E t \in Cancelable : Cancel(t)
    /\ UNCHANGED <<now, born, retired, mustdie, alive>>

(* ~http_pool, when nobody is in acquire() and the worker has started,     *)
(* whose first step reads the members of the pool.                         *)
Destroy ==
    /\ alive /\ pc[Lt] # "idle"
    /\ \A t \in Borrowers : pc[t] \in {"idle", "using"}
    /\ alive' = FALSE
    /\ UNCHANGED <<avail, set, waiting, pc, held, token, canceled, now, born, retired, mustdie>>

Loan(t) == ScopeAcquires(t) \/ Waits(t) \/ \E success \in BOOLEAN : ScopeEnds(t, success)

HttpNext ==
    \/ \E t \in Borrowers : Loan(t)
    \/ LtRuns \/ Tick \/ Others \/ Destroy

HttpSpec == HttpInit /\ [][HttpNext]_httpVars

(* The worker's sleep has a deadline and the others hold the lock for a    *)
(* bounded time; new_resource() returns or throws.                         *)
HttpLive == HttpSpec /\ WF_httpVars(LtRuns)

-----------------------------------------------------------------------------
(* The pool counts a client, in set, only while it can still be lent or    *)
(* is lent: none is lost between the worker and the borrowers, whose place *)
(* would never become free.                                                *)
NoOrphan == set \subseteq Range(avail) \cup {held[t] : t \in Tasks}

(* What is lent again after an old client was returned is another client:  *)
(* the replacement that was asked for it does not make two of one.         *)
OldOnesGo == [][\A t \in Borrowers : mustdie[t] /\ ~mustdie'[t] => held[t] \notin set']_httpVars

(* Nobody waits when no client is out and none is being made.  A wakeup    *)
(* after the sweep (client.hh:304, "in theory, this should never matter")  *)
(* is part of what the worker does.                                        *)
NobodyLeft ==
    (\A t \in Borrowers : pc[t] = "idle" \/ (pc[t] = "parked" /\ ~token[t] /\ ~canceled[t]))
    => \A t \in Borrowers : pc[t] # "parked"

(* "if they're 2x the max age, then they're excess and stale" (client.hh:  *)
(* 246): the worker drops only clients of twice the lifetime.              *)
TwiceTheAge ==
    [][LtAwake => \A r \in set \ set' : now - born[r] >= 2 * Life]_httpVars

(* ~lt_state cancels the worker: when the pool and its scoped_resources    *)
(* are gone nobody but the worker refers to it, and the worker must not.   *)
LtReferences == {t \in Borrowers : pc[t] = "using"} \cup (IF pc[Lt] = "idle" THEN {} ELSE {Lt})
WorkerCanceled == ~alive => LtReferences \subseteq Borrowers

(* Every replacement that was asked for is made, or given up: the worker   *)
(* that missed the wakeup sees the counter at its next deadline.           *)
RetiredServed == retired > 0 ~> retired = 0
=============================================================================
