-------------------------------- MODULE IoProc --------------------------------
(***************************************************************************)
(* The thread pool for blocking calls (include/ten/ioproc.hh,              *)
(* src/ioproc.cc).  A client makes a number of iocallasync with one reply  *)
(* channel, and then of iowait; iocall is one of each.  The channels are   *)
(* those of Channel, with a push or pop as one step and without the order  *)
(* of those that wait.                                                     *)
(***************************************************************************)
EXTENDS Naturals, Sequences, FiniteSets

CONSTANTS Clients, Procs, None,
          Calls,      \* the number of calls of a client
          Waits,      \* and how many results it waits for
          Interrupted \* where a client may be canceled: "send", "wait"

VARIABLES queue,  \* the items of io.ch, and of the reply channels
          closed, \* which of them are closed
          client, \* place of a client, and what it has sent and got
          proc,   \* place of a thread of the pool, and its call
          ran     \* how often the function of a call was called

vars == <<queue, closed, client, proc, ran>>

Pcalls == UNION {{<<c, n>> : n \in 1..Calls[c]} : c \in Clients}
Channels == Clients \cup {None}          \* None stands for io.ch
capacity(ch) == IF ch = None THEN Cardinality(Procs) ELSE 1
synchronous(ch) == capacity(ch) = 1
is_full(ch) == Len(queue[ch]) >= capacity(ch)

Init ==
    /\ queue = [ch \in Channels |-> <<>>]
    /\ closed = [ch \in Channels |-> FALSE]
    /\ client = [c \in Clients |-> [pc |-> "send", sent |-> 0, got |-> {}]]
    /\ proc = [p \in Procs |-> [pc |-> "recv", call |-> <<None, 0>>]]
    /\ ran = [k \in Pcalls |-> 0]

\* The place of a client that has sent so many calls.
Then(c, sent) ==
    IF sent < Calls[c] THEN "send" ELSE IF Waits[c] > 0 THEN "wait" ELSE "done"

\* iocallasync: the push of io.ch.send, and its wait for the recv.
Send(c) ==
    LET n == client[c].sent + 1 IN
    /\ client[c].pc = "send" /\ ~is_full(None)
    /\ queue' = [queue EXCEPT ![None] = Append(@, <<c, n>>)]
    /\ client' = [client EXCEPT ![c].sent = n,
                    ![c].pc = IF synchronous(None) THEN "sync" ELSE Then(c, n)]
    /\ UNCHANGED <<closed, proc, ran>>

Sync(c) ==
    /\ client[c].pc = "sync" /\ ~is_full(None)
    /\ client' = [client EXCEPT ![c].pc = Then(c, client[c].sent)]
    /\ UNCHANGED <<queue, closed, proc, ran>>

\* iowait.
Wait(c) ==
    /\ client[c].pc = "wait" /\ queue[c] # <<>>
    /\ queue' = [queue EXCEPT ![c] = Tail(@)]
    /\ client' = [client EXCEPT ![c].got = @ \cup {Head(queue[c])},
                    ![c].pc = IF Cardinality(client[c].got) + 1 = Waits[c]
                                 THEN "done" ELSE "wait"]
    /\ UNCHANGED <<closed, proc, ran>>

\* Mutant of Throw: the reply channel stays open.
ThrowOnly(c) ==
    /\ \/ client[c].pc \in {"send", "sync"} /\ is_full(None) /\ "send" \in Interrupted
       \/ client[c].pc = "wait" /\ queue[c] = <<>> /\ "wait" \in Interrupted
    /\ client' = [client EXCEPT ![c].pc = "done"]
    /\ UNCHANGED <<queue, closed, proc, ran>>

\* A client is canceled where it sleeps: only iowait closes the reply channel.
Throw(c) ==
    /\ \/ /\ client[c].pc \in {"send", "sync"} /\ is_full(None) /\ "send" \in Interrupted
          /\ UNCHANGED closed
       \/ /\ client[c].pc = "wait" /\ queue[c] = <<>> /\ "wait" \in Interrupted
          /\ closed' = [closed EXCEPT ![c] = TRUE]
    /\ client' = [client EXCEPT ![c].pc = "done"]
    /\ UNCHANGED <<queue, proc, ran>>

\* Mutant of Recv: the call stays in the channel while its thread runs it.
RecvPeek(p) ==
    /\ proc[p].pc = "recv" /\ queue[None] # <<>>
    /\ proc' = [proc EXCEPT ![p] = [pc |-> "run", call |-> Head(queue[None])]]
    /\ UNCHANGED <<queue, closed, client, ran>>

\* ioproctask: the recv; a call whose reply channel is closed is dropped.
Recv(p) ==
    LET k == Head(queue[None]) IN
    /\ proc[p].pc = "recv" /\ queue[None] # <<>>
    /\ queue' = [queue EXCEPT ![None] = Tail(@)]
    /\ proc' = IF closed[k[1]] THEN proc
               ELSE [proc EXCEPT ![p] = [pc |-> "run", call |-> k]]
    /\ UNCHANGED <<closed, client, ran>>

Exit(p) ==
    /\ proc[p].pc = "recv" /\ queue[None] = <<>> /\ closed[None]
    /\ proc' = [proc EXCEPT ![p].pc = "exit"]
    /\ UNCHANGED <<queue, closed, client, ran>>

\* The function of the call returns or throws.
Run(p) ==
    /\ proc[p].pc = "run"
    /\ ran' = [ran EXCEPT ![proc[p].call] = @ + 1]
    /\ proc' = [proc EXCEPT ![p].pc = "reply"]
    /\ UNCHANGED <<queue, closed, client>>

\* Mutant of Reply: the reply does not wait for room.
ReplyOver(p) ==
    LET ch == proc[p].call[1] IN
    /\ proc[p].pc = "reply"
    /\ queue' = IF closed[ch] THEN queue ELSE [queue EXCEPT ![ch] = <<proc[p].call>>]
    /\ proc' = [proc EXCEPT ![p].pc = IF closed[ch] THEN "recv" ELSE "sync"]
    /\ UNCHANGED <<closed, client, ran>>

\* creply.send: its push, or the error of a closed channel, and its wait for the recv.
Reply(p) ==
    LET ch == proc[p].call[1] IN
    /\ proc[p].pc = "reply" /\ (~is_full(ch) \/ closed[ch])
    /\ queue' = IF closed[ch] THEN queue
                ELSE [queue EXCEPT ![ch] = Append(@, proc[p].call)]
    /\ proc' = [proc EXCEPT ![p].pc = IF closed[ch] THEN "recv" ELSE "sync"]
    /\ UNCHANGED <<closed, client, ran>>

Replied(p) ==
    LET ch == proc[p].call[1] IN
    /\ proc[p].pc = "sync" /\ (~is_full(ch) \/ closed[ch])
    /\ proc' = [proc EXCEPT ![p].pc = "recv"]
    /\ UNCHANGED <<queue, closed, client, ran>>

\* ~ioproc, when its clients are done: closes io.ch and joins the threads.
Destroy ==
    /\ ~closed[None] /\ \A c \in Clients : client[c].pc = "done"
    /\ closed' = [closed EXCEPT ![None] = TRUE]
    /\ UNCHANGED <<queue, client, proc, ran>>

ClientStep(c) == Send(c) \/ Sync(c) \/ Wait(c)
ProcStep(p) == Recv(p) \/ Exit(p) \/ Run(p) \/ Reply(p) \/ Replied(p)

Next ==
    \/ \E c \in Clients : ClientStep(c) \/ Throw(c)
    \/ \E p \in Procs : ProcStep(p)
    \/ Destroy

\* A task or a thread that can go on does; the calls are finite in number, so nobody
\* is overtaken for ever.
Spec ==
    /\ Init /\ [][Next]_vars
    /\ \A c \in Clients : WF_vars(ClientStep(c))
    /\ \A p \in Procs : WF_vars(ProcStep(p))
    /\ WF_vars(Destroy)
-----------------------------------------------------------------------------
(* Properties. *)

\* A call is run once at most, an iowait gets a result of a call of its own reply
\* channel that has run, and a client that was not interrupted has all its results.
RunOnce ==
    /\ \A k \in Pcalls : ran[k] <= 1
    /\ \A c \in Clients : \A k \in client[c].got : k[1] = c /\ ran[k] = 1
    /\ Interrupted = {} =>
          \A c \in Clients : client[c].pc = "done" => Cardinality(client[c].got) = Waits[c]

\* Every client gets its results, or its interrupt, and the destructor of the pool
\* gets to join every thread.
AllReturn == <>(\A p \in Procs : proc[p].pc = "exit")
=============================================================================
