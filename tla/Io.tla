---------------------------------- MODULE Io ----------------------------------
(***************************************************************************)
(* The io manager of a thread (src/io.cc): tasks poll file descriptors,    *)
(* epoll reports events, timeouts and cancels end polls early.  All of it  *)
(* runs on one thread, so every call is one action up to its suspension.   *)
(* The event_fd and the timer_fd of the manager are part of Scheduler.     *)
(***************************************************************************)
EXTENDS Naturals, Sequences, Functions, TLC, Queues

CONSTANTS Tasks, Fds,
          Calls  \* the polls a task may make: the events it asks for, by descriptor

\* EPOLLIN, EPOLLOUT, and EPOLLERR or EPOLLHUP, which epoll always reports.
Conditions == {"in", "out", "hup"}

VARIABLES tasks,  \* _pollfds[fd].tasks: the tasks that poll fd
          events, \* _pollfds[fd].events
          epoll,  \* what epoll has registered for fd
          ready,  \* the conditions that hold for fd
          call,   \* fds of the poll the task is in, or none
          token,  \* _ready of the task
          revents \* whether revents of fd were set in the task's poll

vars == <<tasks, events, epoll, ready, call, token, revents>>

NotAdded == [mask |-> {}, oneshot |-> TRUE, armed |-> FALSE]
NoCall == [fd \in {} |-> {}]

Init ==
    /\ tasks = [fd \in Fds |-> <<>>]
    /\ events = [fd \in Fds |-> {}]
    /\ epoll = [fd \in Fds |-> NotAdded]
    /\ ready = [fd \in Fds |-> {}]
    /\ call = [t \in Tasks |-> NoCall]
    /\ token = [t \in Tasks |-> FALSE]
    /\ revents = [t \in Tasks |-> {}]


\* add_pollfds, and the modify or add of epoll when the mask is new.
Poll(t, c) ==
    LET mask(fd) == events[fd] \cup c[fd] IN
    /\ call[t] = NoCall
    /\ tasks' = [fd \in Fds |-> IF fd \in DOMAIN c THEN Append(tasks[fd], t) ELSE tasks[fd]]
    /\ events' = [fd \in Fds |-> IF fd \in DOMAIN c THEN mask(fd) ELSE events[fd]]
    /\ epoll' = [fd \in Fds |->
                   IF fd \in DOMAIN c /\ events[fd] # mask(fd)
                      THEN [mask |-> mask(fd), oneshot |-> TRUE, armed |-> TRUE]
                      ELSE epoll[fd]]
    /\ call' = [call EXCEPT ![t] = c]
    /\ revents' = [revents EXCEPT ![t] = {}]
    /\ UNCHANGED <<ready, token>>

\* wait(): an event of fd makes every task ready that asked for it, or all of them on
\* an error.
Event(fd) ==
    LET e == ready[fd] \cap (epoll[fd].mask \cup {"hup"})
        hit == {t \in Range(tasks[fd]) : "hup" \in e \/ call[t][fd] \cap e # {}}
    IN
    /\ epoll[fd].armed /\ e # {}
    /\ epoll' = [epoll EXCEPT ![fd].armed = ~epoll[fd].oneshot]
    /\ token' = [t \in Tasks |-> token[t] \/ t \in hit]
    /\ revents' = [t \in Tasks |-> IF t \in hit THEN revents[t] \cup {fd} ELSE revents[t]]
    /\ UNCHANGED <<tasks, events, ready, call>>

\* The alarm of the timeout, a cancel or a deadline.
Interrupt(t) ==
    /\ call[t] # NoCall /\ ~token[t]
    /\ token' = [token EXCEPT ![t] = TRUE]
    /\ UNCHANGED <<tasks, events, epoll, ready, call, revents>>

\* Mutant of Return: epoll keeps a descriptor that nobody polls any more.
ReturnKeeps(t) ==
    LET rest(fd) == Erase(tasks[fd], t)
        mask(fd) == UNION {call[u][fd] : u \in Range(rest(fd))}
    IN
    /\ token[t] /\ call[t] # NoCall
    /\ tasks' = [fd \in Fds |-> rest(fd)]
    /\ events' = [fd \in Fds |-> mask(fd)]
    /\ call' = [call EXCEPT ![t] = NoCall]
    /\ token' = [token EXCEPT ![t] = FALSE]
    /\ UNCHANGED <<epoll, ready, revents>>

\* Mutant of Return: an interrupted poll leaves its entries behind.
ReturnEarly(t) ==
    /\ token[t] /\ call[t] # NoCall
    /\ IF revents[t] = {} THEN UNCHANGED <<tasks, events>>
       ELSE /\ tasks' = [fd \in Fds |-> Erase(tasks[fd], t)]
            /\ events' = [fd \in Fds |->
                            UNION {call[u][fd] : u \in Range(tasks[fd]) \ {t}}]
    /\ call' = [call EXCEPT ![t] = NoCall]
    /\ token' = [token EXCEPT ![t] = FALSE]
    /\ UNCHANGED <<epoll, ready, revents>>

\* remove_pollfds, after swap() returned or threw.
Return(t) ==
    LET mine == DOMAIN call[t]
        rest(fd) == Erase(tasks[fd], t)
        mask(fd) == UNION {call[u][fd] : u \in Range(rest(fd))}
    IN
    /\ token[t] /\ call[t] # NoCall
    /\ tasks' = [fd \in Fds |-> rest(fd)]
    /\ events' = [fd \in Fds |-> IF fd \in mine THEN mask(fd) ELSE events[fd]]
    /\ epoll' = [fd \in Fds |->
                   IF fd \notin mine \/ fd \in revents[t] THEN epoll[fd]
                   ELSE IF mask(fd) = {} THEN NotAdded
                   ELSE IF mask(fd) # events[fd]
                      THEN [mask |-> mask(fd), oneshot |-> FALSE, armed |-> TRUE]
                   ELSE epoll[fd]]
    /\ call' = [call EXCEPT ![t] = NoCall]
    /\ token' = [token EXCEPT ![t] = FALSE]
    /\ UNCHANGED <<ready, revents>>

\* Data, room or an error comes or goes.
Change(fd, c) ==
    /\ ready' = [ready EXCEPT ![fd] = IF c \in @ THEN @ \ {c} ELSE @ \cup {c}]
    /\ UNCHANGED <<tasks, events, epoll, call, token, revents>>

\* The program closes a descriptor that nobody polls; the next one has its number.
Reopen(fd) ==
    /\ tasks[fd] = <<>>
    /\ epoll' = [epoll EXCEPT ![fd] = NotAdded]
    /\ ready' = [ready EXCEPT ![fd] = {}]
    /\ UNCHANGED <<tasks, events, call, token, revents>>

Next ==
    \/ \E t \in Tasks : \E c \in Calls[t] : Poll(t, c)
    \/ \E t \in Tasks : Interrupt(t) \/ Return(t)
    \/ \E fd \in Fds : Event(fd) \/ Reopen(fd) \/ \E c \in Conditions : Change(fd, c)

Spec == Init /\ [][Next]_vars

\* epoll_wait reports what is there, and the scheduler runs a task with its token.
FairSpec ==
    /\ Spec
    /\ \A fd \in Fds : WF_vars(Event(fd))
    /\ \A t \in Tasks : WF_vars(Return(t))
-----------------------------------------------------------------------------
(* Properties. *)

\* The entries of a descriptor are the polls that wait for it, so that no entry
\* points to the stack of a poll that has returned or thrown, and its mask is the
\* events they ask for.
EntriesAgree ==
    \A fd \in Fds :
        /\ IsInjective(tasks[fd])
        /\ Range(tasks[fd]) = {t \in Tasks : fd \in DOMAIN call[t]}
        /\ events[fd] = UNION {call[t][fd] : t \in Range(tasks[fd])}

\* A poll that waits is registered with epoll for every event it asks for: the mask
\* is the "events this fd is registered for".
Registered ==
    \A t \in Tasks : \A fd \in DOMAIN call[t] :
        ~token[t] => epoll[fd].armed /\ call[t][fd] \subseteq epoll[fd].mask

\* epoll never reports a descriptor that nobody polls, so wait() does not spin.
NoSpin ==
    \A fd \in Fds :
        epoll[fd].armed /\ ready[fd] \cap (epoll[fd].mask \cup {"hup"}) # {}
        => tasks[fd] # <<>>

\* A poll returns when one of its events stays.
PollReturns ==
    \A t \in Tasks, fd \in Fds :
        fd \in DOMAIN call[t] /\ call[t][fd] \cap ready[fd] # {}
        ~> call[t] = NoCall \/ (fd \in DOMAIN call[t] => call[t][fd] \cap ready[fd] = {})
=============================================================================
