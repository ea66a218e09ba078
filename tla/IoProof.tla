------------------------------- MODULE IoProof -------------------------------
(***************************************************************************)
(* The theorems about Io, for any tasks, descriptors and polls: the lists  *)
(* of a descriptor agree with the polls that wait, whoever polls; when no  *)
(* two tasks poll a descriptor at the same time, epoll agrees with them.   *)
(* Then one about IoProc: the pool of threads runs a call once.            *)
(***************************************************************************)
EXTENDS Io, QueueTheorems, FiniteSetTheorems

\* Zenon is the quickest here; the leaves that it does not find cite SMT.
USE ZenonT(60)

\* A poll names descriptors, and asks for at least one event of each.
PollUse ==
    \A t \in Tasks : \A c \in Calls[t] :
        /\ DOMAIN c \subseteq Fds
        /\ \A fd \in DOMAIN c : c[fd] \subseteq Conditions /\ c[fd] # {}

-----------------------------------------------------------------------------
(* The entries of the descriptors. *)

EntryTypes ==
    /\ tasks \in [Fds -> Seq(Tasks)]
    /\ DOMAIN events = Fds
    /\ DOMAIN call = Tasks /\ \A t \in Tasks : call[t] = NoCall \/ call[t] \in Calls[t]

Entries == EntryTypes /\ EntriesAgree

\* Without its first occurrence, if there is one, a task is not in the list.
LEMMA EraseLemma ==
    ASSUME NEW S, NEW q \in Seq(S), NEW e, IsInjective(q)
    PROVE  Erase(q, e) \in Seq(S) /\ IsInjective(Erase(q, e)) /\ Range(Erase(q, e)) = Range(q) \ {e}
  <1>1. CASE e \in Range(q)
    BY <1>1, WithoutLemma, SMTT(30) DEF Erase
  <1>2. CASE e \notin Range(q)
    BY <1>2 DEF Erase
  <1> QED BY <1>1, <1>2

\* No poll is under way at first.
LEMMA InitEntries == Init => Entries
  <1> SUFFICES ASSUME Init PROVE Entries
    OBVIOUS
  <1>1. EntryTypes
    BY EmptyLemma DEF Init, EntryTypes
  <1>2. ASSUME NEW fd \in Fds
        PROVE  /\ IsInjective(tasks[fd]) /\ Range(tasks[fd]) = {} /\ events[fd] = {}
               /\ \A t \in Tasks : fd \notin DOMAIN call[t]
    <2>1. tasks[fd] = <<>> /\ events[fd] = {} /\ \A t \in Tasks : call[t] = NoCall
      BY DEF Init
    <2>2. DOMAIN NoCall = {}
      BY DEF NoCall
    <2> QED BY <2>1, <2>2, EmptyLemma
  <1>3. EntriesAgree
    BY <1>2 DEF EntriesAgree
  <1> QED BY <1>1, <1>3 DEF Entries

\* add_pollfds enters the task for each descriptor of the poll, where it was not.
LEMMA PollEntries ==
    ASSUME Entries, PollUse, NEW t \in Tasks, NEW c \in Calls[t], Poll(t, c)
    PROVE  Entries'
  <1>t. EntryTypes /\ EntriesAgree /\ DOMAIN NoCall = {} /\ DOMAIN c \subseteq Fds
    BY DEF Entries, PollUse, NoCall
  <1>1. /\ call[t] = NoCall /\ call'[t] = c /\ \A u \in Tasks \ {t} : call'[u] = call[u]
        /\ DOMAIN call' = Tasks
    BY <1>t DEF Poll, EntryTypes
  <1>2. \A fd \in Fds : /\ fd \in DOMAIN c => /\ tasks'[fd] = Append(tasks[fd], t)
                                              /\ events'[fd] = events[fd] \cup c[fd]
                        /\ fd \notin DOMAIN c => tasks'[fd] = tasks[fd] /\ events'[fd] = events[fd]
    BY DEF Poll
  <1>3. ASSUME NEW fd \in Fds
        PROVE  /\ tasks'[fd] \in Seq(Tasks) /\ IsInjective(tasks'[fd])
               /\ Range(tasks'[fd]) = {u \in Tasks : fd \in DOMAIN call'[u]}
               /\ events'[fd] = UNION {call'[u][fd] : u \in Range(tasks'[fd])}
    <2>1. /\ tasks[fd] \in Seq(Tasks) /\ IsInjective(tasks[fd])
          /\ Range(tasks[fd]) = {u \in Tasks : fd \in DOMAIN call[u]}
          /\ events[fd] = UNION {call[u][fd] : u \in Range(tasks[fd])}
          /\ t \notin Range(tasks[fd])
      BY <1>t, <1>1 DEF EntryTypes, EntriesAgree
    <2>2. CASE fd \in DOMAIN c
      <3>1. /\ tasks'[fd] \in Seq(Tasks) /\ IsInjective(tasks'[fd])
            /\ Range(tasks'[fd]) = Range(tasks[fd]) \cup {t}
        <4>1. /\ Append(tasks[fd], t) \in Seq(Tasks) /\ IsInjective(Append(tasks[fd], t))
              /\ Range(Append(tasks[fd], t)) = Range(tasks[fd]) \cup {t}
          BY <2>1, AppendLemma, SMTT(30)
        <4> QED BY <1>2, <2>2, <4>1
      <3>2. Range(tasks'[fd]) = {u \in Tasks : fd \in DOMAIN call'[u]}
        BY <1>1, <2>1, <2>2, <3>1
      <3>3. \A u \in Range(tasks[fd]) : call'[u][fd] = call[u][fd]
        BY <1>1, <2>1
      <3>4. events'[fd] = UNION {call'[u][fd] : u \in Range(tasks'[fd])}
        <4>1. UNION {call'[u][fd] : u \in Range(tasks'[fd])}
              = (UNION {call'[u][fd] : u \in Range(tasks[fd])}) \cup call'[t][fd]
          BY <3>1
        <4>2. UNION {call'[u][fd] : u \in Range(tasks[fd])} = events[fd]
          BY <2>1, <3>3
        <4> QED BY <1>1, <1>2, <2>2, <4>1, <4>2
      <3> QED BY <3>1, <3>2, <3>4
    <2>3. CASE fd \notin DOMAIN c
      <3>1. tasks'[fd] = tasks[fd] /\ events'[fd] = events[fd]
        BY <1>2, <2>3
      <3>2. Range(tasks'[fd]) = {u \in Tasks : fd \in DOMAIN call'[u]}
        BY <1>1, <1>t, <2>1, <2>3, <3>1
      <3>3. \A u \in Range(tasks[fd]) : call'[u][fd] = call[u][fd]
        BY <1>1, <2>1
      <3> QED BY <2>1, <3>1, <3>2, <3>3
    <2> QED BY <2>2, <2>3
  <1>4. EntryTypes'
    <2>1. tasks' \in [Fds -> Seq(Tasks)]
      BY <1>3 DEF Poll
    <2>2. DOMAIN events' = Fds
      BY DEF Poll
    <2>3. \A u \in Tasks : call'[u] = NoCall \/ call'[u] \in Calls[u]
      BY <1>t, <1>1 DEF EntryTypes
    <2> QED BY <1>1, <2>1, <2>2, <2>3 DEF EntryTypes
  <1> QED BY <1>3, <1>4 DEF Entries, EntriesAgree

\* remove_pollfds takes the task off each of the lists, and leaves the events of the
\* polls that remain.
LEMMA ReturnEntries ==
    ASSUME Entries, NEW t \in Tasks, Return(t)
    PROVE  Entries'
  <1>t. EntryTypes /\ EntriesAgree /\ DOMAIN NoCall = {}
    BY DEF Entries, NoCall
  <1>1. /\ call'[t] = NoCall /\ \A u \in Tasks \ {t} : call'[u] = call[u]
        /\ DOMAIN call' = Tasks
    BY <1>t DEF Return, EntryTypes
  <1>2. \A fd \in Fds :
           /\ tasks'[fd] = Erase(tasks[fd], t)
           /\ fd \in DOMAIN call[t]
              => events'[fd] = UNION {call[u][fd] : u \in Range(Erase(tasks[fd], t))}
           /\ fd \notin DOMAIN call[t] => events'[fd] = events[fd]
    BY DEF Return
  <1>3. ASSUME NEW fd \in Fds
        PROVE  /\ tasks'[fd] \in Seq(Tasks) /\ IsInjective(tasks'[fd])
               /\ Range(tasks'[fd]) = {u \in Tasks : fd \in DOMAIN call'[u]}
               /\ events'[fd] = UNION {call'[u][fd] : u \in Range(tasks'[fd])}
    <2>1. /\ tasks[fd] \in Seq(Tasks) /\ IsInjective(tasks[fd])
          /\ Range(tasks[fd]) = {u \in Tasks : fd \in DOMAIN call[u]}
          /\ events[fd] = UNION {call[u][fd] : u \in Range(tasks[fd])}
      BY <1>t DEF EntryTypes, EntriesAgree
    <2>2. /\ tasks'[fd] \in Seq(Tasks) /\ IsInjective(tasks'[fd])
          /\ Range(tasks'[fd]) = Range(tasks[fd]) \ {t}
      BY <1>2, <2>1, EraseLemma, SMTT(30)
    <2>3. Range(tasks'[fd]) = {u \in Tasks : fd \in DOMAIN call'[u]}
      BY <1>t, <1>1, <2>1, <2>2
    <2>4. \A u \in Range(tasks'[fd]) : call'[u][fd] = call[u][fd]
      BY <1>1, <2>1, <2>2
    <2>5. events'[fd] = UNION {call[u][fd] : u \in Range(tasks'[fd])}
      <3>1. CASE fd \in DOMAIN call[t]
        BY <1>2, <3>1
      <3>2. CASE fd \notin DOMAIN call[t]
        <4>1. Range(tasks'[fd]) = Range(tasks[fd])
          BY <2>1, <2>2, <3>2
        <4> QED BY <1>2, <2>1, <3>2, <4>1
      <3> QED BY <3>1, <3>2
    <2> QED BY <2>2, <2>3, <2>4, <2>5
  <1>4. EntryTypes'
    <2>1. tasks' \in [Fds -> Seq(Tasks)]
      BY <1>3 DEF Return
    <2>2. DOMAIN events' = Fds
      BY DEF Return
    <2>3. \A u \in Tasks : call'[u] = NoCall \/ call'[u] \in Calls[u]
      BY <1>t, <1>1 DEF EntryTypes
    <2> QED BY <1>1, <2>1, <2>2, <2>3 DEF EntryTypes
  <1> QED BY <1>3, <1>4 DEF Entries, EntriesAgree

\* Every step of the io manager keeps the entries.
LEMMA NextEntries == PollUse /\ Entries /\ [Next]_vars => Entries'
  <1> SUFFICES ASSUME PollUse, Entries, [Next]_vars PROVE Entries'
    OBVIOUS
  <1>1. ASSUME UNCHANGED <<tasks, events, call>> PROVE Entries'
    <2>1. EntryTypes'
      BY <1>1 DEF Entries, EntryTypes
    <2>2. EntriesAgree'
      BY <1>1 DEF Entries, EntriesAgree
    <2> QED BY <2>1, <2>2 DEF Entries
  <1>2. CASE UNCHANGED vars
    BY <1>1, <1>2 DEF vars
  <1>3. ASSUME NEW t \in Tasks, NEW c \in Calls[t], Poll(t, c) PROVE Entries'
    BY <1>3, PollEntries
  <1>4. ASSUME NEW t \in Tasks, Interrupt(t) \/ Return(t) PROVE Entries'
    BY <1>1, <1>4, ReturnEntries DEF Interrupt
  <1>5. ASSUME NEW fd \in Fds, Event(fd) \/ Reopen(fd) \/ \E c \in Conditions : Change(fd, c)
        PROVE  Entries'
    BY <1>1, <1>5 DEF Event, Reopen, Change
  <1> QED BY <1>2, <1>3, <1>4, <1>5 DEF Next

\* For any tasks that poll any descriptors, shared ones included: the entries of a
\* descriptor are the polls that wait for it and its mask is what they ask for, whether
\* a poll ends by an event, a timeout, a deadline or a cancel.
THEOREM IoEntries ==
    ASSUME PollUse
    PROVE  Spec => []EntriesAgree
  <1>1. Entries => EntriesAgree
    BY DEF Entries
  <1> QED BY <1>1, InitEntries, NextEntries, PTL DEF Spec

-----------------------------------------------------------------------------
(* epoll, when no two tasks poll a descriptor at the same time. *)

OnePoller ==
    \A t, u \in Tasks : DOMAIN call[t] \cap DOMAIN call[u] # {} => t = u

\* What epoll knows of a descriptor.
Registers == [mask : SUBSET Conditions, oneshot : BOOLEAN, armed : BOOLEAN]

RegisterTypes ==
    /\ epoll \in [Fds -> Registers]
    /\ token \in [Tasks -> BOOLEAN] /\ revents \in [Tasks -> SUBSET Fds]

\* A poll is armed for what it asks, once, until epoll has reported the descriptor.
Armed(t, fd) ==
    IF fd \in revents[t] THEN ~epoll[fd].armed /\ token[t]
    ELSE epoll[fd] = [mask |-> call[t][fd], oneshot |-> TRUE, armed |-> TRUE]

\* A descriptor that nobody polls is not armed.
Polled ==
    /\ \A t \in Tasks : \A fd \in DOMAIN call[t] : Armed(t, fd)
    /\ \A fd \in Fds : epoll[fd].armed => \E t \in Tasks : fd \in DOMAIN call[t]

Registration == RegisterTypes /\ Polled

\* The fields of such a record.
LEMMA RegisterLemma ==
    ASSUME NEW m \in SUBSET Conditions, NEW o \in BOOLEAN, NEW a \in BOOLEAN,
           NEW r, r = [mask |-> m, oneshot |-> o, armed |-> a]
    PROVE  /\ r \in Registers /\ r.mask = m /\ r.oneshot = o /\ r.armed = a
           /\ [r EXCEPT !.armed = ~o] = [mask |-> m, oneshot |-> o, armed |-> ~o]
  <1>1. r \in Registers
    BY Zenon DEF Registers
  <1>2. r.mask = m /\ r.oneshot = o /\ r.armed = a
    BY SMTT(30)
  <1>3. [r EXCEPT !.armed = ~o] = [mask |-> m, oneshot |-> o, armed |-> ~o]
    BY SMTT(30)
  <1> QED BY <1>1, <1>2, <1>3

\* epoll knows no descriptor at first.
LEMMA InitRegistration == Init => Registration
  <1> SUFFICES ASSUME Init PROVE Registration
    OBVIOUS
  <1>1. NotAdded \in Registers /\ ~NotAdded.armed
    BY DEF NotAdded, Registers
  <1>2. RegisterTypes
    BY <1>1 DEF Init, RegisterTypes
  <1>3. /\ \A t \in Tasks : DOMAIN call[t] = {}
        /\ \A fd \in Fds : ~epoll[fd].armed
    BY <1>1 DEF Init, NoCall
  <1> QED BY <1>2, <1>3 DEF Registration, Polled

\* A poll arms its descriptors, which no other task polls.
LEMMA PollRegisters ==
    ASSUME Entries, Registration, OnePoller', PollUse,
           NEW t \in Tasks, NEW c \in Calls[t], Poll(t, c)
    PROVE  Registration'
  <1>t. /\ EntryTypes /\ EntriesAgree /\ RegisterTypes /\ Polled /\ DOMAIN NoCall = {}
        /\ DOMAIN c \subseteq Fds /\ \A fd \in DOMAIN c : c[fd] \subseteq Conditions /\ c[fd] # {}
    BY DEF Entries, Registration, PollUse, NoCall
  <1>1. /\ call[t] = NoCall /\ call'[t] = c /\ \A u \in Tasks \ {t} : call'[u] = call[u]
        /\ revents'[t] = {} /\ \A u \in Tasks \ {t} : revents'[u] = revents[u]
        /\ revents' \in [Tasks -> SUBSET Fds] /\ token' = token
    BY <1>t DEF Poll, EntryTypes, RegisterTypes
  <1>2. ASSUME NEW u \in Tasks \ {t}, NEW fd \in DOMAIN call[u] PROVE fd \notin DOMAIN c
    BY <1>1 DEF OnePoller
  <1>3. ASSUME NEW fd \in DOMAIN c
        PROVE  epoll'[fd] = [mask |-> c[fd], oneshot |-> TRUE, armed |-> TRUE]
    <2>1. fd \in Fds /\ c[fd] # {}
      BY <1>t
    <2>2. Range(tasks[fd]) = {}
      BY <1>t, <1>1, <1>2, <2>1 DEF EntriesAgree
    <2>3. events[fd] = {}
      BY <1>t, <2>1, <2>2 DEF EntriesAgree
    <2>4. events[fd] \cup c[fd] = c[fd] /\ events[fd] # events[fd] \cup c[fd]
      BY <2>1, <2>3
    <2> QED BY <2>1, <2>4 DEF Poll
  <1>4. \A fd \in Fds : fd \notin DOMAIN c => epoll'[fd] = epoll[fd]
    BY DEF Poll
  <1>5. RegisterTypes'
    <2>1. ASSUME NEW fd \in Fds
          PROVE  epoll'[fd] \in Registers
      <3>1. CASE fd \in DOMAIN c
        <4>1. c[fd] \in SUBSET Conditions
          BY <1>t, <3>1
        <4> QED BY <1>3, <3>1, <4>1, RegisterLemma
      <3>2. CASE fd \notin DOMAIN c
        BY <1>t, <1>4, <3>2 DEF RegisterTypes
      <3> QED BY <3>1, <3>2
    <2>2. DOMAIN epoll' = Fds /\ epoll' = [fd \in Fds |-> epoll'[fd]]
      BY DEF Poll
    <2> QED BY <1>t, <1>1, <2>1, <2>2 DEF RegisterTypes
  <1>6. ASSUME NEW u \in Tasks, NEW fd \in DOMAIN call'[u] PROVE Armed(u, fd)'
    <2>1. CASE u = t
      BY <1>1, <1>3, <2>1 DEF Armed
    <2>2. CASE u # t
      <3>1. fd \in DOMAIN call[u] /\ fd \notin DOMAIN c /\ Armed(u, fd)
        BY <1>t, <1>1, <1>2, <2>2 DEF Polled
      <3>2. fd \in Fds
        BY <1>t, <3>1 DEF EntryTypes, PollUse
      <3> QED BY <1>1, <1>4, <2>2, <3>1, <3>2 DEF Armed
    <2> QED BY <2>1, <2>2
  <1>7. ASSUME NEW fd \in Fds, epoll'[fd].armed PROVE \E u \in Tasks : fd \in DOMAIN call'[u]
    BY <1>t, <1>1, <1>4, <1>7 DEF Polled
  <1> QED BY <1>5, <1>6, <1>7 DEF Registration, Polled

\* A poll that returns disarms the descriptors that epoll did not report.
LEMMA ReturnRegisters ==
    ASSUME Entries, Registration, OnePoller, PollUse, NEW t \in Tasks, Return(t)
    PROVE  Registration'
  <1>t. /\ EntryTypes /\ EntriesAgree /\ RegisterTypes /\ Polled /\ DOMAIN NoCall = {}
    BY DEF Entries, Registration, NoCall
  <1>1. /\ call'[t] = NoCall /\ \A u \in Tasks \ {t} : call'[u] = call[u]
        /\ revents' = revents /\ token' \in [Tasks -> BOOLEAN]
        /\ \A u \in Tasks \ {t} : token'[u] = token[u]
    BY <1>t DEF Return, EntryTypes, RegisterTypes
  <1>2. ASSUME NEW u \in Tasks \ {t}, NEW fd \in DOMAIN call[u] PROVE fd \notin DOMAIN call[t]
    BY DEF OnePoller
  <1>n. NotAdded \in Registers /\ ~NotAdded.armed
    BY DEF NotAdded, Registers
  <1>3. ASSUME NEW fd \in Fds, fd \in DOMAIN call[t]
        PROVE  /\ ~epoll'[fd].armed
               /\ epoll'[fd] \in Registers
    <2>1. CASE fd \in revents[t]
      <3>1. epoll'[fd] = epoll[fd]
        BY <2>1 DEF Return
      <3> QED BY <1>t, <1>3, <2>1, <3>1 DEF Polled, Armed, RegisterTypes
    <2>2. CASE fd \notin revents[t]
      <3>1. /\ tasks[fd] \in Seq(Tasks) /\ IsInjective(tasks[fd])
            /\ Range(tasks[fd]) = {u \in Tasks : fd \in DOMAIN call[u]}
        BY <1>t DEF EntryTypes, EntriesAgree
      <3>2. Range(Erase(tasks[fd], t)) = Range(tasks[fd]) \ {t}
        BY <3>1, EraseLemma, SMTT(30)
      <3>3. Range(Erase(tasks[fd], t)) = {}
        BY <1>2, <1>3, <3>1, <3>2
      <3>4. UNION {call[u][fd] : u \in Range(Erase(tasks[fd], t))} = {}
        BY <3>3
      <3>5. epoll'[fd] = NotAdded
        BY <1>3, <2>2, <3>4 DEF Return
      <3> QED BY <1>n, <3>5
    <2> QED BY <2>1, <2>2
  <1>4. \A fd \in Fds : fd \notin DOMAIN call[t] => epoll'[fd] = epoll[fd]
    BY DEF Return
  <1>5. RegisterTypes'
    <2>1. \A fd \in Fds : epoll'[fd] \in Registers
      BY <1>t, <1>3, <1>4 DEF RegisterTypes
    <2>2. DOMAIN epoll' = Fds /\ epoll' = [fd \in Fds |-> epoll'[fd]]
      BY DEF Return
    <2> QED BY <1>t, <1>1, <2>1, <2>2 DEF RegisterTypes
  <1>6. ASSUME NEW u \in Tasks, NEW fd \in DOMAIN call'[u] PROVE Armed(u, fd)'
    <2>1. u # t /\ fd \in DOMAIN call[u] /\ fd \notin DOMAIN call[t]
      BY <1>t, <1>1, <1>2
    <2>2. fd \in Fds /\ Armed(u, fd)
      BY <1>t, <2>1 DEF EntryTypes, PollUse, Polled
    <2> QED BY <1>1, <1>4, <2>1, <2>2 DEF Armed
  <1>7. ASSUME NEW fd \in Fds, epoll'[fd].armed PROVE \E u \in Tasks : fd \in DOMAIN call'[u]
    <2>1. fd \notin DOMAIN call[t] /\ epoll[fd].armed
      BY <1>3, <1>4, <1>7
    <2>2. PICK u \in Tasks : fd \in DOMAIN call[u]
      BY <1>t, <2>1 DEF Polled
    <2> QED BY <1>1, <2>1, <2>2
  <1> QED BY <1>5, <1>6, <1>7 DEF Registration, Polled

\* An event of an armed descriptor reaches the task that polls it.
LEMMA EventRegisters ==
    ASSUME Entries, Registration, OnePoller, PollUse, NEW fd \in Fds, Event(fd)
    PROVE  Registration'
  <1>t. EntryTypes /\ EntriesAgree /\ RegisterTypes /\ Polled /\ DOMAIN NoCall = {}
    BY DEF Entries, Registration, NoCall
  <1> DEFINE e == ready[fd] \cap (epoll[fd].mask \cup {"hup"})
             hit == {t \in Range(tasks[fd]) : "hup" \in e \/ call[t][fd] \cap e # {}}
  <1>1. /\ epoll[fd].armed /\ e # {} /\ UNCHANGED call
        /\ epoll' = [epoll EXCEPT ![fd].armed = ~epoll[fd].oneshot]
        /\ token' = [t \in Tasks |-> token[t] \/ t \in hit]
        /\ revents' = [t \in Tasks |-> IF t \in hit THEN revents[t] \cup {fd} ELSE revents[t]]
    BY DEF Event
  <1>2. PICK p \in Tasks : fd \in DOMAIN call[p]
    BY <1>t, <1>1 DEF Polled
  <1>3. epoll[fd] = [mask |-> call[p][fd], oneshot |-> TRUE, armed |-> TRUE]
    BY <1>t, <1>1, <1>2 DEF Polled, Armed
  <1>4. \A t \in Tasks : fd \in DOMAIN call[t] => t = p
    BY <1>2 DEF OnePoller
  <1>5. hit = {p}
    <2>1. Range(tasks[fd]) = {p}
      <3>1. Range(tasks[fd]) = {t \in Tasks : fd \in DOMAIN call[t]}
        BY <1>t DEF EntriesAgree
      <3> QED BY <1>2, <1>4, <3>1
    <2>2. epoll[fd].mask = call[p][fd]
      BY <1>3, SMTT(30)
    <2>3. "hup" \in e \/ call[p][fd] \cap e # {}
      BY <1>1, <2>2
    <2> QED BY <2>1, <2>3
  <1> HIDE DEF hit, e
  <1>6. /\ ~epoll'[fd].armed /\ \A g \in Fds \ {fd} : epoll'[g] = epoll[g]
        /\ epoll' \in [Fds -> Registers]
    <2>1. /\ epoll'[fd] = [epoll[fd] EXCEPT !.armed = ~epoll[fd].oneshot]
          /\ \A g \in Fds \ {fd} : epoll'[g] = epoll[g]
          /\ epoll' = [g \in Fds |-> epoll'[g]]
      BY <1>t, <1>1 DEF RegisterTypes
    <2>2. call[p][fd] \in SUBSET Conditions
      BY <1>t, <1>2 DEF EntryTypes, PollUse
    <2>3. epoll'[fd] = [mask |-> call[p][fd], oneshot |-> TRUE, armed |-> FALSE]
      <3>1. /\ epoll[fd].oneshot = TRUE
            /\ [epoll[fd] EXCEPT !.armed = ~TRUE] = [mask |-> call[p][fd], oneshot |-> TRUE, armed |-> ~TRUE]
        BY <1>3, <2>2, RegisterLemma
      <3> QED BY <2>1, <3>1
    <2>4. epoll'[fd] \in Registers /\ ~epoll'[fd].armed
      BY <2>2, <2>3, RegisterLemma
    <2>5. \A g \in Fds : epoll'[g] \in Registers
      BY <1>t, <2>1, <2>4 DEF RegisterTypes
    <2> QED BY <2>1, <2>4, <2>5
  <1>7. /\ token'[p] /\ fd \in revents'[p]
        /\ \A t \in Tasks \ {p} : token'[t] = token[t] /\ revents'[t] = revents[t]
        /\ \A g \in Fds \ {fd} : g \in revents'[p] <=> g \in revents[p]
        /\ token' \in [Tasks -> BOOLEAN] /\ revents' \in [Tasks -> SUBSET Fds]
    BY <1>t, <1>1, <1>5 DEF RegisterTypes
  <1>8. ASSUME NEW t \in Tasks, NEW g \in DOMAIN call[t] PROVE Armed(t, g)'
    <2>1. g \in Fds /\ Armed(t, g)
      BY <1>t DEF EntryTypes, PollUse, Polled
    <2>2. CASE g = fd
      BY <1>4, <1>6, <1>7, <2>2 DEF Armed
    <2>3. CASE g # fd
      <3>1. epoll'[g] = epoll[g] /\ (g \in revents'[t] <=> g \in revents[t])
            /\ (token[t] => token'[t])
        BY <1>6, <1>7, <2>1, <2>3
      <3> QED BY <1>1, <2>1, <3>1 DEF Armed
    <2> QED BY <2>2, <2>3
  <1>9. Polled'
    BY <1>t, <1>1, <1>6, <1>8 DEF Polled
  <1> QED BY <1>6, <1>7, <1>9 DEF Registration, RegisterTypes

\* Every step keeps the registration.
LEMMA NextRegistration ==
    PollUse /\ Entries /\ OnePoller /\ OnePoller' /\ Registration /\ [Next]_vars => Registration'
  <1> SUFFICES ASSUME PollUse, Entries, OnePoller, OnePoller', Registration, [Next]_vars
               PROVE  Registration'
    OBVIOUS
  <1>t. EntryTypes /\ EntriesAgree /\ RegisterTypes /\ Polled
    BY DEF Entries, Registration
  <1>1. ASSUME UNCHANGED <<epoll, call, token, revents>> PROVE Registration'
    BY <1>1 DEF Registration, RegisterTypes, Polled, Armed
  <1>2. CASE UNCHANGED vars
    BY <1>1, <1>2 DEF vars
  <1>3. ASSUME NEW t \in Tasks, NEW c \in Calls[t], Poll(t, c) PROVE Registration'
    BY <1>3, PollRegisters
  <1>4. ASSUME NEW t \in Tasks, Interrupt(t) PROVE Registration'
    <2>1. /\ UNCHANGED <<epoll, call, revents>> /\ token' \in [Tasks -> BOOLEAN]
          /\ \A u \in Tasks : token[u] => token'[u]
      BY <1>t, <1>4 DEF Interrupt, RegisterTypes
    <2>2. Polled'
      BY <1>t, <2>1 DEF Polled, Armed
    <2> QED BY <1>t, <2>1, <2>2 DEF Registration, RegisterTypes
  <1>5. ASSUME NEW t \in Tasks, Return(t) PROVE Registration'
    BY <1>5, ReturnRegisters
  <1>6. ASSUME NEW fd \in Fds, Event(fd) PROVE Registration'
    BY <1>6, EventRegisters
  <1>7. ASSUME NEW fd \in Fds, Reopen(fd) PROVE Registration'
    <2>1. NotAdded \in Registers /\ ~NotAdded.armed
      BY DEF NotAdded, Registers
    <2>2. /\ UNCHANGED <<call, token, revents>> /\ ~epoll'[fd].armed
          /\ epoll' \in [Fds -> Registers]
          /\ \A g \in Fds \ {fd} : epoll'[g] = epoll[g]
      BY <1>t, <1>7, <2>1 DEF Reopen, RegisterTypes
    <2>3. \A t \in Tasks : fd \notin DOMAIN call[t]
      BY <1>t, <1>7, EmptyLemma DEF Reopen, EntriesAgree
    <2>4. \A t \in Tasks : DOMAIN call[t] \subseteq Fds
      <3>1. DOMAIN NoCall = {}
        BY DEF NoCall
      <3> QED BY <1>t, <3>1 DEF EntryTypes, PollUse
    <2>5. Polled'
      BY <1>t, <2>2, <2>3, <2>4 DEF Polled, Armed
    <2> QED BY <1>t, <2>2, <2>5 DEF Registration, RegisterTypes
  <1>8. ASSUME NEW fd \in Fds, NEW c \in Conditions, Change(fd, c) PROVE Registration'
    BY <1>1, <1>8 DEF Change
  <1> QED BY <1>2, <1>3, <1>4, <1>5, <1>6, <1>7, <1>8 DEF Next

\* While no two tasks poll one descriptor at the same time, a poll that waits is
\* registered with epoll for every event it asks for, and wait() is never given a
\* descriptor that nobody polls: poll() and remove_pollfds need not look at what the
\* kernel has registered. With two tasks it is not so (src/io.cc:86,100).
THEOREM IoRegistered ==
    ASSUME PollUse
    PROVE  Spec /\ []OnePoller => [](Registered /\ NoSpin)
  <1>1. Registration => Registered
    <2> SUFFICES ASSUME Registration, NEW t \in Tasks, NEW fd \in DOMAIN call[t], ~token[t]
                 PROVE  epoll[fd].armed /\ call[t][fd] \subseteq epoll[fd].mask
      BY DEF Registered
    <2>1. epoll[fd] = [mask |-> call[t][fd], oneshot |-> TRUE, armed |-> TRUE]
      BY DEF Registration, Polled, Armed
    <2> QED BY <2>1, SMTT(30)
  <1>2. Entries /\ Registration => NoSpin
    <2> SUFFICES ASSUME Entries, Registration, NEW fd \in Fds, epoll[fd].armed
                 PROVE  tasks[fd] # <<>>
      BY DEF NoSpin
    <2>1. Range(tasks[fd]) # {}
      BY DEF Entries, EntriesAgree, Registration, Polled
    <2> QED BY <2>1, EmptyLemma
  <1> QED BY <1>1, <1>2, InitEntries, NextEntries, InitRegistration, NextRegistration, PTL DEF Spec

-----------------------------------------------------------------------------
(***************************************************************************)
(* The thread pool for blocking calls, IoProc. A call is in one place at a *)
(* time: it is not sent yet, in io.ch, with one thread, in its reply       *)
(* channel, or among the results of its client.                            *)
(***************************************************************************)
CONSTANTS Clients, Procs, None, PoolCalls, Waits, Interrupted
VARIABLES queue, closed, client, proc, ran

Pool == INSTANCE IoProc WITH Calls <- PoolCalls

\* None stands for io.ch; a client makes at least one call.
PoolUse ==
    /\ None \notin Clients
    /\ \A c \in Clients : PoolCalls[c] \in Nat \ {0} /\ Waits[c] \in Nat

Pcalls == Pool!Pcalls
Channels == Clients \cup {None}

ClientPlaces == {"send", "sync", "wait", "done"}
ClientRecords == [pc : ClientPlaces, sent : Nat, got : SUBSET Pcalls]
ClientTypes == client \in [Clients -> ClientRecords]
ProcTypes ==
    /\ proc \in [Procs -> [pc : {"recv", "run", "reply", "sync", "exit"},
                           call : Pcalls \cup {<<None, 0>>}]]
    /\ \A p \in Procs : proc[p].pc \in {"run", "reply", "sync"} => proc[p].call \in Pcalls
QueueTypes == queue \in [Channels -> Seq(Pcalls)] /\ \A ch \in Channels : IsInjective(queue[ch])

\* What was sent, and what a thread of the pool has taken and not answered yet.
SentBy(cl, k) == k[2] <= cl[k[1]].sent
Sent(k) == SentBy(client, k)
Busy(p) == proc[p].pc \in {"run", "reply"}

\* A call has run when its thread is about to reply, and not before.
Waiting == \A k \in Range(queue[None]) : ran[k] = 0 /\ Sent(k)
Working == \A p \in Procs :
    LET k == proc[p].call IN
    /\ proc[p].pc = "run" => ran[k] = 0 /\ Sent(k) /\ k \notin Range(queue[None])
    /\ proc[p].pc = "reply" => ran[k] = 1 /\ k \notin Range(queue[k[1]]) \cup client[k[1]].got
Apart == \A p, q \in Procs : Busy(p) /\ Busy(q) /\ proc[p].call = proc[q].call => p = q
Answered == \A c \in Clients :
    /\ \A k \in Range(queue[c]) \cup client[c].got : k[1] = c /\ ran[k] = 1
    /\ Range(queue[c]) \cap client[c].got = {}
Counts == ran \in [Pcalls -> {0, 1}] /\ \A k \in Pcalls : ~Sent(k) => ran[k] = 0
Sending == \A c \in Clients : client[c].pc = "send" => client[c].sent < PoolCalls[c]

\* What a client has got so far, when nobody is interrupted.
Results(c) ==
    /\ IsFiniteSet(client[c].got)
    /\ client[c].pc \in {"send", "sync"} => client[c].got = {}
    /\ client[c].pc = "wait" => Cardinality(client[c].got) < Waits[c]
    /\ client[c].pc = "done" => Cardinality(client[c].got) = Waits[c]

PoolTypes == ClientTypes /\ ProcTypes /\ QueueTypes
PoolInv ==
    /\ PoolTypes /\ Waiting /\ Working /\ Apart /\ Answered /\ Counts /\ Sending
    /\ Interrupted = {} => \A c \in Clients : Results(c)

\* A call is a client and the number of one of its calls.
LEMMA PcallLemma ==
    /\ \A k \in Pcalls : k[1] \in Clients /\ k[2] \in 1..PoolCalls[k[1]] /\ k = <<k[1], k[2]>>
    /\ \A c \in Clients : \A n \in 1..PoolCalls[c] : <<c, n>> \in Pcalls
  <1>1. ASSUME NEW k \in Pcalls
        PROVE  k[1] \in Clients /\ k[2] \in 1..PoolCalls[k[1]] /\ k = <<k[1], k[2]>>
    <2>1. PICK c \in Clients : k \in {<<c, n>> : n \in 1..PoolCalls[c]}
      BY DEF Pcalls, Pool!Pcalls
    <2>2. PICK n \in 1..PoolCalls[c] : k = <<c, n>>
      BY <2>1
    <2>3. k[1] = c /\ k[2] = n
      BY <2>2, SMTT(30)
    <2> QED BY <2>2, <2>3
  <1>2. ASSUME NEW c \in Clients, NEW n \in 1..PoolCalls[c] PROVE <<c, n>> \in Pcalls
    <2>1. <<c, n>> \in {<<c, m>> : m \in 1..PoolCalls[c]}
      OBVIOUS
    <2> QED BY <2>1 DEF Pcalls, Pool!Pcalls
  <1> QED BY <1>1, <1>2

\* The size of a set is the same in both modules.
LEMMA CardinalityLemma == \A S : Pool!Cardinality(S) = Cardinality(S)
  BY DEF Pool!Cardinality, Cardinality

\* Nothing has been called at first.
LEMMA InitPool ==
    ASSUME PoolUse, Pool!Init
    PROVE  PoolInv
  <1>1. /\ \A ch \in Channels : queue[ch] = <<>> /\ Range(queue[ch]) = {}
        /\ QueueTypes
    BY EmptyLemma DEF Pool!Init, Pool!Channels, Channels, QueueTypes
  <1>2. /\ ClientTypes /\ \A c \in Clients : /\ client[c].pc = "send" /\ client[c].sent = 0
                                             /\ client[c].got = {}
    BY DEF Pool!Init, ClientTypes, ClientRecords, ClientPlaces
  <1>3. ProcTypes /\ \A p \in Procs : proc[p].pc = "recv"
    BY DEF Pool!Init, ProcTypes
  <1>4. Counts
    BY DEF Pool!Init, Counts, Pcalls
  <1>5. Waiting
    BY <1>1 DEF Waiting, Channels
  <1>6. Working /\ Apart
    BY <1>3 DEF Working, Apart, Busy
  <1>7. Answered
    BY <1>1, <1>2 DEF Answered, Channels
  <1>8. Sending
    BY <1>2, SMTT(30) DEF Sending, PoolUse
  <1>9. \A c \in Clients : Results(c)
    BY <1>2, FS_EmptySet DEF Results
  <1> QED BY <1>1, <1>2, <1>3, <1>4, <1>5, <1>6, <1>7, <1>8, <1>9 DEF PoolInv, PoolTypes

\* A client goes on to another place, with a call more or a result more.
Moves(c, q, m, g) ==
    \/ client' = [client EXCEPT ![c].sent = m, ![c].pc = q] /\ g = client[c].got
    \/ client' = [client EXCEPT ![c].got = g, ![c].pc = q] /\ m = client[c].sent
    \/ client' = [client EXCEPT ![c].pc = q] /\ g = client[c].got /\ m = client[c].sent

\* The other clients stay where they are.
LEMMA ClientMoves ==
    ASSUME ClientTypes, NEW c \in Clients, NEW q \in ClientPlaces,
           NEW m \in Nat, NEW g \in SUBSET Pcalls, Moves(c, q, m, g)
    PROVE  /\ ClientTypes'
           /\ client'[c].pc = q /\ client'[c].sent = m /\ client'[c].got = g
           /\ \A d \in Clients \ {c} : client'[d] = client[d]
  <1>1. client[c] \in ClientRecords
    BY DEF ClientTypes
  <1>2. PICK r \in ClientRecords : /\ r.sent = m /\ r.got = g
                                   /\ client' = [client EXCEPT ![c] = [r EXCEPT !.pc = q]]
    <2>1. CASE client' = [client EXCEPT ![c].sent = m, ![c].pc = q] /\ g = client[c].got
      <3>1. PICK r \in ClientRecords : r = [client[c] EXCEPT !.sent = m]
        BY <1>1 DEF ClientRecords
      <3>2. r.sent = m /\ r.got = g
        BY <1>1, <2>1, <3>1 DEF ClientRecords
      <3>3. client' = [client EXCEPT ![c] = [r EXCEPT !.pc = q]]
        BY <2>1, <3>1 DEF ClientTypes
      <3> QED BY <3>2, <3>3
    <2>2. CASE client' = [client EXCEPT ![c].got = g, ![c].pc = q] /\ m = client[c].sent
      <3>1. PICK r \in ClientRecords : r = [client[c] EXCEPT !.got = g]
        BY <1>1 DEF ClientRecords
      <3>2. r.sent = m /\ r.got = g
        BY <1>1, <2>2, <3>1 DEF ClientRecords
      <3>3. client' = [client EXCEPT ![c] = [r EXCEPT !.pc = q]]
        BY <2>2, <3>1 DEF ClientTypes
      <3> QED BY <3>2, <3>3
    <2>3. CASE client' = [client EXCEPT ![c].pc = q] /\ g = client[c].got /\ m = client[c].sent
      BY <1>1, <2>3
    <2> QED BY <2>1, <2>2, <2>3 DEF Moves
  <1>3. PICK x \in ClientRecords : x = [r EXCEPT !.pc = q]
    BY DEF ClientRecords
  <1>5. x.pc = q /\ x.sent = r.sent /\ x.got = r.got
    BY <1>3 DEF ClientRecords
  <1>4. client' = [client EXCEPT ![c] = x]
    BY <1>2, <1>3
  <1> QED BY <1>2, <1>4, <1>5 DEF ClientTypes

\* The client of a call sends it: it was nowhere before.
LEMMA SendPool ==
    ASSUME PoolUse, PoolInv, NEW c \in Clients, Pool!Send(c)
    PROVE  PoolInv'
  <1>t. /\ ClientTypes /\ ProcTypes /\ QueueTypes /\ Waiting /\ Working /\ Apart /\ Answered
        /\ Counts /\ Sending
    BY DEF PoolInv, PoolTypes
  <1>1. client[c].pc = "send" /\ UNCHANGED <<closed, proc, ran>> /\ client[c].sent \in Nat
    BY <1>t DEF Pool!Send, ClientTypes, ClientRecords
  <1>2. PICK n \in 1..PoolCalls[c] : n = client[c].sent + 1 /\ client[c].sent < n /\ n \in Nat
    BY <1>t, <1>1, SMTT(30) DEF Sending, PoolUse
  <1>3. PICK k \in Pcalls : k = <<c, n>> /\ k[1] = c /\ k[2] = n
    BY <1>2, PcallLemma
  <1>5. /\ Pool!Then(c, n) \in {"send", "wait", "done"}
        /\ Pool!Then(c, n) = "send" => n < PoolCalls[c]
        /\ Pool!Then(c, n) = "wait" => Waits[c] > 0
        /\ Pool!Then(c, n) = "done" => ~(Waits[c] > 0)
    BY DEF Pool!Then
  <1>s. PICK s \in {"sync", Pool!Then(c, n)} : client' = [client EXCEPT ![c].sent = n, ![c].pc = s]
    BY <1>2 DEF Pool!Send
  <1>4. /\ ClientTypes'
        /\ client'[c].pc = s /\ client'[c].sent = n /\ client'[c].got = client[c].got
        /\ \A d \in Clients \ {c} : client'[d] = client[d]
    <2>1. s \in ClientPlaces /\ n \in Nat
      BY <1>2, <1>5 DEF ClientPlaces
    <2>2. PICK g \in SUBSET Pcalls : g = client[c].got
      BY <1>t DEF ClientTypes, ClientRecords
    <2>3. Moves(c, s, n, g)
      BY <1>s, <2>2 DEF Moves
    <2> QED BY <1>t, <2>1, <2>2, <2>3, ClientMoves
  <1>6. \A j \in Pcalls : (Sent(j) => Sent(j)') /\ (Sent(j)' => Sent(j) \/ j = k)
    <2> SUFFICES ASSUME NEW j \in Pcalls PROVE (Sent(j) => Sent(j)') /\ (Sent(j)' => Sent(j) \/ j = k)
      OBVIOUS
    <2>1. j[1] \in Clients /\ j[2] \in Nat /\ j = <<j[1], j[2]>>
      BY PcallLemma, SMTT(30) DEF PoolUse
    <2>2. CASE j[1] = c
      <3>1. k = <<c, n>> /\ n = client[c].sent + 1
        BY <1>2, <1>3
      <3>2. (Sent(j) <=> j[2] <= client[c].sent) /\ (Sent(j)' <=> j[2] <= n)
        BY <1>4, <2>2 DEF Sent, SentBy
      <3>3. j[2] <= n => j[2] <= client[c].sent \/ j[2] = n
        BY <1>1, <1>2, <2>1, <3>1, SMTT(30)
      <3>4. j[2] <= client[c].sent => j[2] <= n
        BY <1>1, <1>2, <2>1, <3>1, SMTT(30)
      <3> QED BY <2>1, <2>2, <3>1, <3>2, <3>3, <3>4
    <2>3. CASE j[1] # c
      BY <1>4, <2>1, <2>3 DEF Sent, SentBy
    <2> QED BY <2>2, <2>3
  <1>7. ~Sent(k) /\ Sent(k)'
    <2>1. (Sent(k) <=> n <= client[c].sent) /\ (Sent(k)' <=> n <= n)
      BY <1>3, <1>4 DEF Sent, SentBy
    <2>2. ~(n <= client[c].sent) /\ n <= n
      BY <1>1, <1>2, SMTT(30)
    <2> QED BY <2>1, <2>2
  <1>8. ran[k] = 0
    BY <1>t, <1>3, <1>7 DEF Counts
  <1>9. /\ queue' = [queue EXCEPT ![None] = Append(@, k)]
        /\ queue'[None] = Append(queue[None], k) /\ \A d \in Clients : queue'[d] = queue[d]
        /\ queue' = [ch \in Channels |-> queue'[ch]] /\ queue[None] \in Seq(Pcalls)
        /\ IsInjective(queue[None])
    BY <1>t, <1>2, <1>3 DEF Pool!Send, QueueTypes, Channels, PoolUse
  <1>10. k \notin Range(queue[None])
    BY <1>t, <1>7 DEF Waiting
  <1>11. /\ queue'[None] \in Seq(Pcalls) /\ IsInjective(queue'[None])
         /\ Range(queue'[None]) = Range(queue[None]) \cup {k}
    <2>1. /\ Append(queue[None], k) \in Seq(Pcalls) /\ IsInjective(Append(queue[None], k))
          /\ Range(Append(queue[None], k)) = Range(queue[None]) \cup {k}
      BY <1>3, <1>9, <1>10, AppendLemma, SMTT(30)
    <2> QED BY <1>9, <2>1
  <1>12. Range(queue[None]) \subseteq Pcalls
    BY <1>9, RangeLemma
  <1>13. QueueTypes'
    BY <1>t, <1>9, <1>11 DEF QueueTypes, Channels
  <1>15. Waiting'
    BY <1>t, <1>1, <1>6, <1>7, <1>8, <1>11, <1>12 DEF Waiting
  <1>16. \A d \in Clients : client'[d].got = client[d].got
    BY <1>4
  <1>17. Working'
    <2> SUFFICES ASSUME NEW p \in Procs
                 PROVE  LET j == proc[p].call IN
                        /\ proc[p].pc = "run"
                           => ran[j] = 0 /\ SentBy(client', j) /\ j \notin Range(queue'[None])
                        /\ proc[p].pc = "reply"
                           => ran[j] = 1 /\ j \notin Range(queue'[j[1]]) \cup client'[j[1]].got
      BY <1>1 DEF Working, Sent
    <2>1. CASE proc[p].pc = "run"
      <3>1. proc[p].call \in Pcalls /\ Sent(proc[p].call)
        BY <1>t, <2>1 DEF ProcTypes, Working
      <3>2. proc[p].call # k
        BY <1>7, <3>1
      <3>3. SentBy(client', proc[p].call)
        BY <1>6, <3>1 DEF Sent
      <3> QED BY <1>t, <1>11, <2>1, <3>2, <3>3 DEF Working
    <2>2. CASE proc[p].pc = "reply"
      <3>1. proc[p].call \in Pcalls /\ proc[p].call[1] \in Clients
        BY <1>t, <2>2, PcallLemma DEF ProcTypes
      <3> QED BY <1>t, <1>9, <1>16, <2>2, <3>1 DEF Working
    <2> QED BY <2>1, <2>2
  <1>18. ProcTypes' /\ Apart'
    BY <1>t, <1>1 DEF ProcTypes, Apart, Busy
  <1>19. Answered'
    BY <1>t, <1>1, <1>9, <1>16 DEF Answered
  <1>20. Counts'
    BY <1>t, <1>1, <1>6 DEF Counts
  <1>21. Sending'
    BY <1>t, <1>4, <1>5 DEF Sending
  <1>22. ASSUME Interrupted = {}, NEW d \in Clients PROVE Results(d)'
    <2>1. Results(d) /\ Results(c)
      BY <1>22 DEF PoolInv
    <2>2. CASE d = c
      <3>1. client'[c].got = {} /\ IsFiniteSet({}) /\ Cardinality({}) = 0
        BY <1>1, <1>4, <2>1, FS_EmptySet DEF Results
      <3>2. (Waits[c] > 0 => 0 < Waits[c]) /\ (~(Waits[c] > 0) => 0 = Waits[c])
        BY SMTT(30) DEF PoolUse
      <3> QED BY <1>4, <1>5, <2>2, <3>1, <3>2 DEF Results
    <2>3. CASE d # c
      BY <1>4, <2>1, <2>3 DEF Results
    <2> QED BY <2>2, <2>3
  <1> QED BY <1>4, <1>13, <1>15, <1>17, <1>18, <1>19, <1>20, <1>21, <1>22 DEF PoolInv, PoolTypes

\* A client that only goes to another place changes nothing else.
LEMMA PlacePool ==
    ASSUME PoolUse, PoolInv, NEW c \in Clients, NEW q \in ClientPlaces,
           client' = [client EXCEPT ![c].pc = q], UNCHANGED <<queue, proc, ran>>,
           q = "send" => client[c].sent < PoolCalls[c], Interrupted = {} => Results(c)'
    PROVE  PoolInv'
  <1>t. /\ ClientTypes /\ ProcTypes /\ QueueTypes /\ Waiting /\ Working /\ Apart /\ Answered
        /\ Counts /\ Sending
    BY DEF PoolInv, PoolTypes
  <1>1. PICK m \in Nat, g \in SUBSET Pcalls : m = client[c].sent /\ g = client[c].got
    BY <1>t DEF ClientTypes, ClientRecords
  <1>2. Moves(c, q, m, g)
    BY <1>1 DEF Moves
  <1>3. /\ ClientTypes' /\ client'[c].pc = q
        /\ \A d \in Clients \ {c} : client'[d] = client[d]
        /\ \A d \in Clients : client'[d].sent = client[d].sent /\ client'[d].got = client[d].got
    <2>1. /\ ClientTypes' /\ client'[c].pc = q /\ client'[c].sent = m /\ client'[c].got = g
          /\ \A d \in Clients \ {c} : client'[d] = client[d]
      BY <1>t, <1>2, ClientMoves
    <2> QED BY <1>1, <2>1
  <1>4. \A k \in Pcalls : SentBy(client', k) <=> SentBy(client, k)
    BY <1>3, PcallLemma DEF SentBy
  <1>5. ProcTypes' /\ QueueTypes' /\ Apart'
    BY <1>t DEF ProcTypes, QueueTypes, Apart, Busy
  <1>6. Range(queue[None]) \subseteq Pcalls
    BY <1>t, RangeLemma DEF QueueTypes, Channels
  <1>7. Waiting' /\ Counts'
    BY <1>t, <1>4, <1>6 DEF Waiting, Counts, Sent
  <1>8. \A p \in Procs : Busy(p) => proc[p].call \in Pcalls /\ proc[p].call[1] \in Clients
    BY <1>t, PcallLemma DEF ProcTypes, Busy
  <1>9. Working'
    <2> SUFFICES ASSUME NEW p \in Procs
                 PROVE  LET k == proc[p].call IN
                        /\ proc[p].pc = "run"
                           => ran[k] = 0 /\ SentBy(client', k) /\ k \notin Range(queue[None])
                        /\ proc[p].pc = "reply"
                           => ran[k] = 1 /\ k \notin Range(queue[k[1]]) \cup client'[k[1]].got
      BY DEF Working, Sent
    <2> QED BY <1>t, <1>3, <1>4, <1>8 DEF Working, Sent, Busy
  <1>10. Answered'
    BY <1>t, <1>3 DEF Answered
  <1>11. Sending'
    BY <1>t, <1>3 DEF Sending
  <1>12. ASSUME Interrupted = {}, NEW d \in Clients PROVE Results(d)'
    <2>1. CASE d = c
      BY <1>12, <2>1
    <2>2. CASE d # c
      BY <1>3, <1>12, <2>2 DEF Results, PoolInv
    <2> QED BY <2>1, <2>2
  <1> QED BY <1>3, <1>5, <1>7, <1>9, <1>10, <1>11, <1>12 DEF PoolInv, PoolTypes

\* The send of a client has been received.
LEMMA SyncPool ==
    ASSUME PoolUse, PoolInv, NEW c \in Clients, Pool!Sync(c)
    PROVE  PoolInv'
  <1>1. ClientTypes /\ client[c].pc = "sync" /\ UNCHANGED <<queue, proc, ran>>
    BY DEF Pool!Sync, PoolInv, PoolTypes
  <1>2. PICK q \in {"send", "wait", "done"} : q = Pool!Then(c, client[c].sent)
    BY DEF Pool!Then
  <1>3. /\ q = "send" => client[c].sent < PoolCalls[c]
        /\ q = "wait" => Waits[c] > 0
        /\ q = "done" => ~(Waits[c] > 0)
    BY <1>2 DEF Pool!Then
  <1>4. client' = [client EXCEPT ![c].pc = q]
    BY <1>2 DEF Pool!Sync
  <1>5. ASSUME Interrupted = {} PROVE Results(c)'
    <2>1. Results(c) /\ IsFiniteSet({}) /\ Cardinality({}) = 0
      BY <1>5, FS_EmptySet DEF PoolInv
    <2>2. client'[c].pc = q /\ client'[c].got = {}
      BY <1>1, <1>4, <2>1 DEF Results, ClientTypes, ClientRecords
    <2>3. (Waits[c] > 0 => 0 < Waits[c]) /\ (~(Waits[c] > 0) => 0 = Waits[c])
      BY SMTT(30) DEF PoolUse
    <2> QED BY <1>3, <2>1, <2>2, <2>3 DEF Results
  <1>6. q \in ClientPlaces
    BY DEF ClientPlaces
  <1> QED BY <1>1, <1>3, <1>4, <1>5, <1>6, PlacePool

\* A cancel ends what a client does, and only where it may be canceled.
LEMMA ThrowPool ==
    ASSUME PoolUse, PoolInv, NEW c \in Clients, Pool!Throw(c)
    PROVE  PoolInv'
  <1>1. client' = [client EXCEPT ![c].pc = "done"] /\ UNCHANGED <<queue, proc, ran>>
        /\ Interrupted # {} /\ "done" \in ClientPlaces
    BY DEF Pool!Throw, ClientPlaces
  <1> QED BY <1>1, PlacePool

\* iowait takes the first of the results.
LEMMA WaitPool ==
    ASSUME PoolUse, PoolInv, NEW c \in Clients, Pool!Wait(c)
    PROVE  PoolInv'
  <1>t. /\ ClientTypes /\ ProcTypes /\ QueueTypes /\ Waiting /\ Working /\ Apart /\ Answered
        /\ Counts /\ Sending
    BY DEF PoolInv, PoolTypes
  <1>1. /\ client[c].pc = "wait" /\ queue[c] # <<>> /\ UNCHANGED <<closed, proc, ran>>
        /\ queue' = [queue EXCEPT ![c] = Tail(@)]
    BY DEF Pool!Wait
  <1>2. queue[c] \in Seq(Pcalls) /\ IsInjective(queue[c]) /\ c \in Channels /\ c # None
    BY <1>t DEF QueueTypes, Channels, PoolUse
  <1>3. /\ Head(queue[c]) \in Pcalls /\ Head(queue[c]) \in Range(queue[c])
        /\ Tail(queue[c]) \in Seq(Pcalls) /\ IsInjective(Tail(queue[c]))
        /\ Range(Tail(queue[c])) = Range(queue[c]) \ {Head(queue[c])}
    BY <1>1, <1>2, TailLemma, SMTT(30)
  <1>4. PICK h \in Pcalls : h = Head(queue[c])
    BY <1>3
  <1>5. /\ queue'[c] \in Seq(Pcalls) /\ IsInjective(queue'[c])
        /\ Range(queue'[c]) = Range(queue[c]) \ {h} /\ h \in Range(queue[c])
        /\ \A ch \in Channels \ {c} : queue'[ch] = queue[ch]
        /\ queue' = [ch \in Channels |-> queue'[ch]]
    BY <1>t, <1>1, <1>2, <1>3, <1>4 DEF QueueTypes
  <1>6. PICK m \in Nat : m = client[c].sent
    BY <1>t DEF ClientTypes, ClientRecords
  <1>7. PICK g \in SUBSET Pcalls : g = client[c].got \cup {h}
    BY <1>t DEF ClientTypes, ClientRecords
  <1>8. PICK q \in {"wait", "done"} :
           q = IF Cardinality(client[c].got) + 1 = Waits[c] THEN "done" ELSE "wait"
    OBVIOUS
  <1>9. Moves(c, q, m, g)
    BY CardinalityLemma, <1>4, <1>6, <1>7, <1>8 DEF Moves, Pool!Wait
  <1>10. /\ ClientTypes' /\ client'[c].pc = q /\ client'[c].sent = m /\ client'[c].got = g
         /\ \A d \in Clients \ {c} : client'[d] = client[d]
    <2>1. q \in ClientPlaces
      BY DEF ClientPlaces
    <2> QED BY <1>t, <1>9, <2>1, ClientMoves
  <1>11. \A k \in Pcalls : SentBy(client', k) <=> SentBy(client, k)
    <2>1. \A d \in Clients : client'[d].sent = client[d].sent
      BY <1>6, <1>10
    <2> QED BY <2>1, PcallLemma DEF SentBy
  <1>12. ProcTypes' /\ Apart'
    BY <1>t, <1>1 DEF ProcTypes, Apart, Busy
  <1>13. QueueTypes'
    BY <1>t, <1>5 DEF QueueTypes
  <1>14. queue'[None] = queue[None] /\ Range(queue[None]) \subseteq Pcalls
    BY <1>t, <1>2, <1>5, RangeLemma DEF QueueTypes, Channels
  <1>15. Waiting' /\ Counts'
    BY <1>t, <1>1, <1>11, <1>14 DEF Waiting, Counts, Sent
  <1>16. \A d \in Clients : Range(queue'[d]) \cup client'[d].got = Range(queue[d]) \cup client[d].got
    <2>1. Range(queue'[c]) \cup client'[c].got = Range(queue[c]) \cup client[c].got
      BY <1>5, <1>7, <1>10
    <2>2. \A d \in Clients \ {c} : queue'[d] = queue[d] /\ client'[d] = client[d]
      BY <1>5, <1>10 DEF Channels
    <2> QED BY <2>1, <2>2
  <1>17. \A p \in Procs : Busy(p) => proc[p].call \in Pcalls /\ proc[p].call[1] \in Clients
    BY <1>t, PcallLemma DEF ProcTypes, Busy
  <1>18. Working'
    <2> SUFFICES ASSUME NEW p \in Procs
                 PROVE  LET k == proc[p].call IN
                        /\ proc[p].pc = "run"
                           => ran[k] = 0 /\ SentBy(client', k) /\ k \notin Range(queue[None])
                        /\ proc[p].pc = "reply"
                           => ran[k] = 1 /\ k \notin Range(queue'[k[1]]) \cup client'[k[1]].got
      BY <1>1, <1>14 DEF Working, Sent
    <2>1. CASE proc[p].pc = "run"
      BY <1>t, <1>11, <1>17, <2>1 DEF Working, Sent, Busy
    <2>2. CASE proc[p].pc = "reply"
      <3>1. proc[p].call[1] \in Clients
        BY <1>17, <2>2 DEF Busy
      <3>2. Range(queue'[proc[p].call[1]]) \cup client'[proc[p].call[1]].got
            = Range(queue[proc[p].call[1]]) \cup client[proc[p].call[1]].got
        BY <1>16, <3>1
      <3> QED BY <1>t, <2>2, <3>2 DEF Working
    <2> QED BY <2>1, <2>2
  <1>19. Answered'
    <2>1. \A d \in Clients : \A k \in Range(queue'[d]) \cup client'[d].got : k[1] = d /\ ran'[k] = 1
      BY <1>t, <1>1, <1>16 DEF Answered
    <2>2. Range(queue'[c]) \cap client'[c].got = {}
      BY <1>t, <1>5, <1>7, <1>10 DEF Answered
    <2>3. \A d \in Clients \ {c} : Range(queue'[d]) \cap client'[d].got = {}
      BY <1>t, <1>5, <1>10 DEF Answered, Channels
    <2> QED BY <2>1, <2>2, <2>3 DEF Answered
  <1>20. Sending'
    BY <1>t, <1>10 DEF Sending
  <1>21. ASSUME Interrupted = {}, NEW d \in Clients PROVE Results(d)'
    <2>1. Results(d) /\ Results(c)
      BY <1>21 DEF PoolInv
    <2>2. CASE d = c
      <3>1. IsFiniteSet(client[c].got) /\ Cardinality(client[c].got) < Waits[c] /\ h \notin client[c].got
        BY <1>t, <1>1, <1>5, <2>1 DEF Results, Answered
      <3>2. /\ IsFiniteSet(g) /\ Cardinality(g) = Cardinality(client[c].got) + 1
            /\ Cardinality(client[c].got) \in Nat
        BY <1>7, <3>1, FS_AddElement, FS_CardinalityType
      <3>3. /\ Cardinality(client[c].got) + 1 = Waits[c] => Cardinality(g) = Waits[c]
            /\ Cardinality(client[c].got) + 1 # Waits[c] => Cardinality(g) < Waits[c]
        BY <3>1, <3>2, SMTT(30) DEF PoolUse
      <3> QED BY <1>8, <1>10, <2>2, <3>2, <3>3 DEF Results
    <2>3. CASE d # c
      BY <1>10, <2>1, <2>3 DEF Results
    <2> QED BY <2>2, <2>3
  <1> QED BY <1>10, <1>12, <1>13, <1>15, <1>18, <1>19, <1>20, <1>21 DEF PoolInv, PoolTypes

\* A thread of the pool goes to another place with the call that it has.
LEMMA ProcMoves ==
    ASSUME ProcTypes, NEW p \in Procs, NEW q \in {"recv", "reply", "sync", "exit"},
           proc' = [proc EXCEPT ![p].pc = q],
           q \in {"reply", "sync"} => proc[p].call \in Pcalls
    PROVE  /\ ProcTypes' /\ proc'[p].pc = q /\ proc'[p].call = proc[p].call
           /\ \A o \in Procs \ {p} : proc'[o] = proc[o]
  <1>1. proc[p] \in [pc : {"recv", "run", "reply", "sync", "exit"}, call : Pcalls \cup {<<None, 0>>}]
    BY DEF ProcTypes
  <1>2. PICK r \in [pc : {"recv", "run", "reply", "sync", "exit"}, call : Pcalls \cup {<<None, 0>>}] :
           r = [proc[p] EXCEPT !.pc = q]
    BY <1>1
  <1>3. r.pc = q /\ r.call = proc[p].call
    BY <1>1, <1>2
  <1>4. /\ proc'[p] = r /\ \A o \in Procs \ {p} : proc'[o] = proc[o]
        /\ proc' \in [Procs -> [pc : {"recv", "run", "reply", "sync", "exit"},
                                call : Pcalls \cup {<<None, 0>>}]]
    BY <1>2 DEF ProcTypes
  <1> QED BY <1>3, <1>4 DEF ProcTypes

\* A step that leaves the calls where they are, but for a thread that is not busy after
\* it: nothing is wrong that was right.
LEMMA IdlePool ==
    ASSUME PoolInv, NEW p \in Procs, UNCHANGED <<queue, client, ran>>, ProcTypes',
           ~Busy(p)', \A o \in Procs \ {p} : proc'[o] = proc[o]
    PROVE  PoolInv'
  <1>t. /\ ClientTypes /\ QueueTypes /\ Waiting /\ Working /\ Apart /\ Answered
        /\ Counts /\ Sending
    BY DEF PoolInv, PoolTypes
  <1>1. \A o \in Procs : Busy(o)' => o # p /\ proc'[o] = proc[o] /\ Busy(o)
    BY DEF Busy
  <1>2. Working'
    <2> SUFFICES ASSUME NEW o \in Procs, Busy(o)'
                 PROVE  LET k == proc'[o].call IN
                        /\ proc'[o].pc = "run"
                           => ran[k] = 0 /\ SentBy(client, k) /\ k \notin Range(queue[None])
                        /\ proc'[o].pc = "reply"
                           => ran[k] = 1 /\ k \notin Range(queue[k[1]]) \cup client[k[1]].got
      BY DEF Working, Sent, Busy
    <2> QED BY <1>t, <1>1 DEF Working, Sent
  <1>3. Apart'
    BY <1>t, <1>1 DEF Apart
  <1>4. ClientTypes' /\ QueueTypes' /\ Answered' /\ Sending'
    BY <1>t DEF ClientTypes, QueueTypes, Answered, Sending
  <1>5. Waiting' /\ Counts'
    BY <1>t DEF Waiting, Counts, Sent
  <1>6. Interrupted = {} => \A c \in Clients : Results(c)'
    BY DEF PoolInv, Results
  <1> QED BY <1>2, <1>3, <1>4, <1>5, <1>6 DEF PoolInv, PoolTypes

\* The threads that end, or whose reply has been received, and the destructor.
LEMMA RestPool ==
    ASSUME PoolInv, (\E p \in Procs : Pool!Exit(p) \/ Pool!Replied(p)) \/ Pool!Destroy
    PROVE  PoolInv'
  <1>t. ProcTypes
    BY DEF PoolInv, PoolTypes
  <1>1. ASSUME NEW p \in Procs, Pool!Exit(p) \/ Pool!Replied(p) PROVE PoolInv'
    <2>1. UNCHANGED <<queue, client, ran>>
      BY <1>1 DEF Pool!Exit, Pool!Replied
    <2>2. PICK q \in {"recv", "exit"} : proc' = [proc EXCEPT ![p].pc = q]
      BY <1>1 DEF Pool!Exit, Pool!Replied
    <2>3. /\ ProcTypes' /\ proc'[p].pc = q /\ \A o \in Procs \ {p} : proc'[o] = proc[o]
      BY <1>t, <2>2, ProcMoves
    <2>4. ~Busy(p)'
      BY <2>3 DEF Busy
    <2> QED BY <2>1, <2>3, <2>4, IdlePool
  <1>2. CASE Pool!Destroy
    <2>1. UNCHANGED <<queue, client, proc, ran>>
      BY <1>2 DEF Pool!Destroy
    <2> QED BY <2>1 DEF PoolInv, PoolTypes, ClientTypes, ProcTypes, QueueTypes, Waiting, Working,
                        Apart, Busy, Answered, Counts, Sending, Sent, Results
  <1> QED BY <1>1, <1>2

\* A thread takes the first call of io.ch, and drops it when nobody waits for it.
LEMMA RecvPool ==
    ASSUME PoolUse, PoolInv, NEW p \in Procs, Pool!Recv(p)
    PROVE  PoolInv'
  <1>t. /\ ClientTypes /\ ProcTypes /\ QueueTypes /\ Waiting /\ Working /\ Apart /\ Answered
        /\ Counts /\ Sending
    BY DEF PoolInv, PoolTypes
  <1>1. /\ proc[p].pc = "recv" /\ queue[None] # <<>> /\ UNCHANGED <<closed, client, ran>>
        /\ queue' = [queue EXCEPT ![None] = Tail(@)]
    BY DEF Pool!Recv
  <1>2. queue[None] \in Seq(Pcalls) /\ IsInjective(queue[None]) /\ None \in Channels
    BY <1>t DEF QueueTypes, Channels
  <1>3. /\ Head(queue[None]) \in Pcalls /\ Head(queue[None]) \in Range(queue[None])
        /\ Tail(queue[None]) \in Seq(Pcalls) /\ IsInjective(Tail(queue[None]))
        /\ Range(Tail(queue[None])) = Range(queue[None]) \ {Head(queue[None])}
    BY <1>1, <1>2, TailLemma, SMTT(30)
  <1>4. PICK h \in Pcalls : h = Head(queue[None])
    BY <1>3
  <1>5. /\ queue'[None] \in Seq(Pcalls) /\ IsInjective(queue'[None])
        /\ Range(queue'[None]) = Range(queue[None]) \ {h} /\ h \in Range(queue[None])
        /\ \A c \in Clients : queue'[c] = queue[c]
        /\ queue' = [ch \in Channels |-> queue'[ch]]
    BY <1>t, <1>1, <1>2, <1>3, <1>4 DEF QueueTypes, Channels, PoolUse
  <1>6. proc' = proc \/ proc' = [proc EXCEPT ![p] = [pc |-> "run", call |-> h]]
    BY <1>4 DEF Pool!Recv
  <1>7. /\ ProcTypes' /\ \A o \in Procs \ {p} : proc'[o] = proc[o]
        /\ proc'[p] = proc[p] \/ proc'[p] = [pc |-> "run", call |-> h]
    <2>1. CASE proc' = proc
      BY <1>t, <2>1 DEF ProcTypes
    <2>2. CASE proc' = [proc EXCEPT ![p] = [pc |-> "run", call |-> h]]
      <3>1. /\ proc'[p] = [pc |-> "run", call |-> h] /\ \A o \in Procs \ {p} : proc'[o] = proc[o]
            /\ proc' = [o \in Procs |-> proc'[o]]
        BY <1>t, <2>2 DEF ProcTypes
      <3>2. /\ [pc |-> "run", call |-> h] \in [pc : {"recv", "run", "reply", "sync", "exit"},
                                             call : Pcalls \cup {<<None, 0>>}]
            /\ [pc |-> "run", call |-> h].call \in Pcalls
        OBVIOUS
      <3>3. proc' \in [Procs -> [pc : {"recv", "run", "reply", "sync", "exit"},
                                call : Pcalls \cup {<<None, 0>>}]]
        BY <1>t, <3>1, <3>2 DEF ProcTypes
      <3>4. \A o \in Procs : proc'[o].pc \in {"run", "reply", "sync"} => proc'[o].call \in Pcalls
        BY <1>t, <3>1, <3>2 DEF ProcTypes
      <3> QED BY <3>1, <3>3, <3>4 DEF ProcTypes
    <2> QED BY <1>6, <2>1, <2>2
  <1>8. proc'[p].pc = "recv" \/ (proc'[p].pc = "run" /\ proc'[p].call = h)
    <2>1. [pc |-> "run", call |-> h].pc = "run" /\ [pc |-> "run", call |-> h].call = h
      OBVIOUS
    <2> QED BY <1>1, <1>7, <2>1
  <1>9. ran[h] = 0 /\ Sent(h)
    BY <1>t, <1>5 DEF Waiting
  <1>10. \A o \in Procs \ {p} : Busy(o) => proc[o].call # h /\ proc[o].call[1] \in Clients
    <2> SUFFICES ASSUME NEW o \in Procs \ {p}, Busy(o) PROVE proc[o].call # h /\ proc[o].call[1] \in Clients
      OBVIOUS
    <2>1. proc[o].call \in Pcalls /\ proc[o].call[1] \in Clients
      BY <1>t, PcallLemma DEF ProcTypes, Busy
    <2>2. CASE proc[o].pc = "run"
      BY <1>t, <1>5, <2>1, <2>2 DEF Working
    <2>3. CASE proc[o].pc = "reply"
      <3>1. ran[proc[o].call] = 1
        BY <1>t, <2>3 DEF Working
      <3>2. 0 # 1
        BY SMTT(30)
      <3> QED BY <1>9, <2>1, <3>1, <3>2
    <2> QED BY <2>2, <2>3 DEF Busy
  <1>11. Working'
    <2> SUFFICES ASSUME NEW o \in Procs
                 PROVE  LET k == proc'[o].call IN
                        /\ proc'[o].pc = "run"
                           => ran[k] = 0 /\ SentBy(client, k) /\ k \notin Range(queue'[None])
                        /\ proc'[o].pc = "reply"
                           => ran[k] = 1 /\ k \notin Range(queue'[k[1]]) \cup client[k[1]].got
      BY <1>1 DEF Working, Sent
    <2>1. CASE o = p
      BY <1>5, <1>8, <1>9, <2>1 DEF Sent
    <2>2. CASE o # p
      <3>1. proc'[o] = proc[o]
        BY <1>7, <2>2
      <3>2. CASE proc[o].pc = "run"
        BY <1>t, <1>5, <3>1, <3>2 DEF Working, Sent
      <3>3. CASE proc[o].pc = "reply"
        <4>1. queue'[proc[o].call[1]] = queue[proc[o].call[1]]
          BY <1>5, <1>10, <2>2, <3>3 DEF Busy
        <4> QED BY <1>t, <3>1, <3>3, <4>1 DEF Working
      <3> QED BY <3>1, <3>2, <3>3
    <2> QED BY <2>1, <2>2
  <1>12. Apart'
    <2> SUFFICES ASSUME NEW o \in Procs, NEW q \in Procs, Busy(o)', Busy(q)',
                        proc'[o].call = proc'[q].call
                 PROVE  o = q
      BY DEF Apart
    <2>1. CASE o = p
      BY <1>7, <1>8, <1>10, <2>1 DEF Busy
    <2>2. CASE q = p
      BY <1>7, <1>8, <1>10, <2>2 DEF Busy
    <2>3. CASE o # p /\ q # p
      BY <1>t, <1>7, <2>3 DEF Apart, Busy
    <2> QED BY <2>1, <2>2, <2>3
  <1>13. QueueTypes'
    BY <1>t, <1>5 DEF QueueTypes, Channels
  <1>14. Waiting' /\ Counts'
    BY <1>t, <1>1, <1>5 DEF Waiting, Counts, Sent
  <1>15. ClientTypes' /\ Sending'
    BY <1>t, <1>1 DEF ClientTypes, Sending
  <1>16. Answered'
    BY <1>t, <1>1, <1>5 DEF Answered
  <1>17. Interrupted = {} => \A c \in Clients : Results(c)'
    BY <1>1 DEF PoolInv, Results
  <1> QED BY <1>7, <1>11, <1>12, <1>13, <1>14, <1>15, <1>16, <1>17 DEF PoolInv, PoolTypes

\* The function of a call runs: it had not run before.
LEMMA RunPool ==
    ASSUME PoolUse, PoolInv, NEW p \in Procs, Pool!Run(p)
    PROVE  PoolInv'
  <1>t. /\ ClientTypes /\ ProcTypes /\ QueueTypes /\ Waiting /\ Working /\ Apart /\ Answered
        /\ Counts /\ Sending
    BY DEF PoolInv, PoolTypes
  <1>1. /\ proc[p].pc = "run" /\ UNCHANGED <<queue, closed, client>>
        /\ proc' = [proc EXCEPT ![p].pc = "reply"]
        /\ ran' = [ran EXCEPT ![proc[p].call] = @ + 1]
    BY DEF Pool!Run
  <1>2. PICK h \in Pcalls : h = proc[p].call
    BY <1>t, <1>1 DEF ProcTypes
  <1>3. ran[h] = 0 /\ Sent(h) /\ h \notin Range(queue[None]) /\ h[1] \in Clients
    BY <1>t, <1>1, <1>2, PcallLemma DEF Working
  <1>4. /\ ProcTypes' /\ proc'[p].pc = "reply" /\ proc'[p].call = h
        /\ \A o \in Procs \ {p} : proc'[o] = proc[o]
    BY <1>t, <1>1, <1>2, ProcMoves
  <1>5. 0 + 1 = 1 /\ 0 # 1
    BY SMTT(30)
  <1>6. ran' \in [Pcalls -> {0, 1}] /\ ran'[h] = 1 /\ \A k \in Pcalls \ {h} : ran'[k] = ran[k]
    BY <1>t, <1>1, <1>2, <1>3, <1>5 DEF Counts
  <1>7. \A o \in Procs \ {p} : Busy(o) => proc[o].call \in Pcalls \ {h}
    BY <1>t, <1>1, <1>2 DEF Apart, Busy, ProcTypes
  <1>8. Working'
    <2> SUFFICES ASSUME NEW o \in Procs
                 PROVE  LET k == proc'[o].call IN
                        /\ proc'[o].pc = "run"
                           => ran'[k] = 0 /\ SentBy(client, k) /\ k \notin Range(queue[None])
                        /\ proc'[o].pc = "reply"
                           => ran'[k] = 1 /\ k \notin Range(queue[k[1]]) \cup client[k[1]].got
      BY <1>1 DEF Working, Sent
    <2>1. CASE o = p
      <3>1. h \notin Range(queue[h[1]]) \cup client[h[1]].got
        BY <1>t, <1>3, <1>5 DEF Answered
      <3> QED BY <1>4, <1>6, <2>1, <3>1
    <2>2. CASE o # p
      <3>1. /\ proc'[o] = proc[o]
            /\ proc[o].pc \in {"run", "reply"} => ran'[proc[o].call] = ran[proc[o].call]
        BY <1>4, <1>6, <1>7, <2>2 DEF Busy
      <3> QED BY <1>t, <3>1 DEF Working, Sent
    <2> QED BY <2>1, <2>2
  <1>9. Apart'
    <2>1. \A o \in Procs : (Busy(o)' <=> Busy(o)) /\ proc'[o].call = proc[o].call
      BY <1>1, <1>2, <1>4 DEF Busy
    <2> QED BY <1>t, <2>1 DEF Apart
  <1>10. Range(queue[None]) \subseteq Pcalls
    BY <1>t, RangeLemma DEF QueueTypes, Channels
  <1>11. Waiting'
    BY <1>t, <1>1, <1>3, <1>6, <1>10 DEF Waiting, Sent
  <1>12. Counts'
    BY <1>t, <1>1, <1>3, <1>6 DEF Counts, Sent
  <1>13. Answered'
    <2>1. \A c \in Clients : Range(queue[c]) \cup client[c].got \subseteq Pcalls
      BY <1>t, RangeLemma DEF QueueTypes, Channels, ClientTypes, ClientRecords
    <2>2. \A c \in Clients : \A k \in Range(queue[c]) \cup client[c].got : ran'[k] = 1
      BY <1>t, <1>6, <2>1 DEF Answered
    <2> QED BY <1>t, <1>1, <2>2 DEF Answered
  <1>14. ClientTypes' /\ QueueTypes' /\ Sending'
    BY <1>t, <1>1 DEF ClientTypes, QueueTypes, Sending
  <1>15. Interrupted = {} => \A c \in Clients : Results(c)'
    BY <1>1 DEF PoolInv, Results
  <1> QED BY <1>4, <1>8, <1>9, <1>11, <1>12, <1>13, <1>14, <1>15 DEF PoolInv, PoolTypes

\* A result goes into the reply channel of its client, once.
LEMMA ReplyPool ==
    ASSUME PoolUse, PoolInv, NEW p \in Procs, Pool!Reply(p)
    PROVE  PoolInv'
  <1>t. /\ ClientTypes /\ ProcTypes /\ QueueTypes /\ Waiting /\ Working /\ Apart /\ Answered
        /\ Counts /\ Sending
    BY DEF PoolInv, PoolTypes
  <1>1. proc[p].pc = "reply" /\ UNCHANGED <<closed, client, ran>>
    BY DEF Pool!Reply
  <1>2. PICK h \in Pcalls : h = proc[p].call
    BY <1>t, <1>1 DEF ProcTypes
  <1>3. PICK c \in Clients : c = h[1]
    BY PcallLemma
  <1>4. ran[h] = 1 /\ h \notin Range(queue[c]) /\ h \notin client[c].got
    BY <1>t, <1>1, <1>2, <1>3 DEF Working
  <1>5. PICK q \in {"recv", "sync"} : proc' = [proc EXCEPT ![p].pc = q]
    BY DEF Pool!Reply
  <1>6. /\ ProcTypes' /\ proc'[p].pc = q /\ \A o \in Procs \ {p} : proc'[o] = proc[o]
    BY <1>t, <1>2, <1>5, ProcMoves
  <1>7. ~Busy(p)'
    BY <1>6 DEF Busy
  <1>8. CASE queue' = queue
    <2>1. UNCHANGED <<queue, client, ran>>
      BY <1>1, <1>8
    <2> QED BY <1>6, <1>7, <2>1, IdlePool
  <1>9. CASE queue' = [queue EXCEPT ![c] = Append(@, h)]
    <2>1. queue[c] \in Seq(Pcalls) /\ IsInjective(queue[c]) /\ c \in Channels /\ c # None
      BY <1>t DEF QueueTypes, Channels, PoolUse
    <2>2. /\ Append(queue[c], h) \in Seq(Pcalls) /\ IsInjective(Append(queue[c], h))
          /\ Range(Append(queue[c], h)) = Range(queue[c]) \cup {h}
      BY <1>4, <2>1, AppendLemma, SMTT(30)
    <2>3. /\ queue'[c] \in Seq(Pcalls) /\ IsInjective(queue'[c])
          /\ Range(queue'[c]) = Range(queue[c]) \cup {h}
          /\ \A ch \in Channels \ {c} : queue'[ch] = queue[ch]
          /\ queue' = [ch \in Channels |-> queue'[ch]]
      BY <1>t, <1>9, <2>1, <2>2 DEF QueueTypes
    <2>4. queue'[None] = queue[None]
      BY <2>1, <2>3 DEF Channels
    <2>5. QueueTypes'
      BY <1>t, <2>3 DEF QueueTypes
    <2>6. \A o \in Procs : Busy(o)' => o # p /\ proc'[o] = proc[o] /\ Busy(o) /\ proc[o].call # h
      BY <1>t, <1>1, <1>2, <1>6, <1>7 DEF Busy, Apart
    <2>7. Working'
      <3> SUFFICES ASSUME NEW o \in Procs, Busy(o)'
                   PROVE  LET k == proc'[o].call IN
                          /\ proc'[o].pc = "run"
                             => ran[k] = 0 /\ SentBy(client, k) /\ k \notin Range(queue[None])
                          /\ proc'[o].pc = "reply"
                             => ran[k] = 1 /\ k \notin Range(queue'[k[1]]) \cup client[k[1]].got
        BY <1>1, <2>4 DEF Working, Sent, Busy
      <3>1. /\ proc'[o] = proc[o] /\ proc[o].call # h /\ proc[o].call[1] \in Clients
        BY <1>t, <2>6, PcallLemma DEF ProcTypes, Busy
      <3>2. \A d \in Clients : Range(queue'[d]) \subseteq Range(queue[d]) \cup {h}
        BY <2>3 DEF Channels
      <3>3. CASE proc[o].pc = "run"
        BY <1>t, <3>1, <3>3 DEF Working, Sent
      <3>4. CASE proc[o].pc = "reply"
        <4>1. PICK d \in Clients : d = proc[o].call[1]
          BY <3>1
        <4>2. ran[proc[o].call] = 1 /\ proc[o].call \notin Range(queue[d]) \cup client[d].got
          BY <1>t, <3>4, <4>1 DEF Working
        <4>3. proc[o].call \notin Range(queue'[d]) \cup client[d].got
          BY <3>1, <3>2, <4>2
        <4> QED BY <3>1, <3>4, <4>1, <4>2, <4>3
      <3> QED BY <3>1, <3>3, <3>4
    <2>8. Apart'
      BY <1>t, <2>6 DEF Apart
    <2>9. Waiting' /\ Counts'
      BY <1>t, <1>1, <2>4 DEF Waiting, Counts, Sent
    <2>10. Answered'
      <3>1. \A d \in Clients : \A k \in Range(queue'[d]) : k \in Range(queue[d]) \/ (k = h /\ d = c)
        BY <2>3 DEF Channels
      <3>2. ASSUME NEW d \in Clients
            PROVE  /\ \A k \in Range(queue'[d]) \cup client[d].got : k[1] = d /\ ran[k] = 1
                   /\ Range(queue'[d]) \cap client[d].got = {}
        <4>1. /\ \A k \in Range(queue[d]) \cup client[d].got : k[1] = d /\ ran[k] = 1
              /\ Range(queue[d]) \cap client[d].got = {}
          BY <1>t DEF Answered
        <4>2. \A k \in Range(queue'[d]) : k \in Range(queue[d]) \/ (k = h /\ d = c)
          BY <3>1
        <4>3. \A k \in Range(queue'[d]) : k[1] = d /\ ran[k] = 1 /\ k \notin client[d].got
          BY <1>3, <1>4, <4>1, <4>2
        <4> QED BY <4>1, <4>3
      <3> QED BY <1>1, <3>2 DEF Answered
    <2>11. ClientTypes' /\ Sending'
      BY <1>t, <1>1 DEF ClientTypes, Sending
    <2>12. Interrupted = {} => \A d \in Clients : Results(d)'
      BY <1>1 DEF PoolInv, Results
    <2> QED BY <1>6, <2>5, <2>7, <2>8, <2>9, <2>10, <2>11, <2>12 DEF PoolInv, PoolTypes
  <1> QED BY <1>2, <1>3, <1>8, <1>9 DEF Pool!Reply

\* For any clients, threads and calls: the function of a call is called once at most,
\* whoever is canceled or drops its reply channel; what iowait returns is the result of a
\* call of that client, which has run; and nobody who was not interrupted is done
\* without all its results.
THEOREM PoolRunsOnce ==
    ASSUME PoolUse
    PROVE  Pool!Spec => []Pool!RunOnce
  <1>1. Pool!Init => PoolInv
    BY InitPool
  <1>2. PoolInv /\ [Pool!Next]_(Pool!vars) => PoolInv'
    <2> SUFFICES ASSUME PoolInv, [Pool!Next]_(Pool!vars) PROVE PoolInv'
      OBVIOUS
    <2>1. CASE UNCHANGED Pool!vars
      <3>1. UNCHANGED <<queue, client, proc, ran>>
        BY <2>1 DEF Pool!vars
      <3> QED BY <3>1 DEF PoolInv, PoolTypes, ClientTypes, ProcTypes, QueueTypes, Waiting, Working,
                          Apart, Busy, Answered, Counts, Sending, Sent, Results
    <2>2. ASSUME NEW c \in Clients, Pool!ClientStep(c) \/ Pool!Throw(c) PROVE PoolInv'
      BY <2>2, SendPool, SyncPool, WaitPool, ThrowPool DEF Pool!ClientStep
    <2>3. ASSUME NEW p \in Procs, Pool!ProcStep(p) PROVE PoolInv'
      BY <2>3, RecvPool, RunPool, ReplyPool, RestPool DEF Pool!ProcStep
    <2>4. CASE Pool!Destroy
      BY <2>4, RestPool
    <2> QED BY <2>1, <2>2, <2>3, <2>4 DEF Pool!Next
  <1>3. PoolInv => Pool!RunOnce
    <2> SUFFICES ASSUME PoolInv PROVE Pool!RunOnce
      OBVIOUS
    <2>1. Counts /\ Answered
      BY DEF PoolInv
    <2>2. \A k \in Pcalls : ran[k] <= 1
      <3>1. 0 <= 1 /\ 1 <= 1
        BY SMTT(30)
      <3> QED BY <2>1, <3>1 DEF Counts
    <2>3. \A c \in Clients : \A k \in client[c].got : k[1] = c /\ ran[k] = 1
      BY <2>1 DEF Answered
    <2>4. Interrupted = {} => \A c \in Clients :
             client[c].pc = "done" => Pool!Cardinality(client[c].got) = Waits[c]
      BY CardinalityLemma DEF PoolInv, Results
    <2> QED BY <2>2, <2>3, <2>4 DEF Pool!RunOnce, Pcalls
  <1> QED BY <1>1, <1>2, <1>3, PTL DEF Pool!Spec
=============================================================================
