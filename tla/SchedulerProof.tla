--------------------------- MODULE SchedulerProof ---------------------------
(***************************************************************************)
(* The theorems about Scheduler, for any number of threads and tasks. The  *)
(* first part shows that every step keeps OneToken, the second that no     *)
(* scheduler sleeps on a ready task and no interrupted task sleeps on; the *)
(* last one that the library implements Park.                              *)
(***************************************************************************)
EXTENDS Scheduler, QueueTheorems

\* Zenon is the quickest here; the leaves that it does not find cite SMT.
USE ZenonT(60)

-----------------------------------------------------------------------------
(***************************************************************************)
(* No step of Scheduler leaves the types. The variables are taken in      *)
(* groups, so that the proof for an action opens only what it changes.     *)
(***************************************************************************)

\* The user tasks and the OS tasks are the tasks, and None is no task.
LEMMA TaskSets ==
    /\ UserTasks \subseteq Tasks /\ Threads \subseteq Tasks
    /\ UserTasks \cap Threads = {}
    /\ None \notin Tasks
  BY SchedulerAssumption DEF Tasks

-----------------------------------------------------------------------------
(* Types, one group of variables at a time. *)

ArgTypes   == /\ ret \in [Threads -> {"run", "remove", "cancel_all"}]
              /\ arg \in [Threads -> Tasks \cup {None}]
              /\ todo \in [Threads -> SUBSET Tasks]
QueueTypes == /\ ready \in [Tasks -> BOOLEAN]
              /\ readyq \in [Threads -> Seq(Tasks)] /\ dirtyq \in [Threads -> Seq(Tasks)]
ListTypes  == /\ current \in [Threads -> Tasks]
              /\ user_tasks \in [Threads -> SUBSET UserTasks]
              /\ gctasks \in [Threads -> SUBSET UserTasks]
StopTypes  == /\ sched_canceled \in [Threads -> BOOLEAN]
              /\ shutdown_initiated \in [Threads -> BOOLEAN]
              /\ looping \in [Threads -> BOOLEAN]
SchedTypes == /\ ListTypes /\ StopTypes
              /\ io \in [Threads -> BOOLEAN] /\ evfd \in [Threads -> BOOLEAN]
FlagTypes  == /\ canceled \in [Tasks -> BOOLEAN] /\ exception \in [Tasks -> BOOLEAN]
              /\ interrupted \in [Tasks -> BOOLEAN]
WaitTypes  == /\ deadlines \subseteq Tasks
              /\ alarms \subseteq Tasks \X {"timer", "deadline"}
              /\ joiner \in [Tasks -> Tasks \cup {None}]
TaskTypes  == /\ home \in [Tasks -> Threads \cup {None}] /\ state \in [Tasks -> States]
              /\ FlagTypes /\ WaitTypes
Types      == pc \in [Threads -> Places] /\ ArgTypes /\ QueueTypes /\ SchedTypes /\ TaskTypes

\* TypeOK is the conjunction of the groups.
LEMMA TypeGroups == (TypeOK <=> Types) /\ (TypeOK' <=> Types')
  BY DEF TypeOK, Types, ArgTypes, QueueTypes, ListTypes, StopTypes, SchedTypes, FlagTypes,
     WaitTypes, TaskTypes

\* A group that does not change keeps its types.
LEMMA TypeFrames ==
    ASSUME Types
    PROVE  /\ UNCHANGED argVars => ArgTypes'
           /\ UNCHANGED queueVars => QueueTypes'
           /\ UNCHANGED listVars => ListTypes'
           /\ UNCHANGED stopVars => StopTypes'
           /\ UNCHANGED schedVars => SchedTypes'
           /\ UNCHANGED flagVars => FlagTypes'
           /\ UNCHANGED waitVars => WaitTypes'
           /\ UNCHANGED taskVars => TaskTypes'
  <1>1. UNCHANGED argVars => ArgTypes'
    BY DEF Types, ArgTypes, argVars
  <1>2. UNCHANGED queueVars => QueueTypes'
    BY DEF Types, QueueTypes, queueVars
  <1>3. UNCHANGED listVars => ListTypes'
    BY DEF Types, SchedTypes, ListTypes, listVars
  <1>4. UNCHANGED stopVars => StopTypes'
    BY DEF Types, SchedTypes, StopTypes, stopVars
  <1>5. UNCHANGED schedVars => SchedTypes'
    BY <1>3, <1>4 DEF Types, SchedTypes, schedVars
  <1>6. UNCHANGED flagVars => FlagTypes'
    BY DEF Types, TaskTypes, FlagTypes, flagVars
  <1>7. UNCHANGED waitVars => WaitTypes'
    BY DEF Types, TaskTypes, WaitTypes, waitVars
  <1>8. UNCHANGED taskVars => TaskTypes'
    BY <1>6, <1>7 DEF Types, TaskTypes, taskVars
  <1> QED BY <1>1, <1>2, <1>3, <1>4, <1>5, <1>6, <1>7, <1>8

\* The thread goes to a place.
LEMMA GotoType ==
    ASSUME Types, NEW th, NEW place \in Places, Goto(th, place)
    PROVE  pc' \in [Threads -> Places]
  BY DEF Types, Goto

\* A task is made ready by its own thread.
LEMMA EnqueueType ==
    ASSUME Types, NEW th \in Threads, NEW t \in Tasks, EnqueueBack(th, t)
    PROVE  ready' \in [Tasks -> BOOLEAN] /\ readyq' \in [Threads -> Seq(Tasks)]
  <1>1. Append(readyq[th], t) \in Seq(Tasks)
    BY AppendLemma DEF Types, QueueTypes
  <1> QED BY <1>1 DEF Types, QueueTypes, EnqueueBack

\* A task moves from _dirtyq to _readyq.
LEMMA PopDirtyType ==
    ASSUME Types, NEW th \in Threads, PopDirty(th)
    PROVE  QueueTypes'
  <1>1. Head(dirtyq[th]) \in Tasks /\ Tail(dirtyq[th]) \in Seq(Tasks)
    BY TailLemma DEF Types, QueueTypes, PopDirty
  <1>2. PushFront(readyq[th], Head(dirtyq[th])) \in Seq(Tasks)
    BY <1>1, PushFrontLemma DEF Types, QueueTypes
  <1> QED BY <1>1, <1>2 DEF Types, QueueTypes, PopDirty

\* A task takes its pending exception.
LEMMA TakeExceptionType ==
    ASSUME Types, NEW t \in Tasks, TakeException(t)
    PROVE  exception' \in [Tasks -> BOOLEAN] /\ interrupted' \in [Tasks -> BOOLEAN]
  <1>1. (exception[t] /\ canceled[t]) \in BOOLEAN /\ (interrupted[t] \/ canceled[t]) \in BOOLEAN
    OBVIOUS
  <1> QED BY <1>1 DEF Types, TaskTypes, FlagTypes, TakeException

\* A task blocks.
LEMMA SuspendType ==
    ASSUME Types, NEW th \in Threads, NEW how \in Suspended, Suspend(th, how)
    PROVE  pc' \in [Threads -> Places] /\ state' \in [Tasks -> States]
  <1>1. how \in States /\ "schedule" \in Places
    BY DEF States, Places, InSchedule
  <1> QED BY <1>1 DEF Types, TaskTypes, Suspend, Goto

\* A task blocks or throws.
LEMMA CheckedSuspendType ==
    ASSUME Types, NEW th \in Threads, NEW how \in Suspended, CheckedSuspend(th, how)
    PROVE  /\ pc' \in [Threads -> Places] /\ state' \in [Tasks -> States]
           /\ exception' \in [Tasks -> BOOLEAN] /\ interrupted' \in [Tasks -> BOOLEAN]
  <1>1. current[th] \in Tasks /\ TakeException(current[th])
    BY DEF Types, SchedTypes, ListTypes, CheckedSuspend
  <1>2. UNCHANGED <<pc, state>> \/ Suspend(th, how)
    BY DEF CheckedSuspend
  <1> QED BY <1>1, <1>2, SuspendType, TakeExceptionType DEF Types, TaskTypes

\* A task is removed.
LEMMA DiscardType ==
    ASSUME Types, NEW th \in Threads, NEW t \in UserTasks, Discard(th, t)
    PROVE  /\ gctasks' \in [Threads -> SUBSET UserTasks]
           /\ user_tasks' \in [Threads -> SUBSET UserTasks]
           /\ state' \in [Tasks -> States] /\ pc' \in [Threads -> Places]
  <1>1. "gone" \in States /\ "schedule" \in Places
    BY DEF States, Ended, Places, InSchedule
  <1> QED BY <1>1, GotoType DEF Types, SchedTypes, ListTypes, TaskTypes, Discard

\* The caller of ready goes on to it.
LEMMA CallReadyType ==
    ASSUME Types, NEW th, NEW t \in Tasks, NEW back \in {"run", "remove"},
           CallReady(th, t, back), UNCHANGED todo
    PROVE  ArgTypes' /\ pc' \in [Threads -> Places]
  <1>1. "ready" \in Places
    BY DEF Places
  <1> QED BY <1>1, GotoType DEF Types, ArgTypes, CallReady

\* No step leaves the types.
LEMMA TypeStep ==
    ASSUME TypeOK, Inv, NEW th \in Threads,
           TaskStep(th) \/ LibraryStep(th) \/ OutsideStep(th)
    PROVE  TypeOK'
  <1> SUFFICES Types'
    BY TypeGroups
  <1>t. Types /\ current[th] \in Tasks
    BY TypeGroups DEF TypeOK
  <1>f. /\ UNCHANGED argVars => ArgTypes'
        /\ UNCHANGED queueVars => QueueTypes'
        /\ UNCHANGED listVars => ListTypes'
        /\ UNCHANGED stopVars => StopTypes'
        /\ UNCHANGED schedVars => SchedTypes'
        /\ UNCHANGED flagVars => FlagTypes'
        /\ UNCHANGED waitVars => WaitTypes'
        /\ UNCHANGED taskVars => TaskTypes'
    BY <1>t, TypeFrames
  <1>s. {"yield", "swap", "safe_swap", "sleep", "poll", "join", "wait_for_all"} \subseteq Suspended
    BY DEF Suspended, Cancelable
  <1>1. CASE Shutdown(th)
    BY <1>1, <1>t, <1>f, GotoType, TaskSets DEF Shutdown, Types, ArgTypes, ListedThreads, Places, InSchedule
  <1>2. CASE CancelAllDone(th)
    BY <1>2, <1>t, <1>f, GotoType DEF CancelAllDone, Types, Places, InSchedule
  <1>3. CASE ShutdownDone(th)
    BY <1>3, <1>t, <1>f, GotoType DEF ShutdownDone, Types, Places, InSchedule
  <1>4. CASE NoAlarmDue(th)
    BY <1>4, <1>t, <1>f, GotoType DEF NoAlarmDue, Types, Places, InSchedule
  <1>5. CASE WaitBlock(th)
    BY <1>5, <1>t, <1>f, GotoType DEF WaitBlock, Types, Places, InSchedule
  <1>6. CASE CvTimeout(th)
    BY <1>6, <1>t, <1>f, GotoType DEF CvTimeout, Types, Places, InSchedule
  <1>7. CASE CvSpurious(th)
    BY <1>7, <1>t, <1>f, GotoType DEF CvSpurious, Types, Places, InSchedule
  <1>8. CASE EventsDone(th)
    BY <1>8, <1>t, <1>f, GotoType DEF EventsDone, Types, Places, InSchedule
  <1>9. CASE Woken(th)
    BY <1>9, <1>t, <1>f, GotoType DEF Woken, Types, Places, InSchedule
  <1>10. CASE Leave(th)
    BY <1>10, <1>t, <1>f, GotoType DEF Leave, Types, Places, InSchedule
  <1>11. CASE Yield(th)
    <2>1. /\ ready' \in [Tasks -> BOOLEAN] /\ readyq' \in [Threads -> Seq(Tasks)]
      BY <1>11, <1>t, <1>f, EnqueueType DEF Yield
    <2>2. /\ pc' \in [Threads -> Places] /\ state' \in [Tasks -> States]
          /\ exception' \in [Tasks -> BOOLEAN] /\ interrupted' \in [Tasks -> BOOLEAN]
      BY <1>11, <1>t, <1>f, <1>s, CheckedSuspendType DEF Yield
    <2> QED BY <1>11, <1>t, <1>f, <2>1, <2>2 DEF Yield, Types, QueueTypes, TaskTypes, FlagTypes
  <1>12. CASE Swap(th)
    <2>1. /\ pc' \in [Threads -> Places] /\ state' \in [Tasks -> States]
          /\ exception' \in [Tasks -> BOOLEAN] /\ interrupted' \in [Tasks -> BOOLEAN]
      BY <1>12, <1>t, <1>f, <1>s, CheckedSuspendType DEF Swap
    <2> QED BY <1>12, <1>t, <1>f, <2>1 DEF Swap, Types, TaskTypes, FlagTypes
  <1>13. CASE SleepUntil(th)
    <2>1. /\ pc' \in [Threads -> Places] /\ state' \in [Tasks -> States]
          /\ exception' \in [Tasks -> BOOLEAN] /\ interrupted' \in [Tasks -> BOOLEAN]
      BY <1>13, <1>t, <1>f, <1>s, CheckedSuspendType DEF SleepUntil
    <2>2. alarms' \subseteq Tasks \X {"timer", "deadline"}
      BY <1>13, <1>t, <1>f, SMTT(30) DEF SleepUntil, Timer, Types, TaskTypes, WaitTypes
    <2> QED BY <1>13, <1>t, <1>f, <2>1, <2>2 DEF SleepUntil, Types, TaskTypes, FlagTypes, WaitTypes
  <1>14. CASE Poll(th)
    <2>1. /\ pc' \in [Threads -> Places] /\ state' \in [Tasks -> States]
          /\ exception' \in [Tasks -> BOOLEAN] /\ interrupted' \in [Tasks -> BOOLEAN]
      BY <1>14, <1>t, <1>f, <1>s, CheckedSuspendType DEF Poll
    <2>2. alarms' \subseteq Tasks \X {"timer", "deadline"}
      BY <1>14, <1>t, <1>f, SMTT(30) DEF Poll, Timer, Types, TaskTypes, WaitTypes
    <2> QED BY <1>14, <1>t, <1>f, <2>1, <2>2 DEF Poll, Types, TaskTypes, FlagTypes, WaitTypes, SchedTypes
  <1>15. CASE SafeSwap(th)
    BY <1>15, <1>t, <1>f, <1>s, SuspendType DEF SafeSwap, Types, TaskTypes
  <1>16. ASSUME NEW t \in UserTasks, Join(th, t) PROVE Types'
    <2>1. pc' \in [Threads -> Places] /\ state' \in [Tasks -> States]
      BY <1>16, <1>t, <1>f, <1>s, SuspendType DEF Join
    <2> QED BY <1>16, <1>t, <1>f, <2>1 DEF Join, Types, TaskTypes, WaitTypes
  <1>17. CASE SetDeadline(th)
    BY <1>17, <1>t, <1>f, SMTT(30) DEF SetDeadline, Deadline, Types, TaskTypes, WaitTypes
  <1>18. CASE EndDeadline(th)
    BY <1>18, <1>t, <1>f DEF EndDeadline, DropDeadline, Types, TaskTypes, WaitTypes
  <1>19. CASE Finish(th)
    <2>1. joiner[current[th]] \in Tasks \cup {None} /\ "finished" \in States /\ "remove" \in Places
      BY <1>t DEF Types, TaskTypes, WaitTypes, States, Ended, Places
    <2>2. ArgTypes' /\ pc' \in [Threads -> Places]
      <3>1. CASE joiner[current[th]] = None
        BY <1>19, <1>t, <1>f, <2>1, <3>1, GotoType DEF Finish, argVars
      <3>2. CASE joiner[current[th]] # None
        BY <1>19, <1>t, <1>f, <2>1, <3>2, CallReadyType DEF Finish
      <3> QED BY <3>1, <3>2
    <2> QED BY <1>19, <1>t, <1>f, <2>1, <2>2 DEF Finish, DropDeadline, Types, TaskTypes, WaitTypes
  <1>20. CASE WaitForAll(th)
    BY <1>20, <1>t, <1>f, GotoType, TaskSets
       DEF WaitForAll, DropDeadline, Types, SchedTypes, StopTypes, TaskTypes, WaitTypes, Places
  <1>21. CASE CancelScheduler(th)
    <2>1. PICK other \in todo[th] :
             /\ sched_canceled' = [sched_canceled EXCEPT ![other] = TRUE]
             /\ todo' = [todo EXCEPT ![th] = @ \ {other}]
             /\ arg' = [arg EXCEPT ![th] = other]
      BY <1>21 DEF CancelScheduler
    <2>2. ArgTypes' /\ StopTypes'
      BY <1>21, <1>t, <1>f, <2>1 DEF CancelScheduler, Types, ArgTypes, SchedTypes, StopTypes
    <2> QED BY <1>21, <1>t, <1>f, <2>2, GotoType DEF CancelScheduler, Types, SchedTypes, Places
  <1>22. CASE Ready(th)
    <2>1. arg[th] \in Tasks
      BY <1>22 DEF Inv, ThreadOK, Ready
    <2>2. Append(readyq[th], arg[th]) \in Seq(Tasks)
      BY <1>t, <2>1, AppendLemma DEF Types, QueueTypes
    <2>3. readyq' = [readyq EXCEPT ![th] = Append(@, arg[th])] \/ UNCHANGED readyq
      BY <1>22 DEF Ready
    <2>4. Goto(th, "push") \/ Goto(th, ret[th])
      BY <1>22 DEF Ready
    <2>5. pc' \in [Threads -> Places]
      BY <1>t, <2>4, GotoType DEF Types, ArgTypes, Places
    <2>6. readyq' \in [Threads -> Seq(Tasks)]
      BY <1>t, <2>2, <2>3 DEF Types, QueueTypes
    <2>7. ready' \in [Tasks -> BOOLEAN]
      BY <1>22, <1>t, <1>f DEF Ready, Types, QueueTypes
    <2> QED BY <1>22, <1>t, <1>f, <2>5, <2>6, <2>7 DEF Ready, Types, QueueTypes
  <1>23. CASE PushDirty(th)
    <2>1. arg[th] \in Tasks
      BY <1>23 DEF Inv, ThreadOK, PushDirty
    <2>2. \A y \in Threads : Append(dirtyq[y], arg[th]) \in Seq(Tasks)
      BY <1>t, <2>1, AppendLemma DEF Types, QueueTypes
    <2>3. home[arg[th]] \in Tasks \cup {None}
      BY <1>t, <2>1, TaskSets DEF Types, TaskTypes
    <2>4. ArgTypes' /\ QueueTypes'
      BY <1>23, <1>t, <1>f, <2>2, <2>3 DEF PushDirty, Types, ArgTypes, QueueTypes
    <2> QED BY <1>23, <1>t, <1>f, <2>4, GotoType DEF PushDirty, Types, Places
  <1>24. CASE Wakeup(th)
    <2>1. ret[th] \in Places /\ "woken" \in Places
      BY <1>t DEF Types, ArgTypes, Places, InSchedule
    <2>2. pc' \in [Threads -> Places] /\ evfd' \in [Threads -> BOOLEAN]
      <3>1. CASE io[arg[th]]
        BY <1>24, <1>t, <1>f, <2>1, <3>1, GotoType DEF Wakeup, Types, SchedTypes
      <3>2. CASE ~io[arg[th]]
        <4> DEFINE p1 == [pc EXCEPT ![th] = ret[th]]
        <4>1. p1 \in [Threads -> Places]
          BY <1>t, <2>1 DEF Types
        <4>2. /\ pc' = [p1 EXCEPT ![arg[th]] = IF @ = "cvwait" THEN "woken" ELSE @]
              /\ UNCHANGED evfd
          BY <1>24, <3>2, SMTT(30) DEF Wakeup
        <4> HIDE DEF p1
        <4> QED BY <1>t, <2>1, <4>1, <4>2 DEF Types, SchedTypes
      <3> QED BY <3>1, <3>2
    <2> QED BY <1>24, <1>t, <1>f, <2>2 DEF Wakeup, Types, SchedTypes
  <1>25. CASE Remove(th)
    <2>1. current[th] \in UserTasks /\ "spin" \in Places
      BY <1>25 DEF Inv, ThreadOK, Remove, Ending, Places
    <2>2. /\ gctasks' \in [Threads -> SUBSET UserTasks]
          /\ user_tasks' \in [Threads -> SUBSET UserTasks]
          /\ state' \in [Tasks -> States] /\ pc' \in [Threads -> Places]
      <3>1. CASE ready[current[th]]
        BY <1>25, <1>t, <1>f, <2>1, <3>1, GotoType DEF Remove, Types, SchedTypes, ListTypes, TaskTypes
      <3>2. CASE ~ready[current[th]]
        BY <1>25, <1>t, <1>f, <2>1, <3>2, DiscardType DEF Remove
      <3> QED BY <3>1, <3>2
    <2> QED BY <1>25, <1>t, <1>f, <2>2 DEF Remove, Types, QueueTypes, SchedTypes, ListTypes, TaskTypes
  <1>26. CASE RemoveErase(th)
    <2>1. current[th] \in UserTasks
      BY <1>26 DEF Inv, ThreadOK, RemoveErase, Ending
    <2>2. Without(readyq[th], current[th]) \in Seq(Tasks)
      BY <1>26, <1>t, WithoutLemma DEF Types, QueueTypes, RemoveErase
    <2>3. /\ gctasks' \in [Threads -> SUBSET UserTasks]
          /\ user_tasks' \in [Threads -> SUBSET UserTasks]
          /\ state' \in [Tasks -> States] /\ pc' \in [Threads -> Places]
      BY <1>26, <1>t, <1>f, <2>1, DiscardType DEF RemoveErase
    <2> QED BY <1>26, <1>t, <1>f, <2>2, <2>3
               DEF RemoveErase, Types, QueueTypes, SchedTypes, ListTypes, TaskTypes
  <1>27. CASE RemoveSpin(th)
    BY <1>27, <1>t, <1>f, PopDirtyType DEF RemoveSpin, Types
  <1>28. CASE Schedule(th)
    <2>1. ready' \in [Tasks -> BOOLEAN] /\ readyq' \in [Threads -> Seq(Tasks)]
      BY <1>28, <1>t, <1>f, EnqueueType, TaskSets DEF Schedule, Types, QueueTypes
    <2> QED BY <1>28, <1>t, <1>f, <2>1, GotoType DEF Schedule, Types, QueueTypes, Places, InSchedule
  <1>29. CASE CheckCanceled(th)
    <2>1. user_tasks[th] \cup {th} \in SUBSET Tasks /\ {"shutdown", "dirty"} \subseteq Places
      BY <1>t, TaskSets DEF Types, SchedTypes, ListTypes, Places, InSchedule
    <2>2. CASE sched_canceled[th] /\ ~shutdown_initiated[th]
      BY <1>29, <1>t, <1>f, <2>1, <2>2, GotoType DEF CheckCanceled, Types, ArgTypes, SchedTypes, StopTypes
    <2>3. CASE ~(sched_canceled[th] /\ ~shutdown_initiated[th])
      BY <1>29, <1>t, <1>f, <2>1, <2>3, GotoType DEF CheckCanceled, Types, ArgTypes, SchedTypes, StopTypes
    <2> QED BY <2>2, <2>3
  <1>30. CASE ShutdownCancel(th)
    <2>1. PICK t \in todo[th] :
             /\ todo' = [todo EXCEPT ![th] = @ \ {t}]
             /\ canceled' = [canceled EXCEPT ![t] = TRUE]
             /\ (UNCHANGED <<ready, readyq>> \/ EnqueueBack(th, t))
      BY <1>30 DEF ShutdownCancel
    <2>2. t \in Tasks
      BY <1>t, <2>1 DEF Types, ArgTypes
    <2>3. ready' \in [Tasks -> BOOLEAN] /\ readyq' \in [Threads -> Seq(Tasks)]
      BY <1>t, <2>1, <2>2, EnqueueType DEF Types, QueueTypes
    <2> QED BY <1>30, <1>t, <1>f, <2>1, <2>3
               DEF ShutdownCancel, Types, ArgTypes, QueueTypes, TaskTypes, FlagTypes
  <1>31. CASE CheckDirtyQueue(th)
    <2>1. CASE PopDirty(th) /\ UNCHANGED pc
      BY <1>31, <1>t, <1>f, <2>1, PopDirtyType DEF CheckDirtyQueue, Types
    <2>2. CASE Goto(th, "alarms") /\ UNCHANGED queueVars
      BY <1>31, <1>t, <1>f, <2>2, GotoType DEF CheckDirtyQueue, Types, Places, InSchedule
    <2> QED BY <1>31, <2>1, <2>2 DEF CheckDirtyQueue
  <1>32. CASE WaitCheck(th)
    <2>1. CASE PopDirty(th) /\ UNCHANGED pc
      BY <1>32, <1>t, <1>f, <2>1, PopDirtyType DEF WaitCheck, Types
    <2>2. CASE Goto(th, IF readyq[th] = <<>> THEN "block" ELSE "pop") /\ UNCHANGED queueVars
      BY <1>32, <1>t, <1>f, <2>2, GotoType DEF WaitCheck, Types, Places, InSchedule
    <2> QED BY <1>32, <2>1, <2>2 DEF WaitCheck
  <1>33. CASE FireAlarm(th)
    <2>1. PICK a \in AlarmsOf(th) :
             /\ alarms' = alarms \ {a}
             /\ exception' = IF a = Deadline(a[1])
                                THEN [exception EXCEPT ![a[1]] = TRUE] ELSE exception
             /\ EnqueueBack(th, a[1])
      BY <1>33 DEF FireAlarm
    <2>2. a[1] \in Tasks
      BY <1>t DEF AlarmsOf, Types, TaskTypes, WaitTypes
    <2>3. ready' \in [Tasks -> BOOLEAN] /\ readyq' \in [Threads -> Seq(Tasks)]
      BY <1>t, <2>1, <2>2, EnqueueType
    <2> QED BY <1>33, <1>t, <1>f, <2>1, <2>3
               DEF FireAlarm, Types, QueueTypes, TaskTypes, FlagTypes, WaitTypes
  <1>34. CASE IoWake(th)
    BY <1>34, <1>t, <1>f, GotoType DEF IoWake, Types, SchedTypes, Places, InSchedule
  <1>35. CASE IoEvent(th)
    <2>1. ready' \in [Tasks -> BOOLEAN] /\ readyq' \in [Threads -> Seq(Tasks)]
      BY <1>35, <1>t, <1>f, EnqueueType DEF IoEvent
    <2> QED BY <1>35, <1>t, <1>f, <2>1, GotoType DEF IoEvent, Types, QueueTypes, Places, InSchedule
  <1>36. CASE SwitchTo(th)
    <2> DEFINE t == Head(readyq[th])
    <2>1. t \in Tasks /\ Tail(readyq[th]) \in Seq(Tasks)
      BY <1>36, <1>t, TailLemma DEF Types, QueueTypes, SwitchTo
    <2>2. exception' \in [Tasks -> BOOLEAN] /\ interrupted' \in [Tasks -> BOOLEAN]
      BY <1>36, <1>t, <2>1, TakeExceptionType DEF SwitchTo, Types, TaskTypes, FlagTypes
    <2>3. pc' \in [Threads -> Places] /\ state' \in [Tasks -> States]
      BY <1>36, <1>t, <2>1 DEF SwitchTo, Goto, Types, TaskTypes, Places, States
    <2>4. QueueTypes' /\ ListTypes' /\ alarms' \subseteq Tasks \X {"timer", "deadline"}
      BY <1>36, <1>t, <2>1
         DEF SwitchTo, Types, QueueTypes, SchedTypes, ListTypes, TaskTypes, WaitTypes
    <2> QED BY <1>36, <1>t, <1>f, <2>2, <2>3, <2>4
               DEF SwitchTo, Types, SchedTypes, TaskTypes, FlagTypes, WaitTypes
  <1>37. CASE WaitForAllLoop(th)
    <2>1. CASE user_tasks[th] # {}
      <3>1. Suspend(th, "wait_for_all") /\ UNCHANGED looping
        BY <1>37, <2>1 DEF WaitForAllLoop
      <3>2. pc' \in [Threads -> Places] /\ state' \in [Tasks -> States]
        BY <1>s, <1>t, <3>1, SuspendType
      <3> QED BY <1>37, <1>t, <1>f, <3>1, <3>2 DEF WaitForAllLoop, Types, SchedTypes, StopTypes, TaskTypes
    <2>2. CASE user_tasks[th] = {}
      <3>1. looping' = [looping EXCEPT ![th] = FALSE] /\ UNCHANGED state /\ Goto(th, "leave")
        BY <1>37, <2>2 DEF WaitForAllLoop
      <3> QED BY <1>37, <1>t, <1>f, <3>1, GotoType
                 DEF WaitForAllLoop, Types, SchedTypes, StopTypes, TaskTypes, Places
    <2> QED BY <2>1, <2>2
  <1>38. ASSUME NEW t \in UserTasks, Spawn(th, t) PROVE Types'
    <2>1. PushFront(readyq[th], t) \in Seq(Tasks)
      BY <1>t, PushFrontLemma, TaskSets DEF Types, QueueTypes
    <2>2. QueueTypes' /\ ListTypes'
      BY <1>38, <1>t, <2>1 DEF Spawn, Types, QueueTypes, SchedTypes, ListTypes
    <2>3. home' \in [Tasks -> Threads \cup {None}] /\ state' \in [Tasks -> States]
      BY <1>38, <1>t DEF Spawn, Types, TaskTypes, States, Suspended
    <2> QED BY <1>38, <1>t, <1>f, <2>2, <2>3 DEF Spawn, Types, SchedTypes, TaskTypes
  <1>39. ASSUME NEW t \in UserTasks, Cancel(th, t) PROVE Types'
    <2>1. ArgTypes' /\ pc' \in [Threads -> Places]
      BY <1>39, <1>t, CallReadyType, TaskSets DEF Cancel
    <2> QED BY <1>39, <1>t, <1>f, <2>1 DEF Cancel, Types, TaskTypes, FlagTypes
  <1>40. ASSUME NEW t \in Tasks, Wake(th, t) PROVE Types'
    <2>1. ArgTypes' /\ pc' \in [Threads -> Places]
      BY <1>40, <1>t, CallReadyType DEF Wake
    <2> QED BY <1>40, <1>t, <1>f, <2>1 DEF Wake, Types
  <1> QED BY <1>1, <1>2, <1>3, <1>4, <1>5, <1>6, <1>7, <1>8, <1>9, <1>10, <1>11, <1>12,
      <1>13, <1>14, <1>15, <1>16, <1>17, <1>18, <1>19, <1>20, <1>21, <1>22, <1>23,
      <1>24, <1>25, <1>26, <1>27, <1>28, <1>29, <1>30, <1>31, <1>32, <1>33, <1>34,
      <1>35, <1>36, <1>37, <1>38, <1>39, <1>40
             DEF TaskStep, LibraryStep, OutsideStep

-----------------------------------------------------------------------------
(***************************************************************************)
(* The steps of Scheduler, sorted by what they do to the places of the     *)
(* threads and to the states of the tasks. The proofs that the invariant   *)
(* is kept go by kind of step instead of by action.                        *)
(***************************************************************************)

-----------------------------------------------------------------------------
(* The kinds of step. Most actions do one of five things to the places of the *)
(* threads and to the states of the tasks; the others are kinds of their own. *)

\* Thread th moves to place p.
Moves(th, p) ==
    /\ pc'[th] = p
    /\ \A y \in Threads \ {th} : pc'[y] = pc[y]

\* A thread makes one of its tasks ready, takes one from its _dirtyq, or leaves
\* its queues alone.
Enqueues(th) ==
    \E t \in Tasks : /\ home[t] = th /\ state[t] \notin {"unborn", "gone"}
                     /\ EnqueueBack(th, t) /\ UNCHANGED dirtyq
Requeues(th) ==
    \/ UNCHANGED queueVars
    \/ PopDirty(th)
    \/ Enqueues(th)

\* A thread may create its _io.
Polls(th) == \/ UNCHANGED io
             \/ io' = [io EXCEPT ![th] = TRUE]

\* A thread goes on inside schedule(). It decides to block when its queues are
\* empty, and blocks on the eventfd or on the condition variable, as _io says.
RoamsTo(th, p) ==
    /\ Moves(th, p)
    /\ p = "cvwait" => ~io[th]
    /\ p = "iowait" => io[th]
    /\ p = "block" => readyq[th] = <<>> /\ dirtyq[th] = <<>> /\ UNCHANGED queueVars
    /\ p \in {"cvwait", "iowait"} => pc[th] = "block" /\ UNCHANGED <<queueVars, evfd>>
    /\ p = "shutdown" => todo'[th] \subseteq user_tasks[th] \cup {th}

Roams(th) ==
    /\ pc[th] \in InSchedule
    /\ \E p \in InSchedule : RoamsTo(th, p)
    /\ \A y \in Threads \ {th} : todo'[y] = todo[y] /\ evfd'[y] = evfd[y]
    /\ Requeues(th)
    /\ UNCHANGED <<arg, ret, listVars, home, state, io>>

\* A task goes on in the same place.
Stays(th) ==
    /\ pc[th] \notin InSchedule /\ pc[th] \notin {"leave", "exited"}
    /\ Requeues(th)
    /\ Polls(th)
    /\ UNCHANGED <<pc, argVars, listVars, evfd, home, state>>

\* A task blocks; in a call with a cancellation_point, it was not interrupted. It
\* makes no task ready but itself.
Blocks(th) ==
    /\ pc[th] \in {"run", "loop"}
    /\ Moves(th, "schedule")
    /\ \E how \in Suspended \ {"new"} :
          /\ state' = [state EXCEPT ![current[th]] = how]
          /\ how \in Cancelable => ~(canceled'[current[th]] \/ exception'[current[th]])
    /\ Requeues(th)
    /\ \A y \in Tasks \ {current[th]} : ready'[y] = ready[y]
    /\ Polls(th)
    /\ UNCHANGED <<argVars, listVars, evfd, home>>

\* A task comes to the next place of wait_for_all or of shutdown. wait_for_all
\* returns when no task is left.
GoesOn(th) ==
    /\ pc[th] \in {"run", "cancel_all", "loop", "leave"}
    /\ \E p \in {"run", "loop", "leave", "exited"} : Moves(th, p)
    /\ pc'[th] = "leave" => user_tasks[th] = {}
    /\ pc'[th] = "exited" => Leave(th)
    /\ UNCHANGED <<argVars, queueVars, listVars, home, state, io, evfd>>

\* A task calls ready for a task that was spawned.
CallsReady(th) ==
    /\ pc[th] = "run"
    /\ \E t \in Tasks : state[t] # "unborn" /\ CallReady(th, t, "run")
    /\ UNCHANGED <<todo, queueVars, listVars, home, state, io, evfd>>

OfKind(th) ==
    \/ Roams(th) \/ Stays(th) \/ Blocks(th) \/ GoesOn(th) \/ CallsReady(th)
    \/ (\E t \in UserTasks : Spawn(th, t)) \/ Shutdown(th) \/ CancelScheduler(th)
    \/ Finish(th) \/ Ready(th) \/ PushDirty(th) \/ Wakeup(th) \/ Remove(th)
    \/ RemoveErase(th) \/ SwitchTo(th)

\* No task gives its token back, and only tasks that were spawned get one.
Readies == \A t \in Tasks : \/ ready'[t] = ready[t]
                            \/ ready'[t] /\ state[t] # "unborn"

\* Only a switch takes a token.
LEMMA RequeuesReadies ==
    ASSUME TypeOK, NEW th, Requeues(th)
    PROVE  Readies
  <1>1. UNCHANGED queueVars => Readies
    BY DEF Readies, queueVars
  <1>2. PopDirty(th) => Readies
    BY DEF PopDirty, Readies
  <1>3. ASSUME Enqueues(th) PROVE Readies
    <2>1. ready \in [Tasks -> BOOLEAN]
      BY DEF TypeOK
    <2>2. PICK t \in Tasks : state[t] # "unborn" /\ ready' = [ready EXCEPT ![t] = TRUE]
      BY <1>3 DEF Enqueues, EnqueueBack
    <2> QED BY <2>1, <2>2 DEF Readies
  <1> QED BY <1>1, <1>2, <1>3 DEF Requeues

\* A step that leaves the queues and the eventfd alone and does not decide to
\* sleep roams.
LEMMA Strolls ==
    ASSUME NEW th \in Threads, pc[th] \in InSchedule, DOMAIN pc = Threads,
           NEW p \in InSchedule \ {"block", "cvwait", "iowait", "shutdown"}, Goto(th, p),
           UNCHANGED <<argVars, queueVars, schedVars, taskVars>>
    PROVE  Roams(th)
  <1>1. RoamsTo(th, p)
    BY DEF Goto, Moves, RoamsTo
  <1> QED BY <1>1 DEF Roams, Requeues, argVars, schedVars, taskVars

\* Every action inside schedule() but the switch roams.
LEMMA ScheduleRoams ==
    ASSUME TypeOK, Inv, NEW th \in Threads,
           \/ Schedule(th) \/ CheckCanceled(th) \/ ShutdownCancel(th) \/ ShutdownDone(th)
           \/ CheckDirtyQueue(th) \/ FireAlarm(th) \/ NoAlarmDue(th) \/ WaitCheck(th)
           \/ WaitBlock(th) \/ CvTimeout(th) \/ CvSpurious(th) \/ IoWake(th)
           \/ IoEvent(th) \/ EventsDone(th) \/ Woken(th)
    PROVE  Roams(th)
  <1>t. DOMAIN pc = Threads /\ DOMAIN todo = Threads /\ DOMAIN evfd = Threads
    BY DEF TypeOK
  <1>p. {"canceled", "dirty", "alarms", "check", "events", "woken", "pop"}
            \subseteq InSchedule \ {"block", "cvwait", "iowait", "shutdown"}
    BY DEF InSchedule
  <1>1. CASE ShutdownDone(th)
    BY <1>1, <1>p, <1>t, Strolls DEF ShutdownDone, InSchedule
  <1>2. CASE NoAlarmDue(th)
    BY <1>2, <1>p, <1>t, Strolls DEF NoAlarmDue
  <1>3. CASE CvTimeout(th) \/ CvSpurious(th)
    BY <1>3, <1>p, <1>t, Strolls DEF CvTimeout, CvSpurious, InSchedule
  <1>4. CASE EventsDone(th)
    BY <1>4, <1>p, <1>t, Strolls DEF EventsDone
  <1>5. CASE Woken(th)
    BY <1>5, <1>p, <1>t, Strolls DEF Woken
  <1>6. CASE WaitBlock(th)
    <2>1. pc[th] = "block" /\ pc[th] \in InSchedule
          /\ UNCHANGED <<argVars, queueVars, schedVars, taskVars>>
      BY <1>6 DEF WaitBlock, InSchedule
    <2>2. RoamsTo(th, IF io[th] THEN "iowait" ELSE "cvwait")
      BY <1>6, <1>t, <2>1 DEF WaitBlock, Goto, Moves, RoamsTo, schedVars
    <2>3. (IF io[th] THEN "iowait" ELSE "cvwait") \in InSchedule
      BY DEF InSchedule
    <2> QED BY <2>1, <2>2, <2>3 DEF Roams, Requeues, argVars, schedVars, taskVars
  <1>7. CASE CheckCanceled(th)
    <2>1. pc[th] \in InSchedule /\ "shutdown" \in InSchedule
      BY <1>7 DEF CheckCanceled, InSchedule
    <2>2. \/ RoamsTo(th, "dirty") /\ UNCHANGED todo
          \/ /\ RoamsTo(th, "shutdown")
             /\ \A y \in Threads \ {th} : todo'[y] = todo[y]
      BY <1>7, <1>t DEF CheckCanceled, Goto, Moves, RoamsTo
    <2> QED BY <1>7, <1>p, <2>1, <2>2 DEF CheckCanceled, Roams, Requeues, taskVars
  <1>8. CASE IoWake(th)
    <2>1. pc[th] \in InSchedule /\ RoamsTo(th, "events")
      BY <1>8, <1>t DEF IoWake, Goto, Moves, RoamsTo, InSchedule
    <2>2. \A y \in Threads \ {th} : evfd'[y] = evfd[y]
      BY <1>8, <1>t DEF IoWake
    <2> QED BY <1>8, <1>p, <2>1, <2>2 DEF IoWake, Roams, Requeues, argVars, taskVars
  <1>9. CASE CheckDirtyQueue(th)
    <2>1. CASE PopDirty(th) /\ UNCHANGED pc
      <3>1. RoamsTo(th, "dirty") /\ pc[th] \in InSchedule
        BY <1>9, <2>1 DEF CheckDirtyQueue, Moves, RoamsTo, InSchedule
      <3> QED BY <1>9, <1>p, <2>1, <3>1
                 DEF CheckDirtyQueue, Roams, Requeues, argVars, schedVars, taskVars
    <2>2. CASE Goto(th, "alarms") /\ UNCHANGED queueVars
      BY <1>9, <1>p, <1>t, <2>2, Strolls DEF CheckDirtyQueue
    <2> QED BY <1>9, <2>1, <2>2 DEF CheckDirtyQueue
  <1>10. CASE WaitCheck(th)
    <2>1. CASE PopDirty(th) /\ UNCHANGED pc
      <3>1. RoamsTo(th, "check") /\ pc[th] \in InSchedule
        BY <1>10, <2>1 DEF WaitCheck, Moves, RoamsTo, InSchedule
      <3> QED BY <1>10, <1>p, <2>1, <3>1
                 DEF WaitCheck, Roams, Requeues, argVars, schedVars, taskVars
    <2>2. CASE /\ dirtyq[th] = <<>> /\ Goto(th, IF readyq[th] = <<>> THEN "block" ELSE "pop")
               /\ UNCHANGED queueVars
      <3>1. CASE readyq[th] = <<>>
        <4>1. RoamsTo(th, "block") /\ pc[th] \in InSchedule /\ "block" \in InSchedule
          BY <1>10, <1>t, <2>2, <3>1 DEF WaitCheck, Goto, Moves, RoamsTo, InSchedule
        <4> QED BY <1>10, <2>2, <4>1
                   DEF WaitCheck, Roams, Requeues, argVars, schedVars, taskVars
      <3>2. CASE readyq[th] # <<>>
        BY <1>10, <1>p, <1>t, <2>2, <3>2, Strolls DEF WaitCheck
      <3> QED BY <3>1, <3>2
    <2> QED BY <1>10, <2>1, <2>2 DEF WaitCheck
  <1>11. CASE Schedule(th)
    <2>1. th \in Tasks /\ home[th] = th /\ state[th] \notin {"unborn", "gone"}
      <3>1. TaskOK(th) /\ th \in Tasks
        BY TaskSets DEF Inv
      <3> QED BY <3>1, TaskSets DEF TaskOK, Ended
    <2>2. Requeues(th)
      BY <1>11, <2>1 DEF Schedule, Requeues, Enqueues, queueVars
    <2>3. RoamsTo(th, "canceled") /\ pc[th] \in InSchedule
      BY <1>11, <1>t DEF Schedule, Goto, Moves, RoamsTo, InSchedule
    <2> QED BY <1>11, <1>p, <2>2, <2>3 DEF Schedule, Roams, argVars, schedVars, taskVars
  <1>12. CASE ShutdownCancel(th)
    <2>1. todo[th] \subseteq user_tasks[th] \cup {th} /\ pc[th] = "shutdown" /\ ListOK(th)
      BY <1>12 DEF ShutdownCancel, Inv, ListOK
    <2>2. PICK t \in todo[th] : /\ todo' = [todo EXCEPT ![th] = @ \ {t}]
                               /\ (UNCHANGED <<ready, readyq>> \/ EnqueueBack(th, t))
      BY <1>12 DEF ShutdownCancel
    <2>3. t \in Tasks /\ home[t] = th /\ state[t] \notin {"unborn", "gone"}
      <3>1. TaskOK(th) /\ user_tasks[th] \subseteq Tasks
        BY TaskSets DEF Inv, TypeOK
      <3> QED BY <2>1, <2>2, <3>1, TaskSets DEF ListOK, TaskOK, Ended
    <2>4. UNCHANGED <<pc, arg, ret, dirtyq, schedVars, home, state>>
      BY <1>12 DEF ShutdownCancel
    <2>5. Requeues(th)
      BY <2>2, <2>3, <2>4 DEF Requeues, Enqueues, queueVars
    <2>6. /\ todo'[th] \subseteq user_tasks[th] \cup {th}
          /\ \A y \in Threads \ {th} : todo'[y] = todo[y]
      BY <1>t, <2>1, <2>2
    <2>7. RoamsTo(th, "shutdown") /\ "shutdown" \in InSchedule
      BY <2>1, <2>4, <2>6 DEF Moves, RoamsTo, InSchedule
    <2> QED BY <2>1, <2>4, <2>5, <2>6, <2>7 DEF Roams, schedVars
  <1>13. CASE FireAlarm(th)
    <2>1. PICK a \in AlarmsOf(th) : EnqueueBack(th, a[1])
      BY <1>13 DEF FireAlarm
    <2>2. a[1] \in Tasks /\ home[a[1]] = th /\ (a = Timer(a[1]) \/ a = Deadline(a[1]))
      BY SMTT(30) DEF AlarmsOf, TypeOK, Timer, Deadline
    <2>3. state[a[1]] \notin {"unborn", "gone"}
      <3>1. WaitOK(a[1]) /\ a \in alarms
        BY <2>2 DEF Inv, AlarmsOf
      <3> QED BY <2>2, <3>1 DEF WaitOK, Ended
    <2>4. Requeues(th)
      BY <1>13, <2>1, <2>2, <2>3 DEF FireAlarm, Requeues, Enqueues
    <2>5. RoamsTo(th, "alarms") /\ pc[th] \in InSchedule
      BY <1>13 DEF FireAlarm, Moves, RoamsTo, InSchedule
    <2> QED BY <1>13, <1>p, <2>4, <2>5 DEF FireAlarm, Roams, argVars, schedVars
  <1>14. CASE IoEvent(th)
    <2>1. Requeues(th)
      BY <1>14 DEF IoEvent, Requeues, Enqueues
    <2>2. RoamsTo(th, "events") /\ pc[th] \in InSchedule
      BY <1>14, <1>t DEF IoEvent, Goto, Moves, RoamsTo, InSchedule
    <2> QED BY <1>14, <1>p, <2>1, <2>2 DEF IoEvent, Roams, argVars, schedVars, taskVars
  <1> QED BY <1>1, <1>2, <1>3, <1>4, <1>5, <1>6, <1>7, <1>8, <1>9, <1>10, <1>11, <1>12, <1>13,
             <1>14

\* The calls that suspend the current task, unless they throw.
LEMMA CallBlocks ==
    ASSUME TypeOK, Inv, NEW th \in Threads,
           \/ Yield(th) \/ Swap(th) \/ SafeSwap(th) \/ SleepUntil(th) \/ Poll(th)
           \/ \E t \in UserTasks : Join(th, t)
    PROVE  Blocks(th) \/ Stays(th)
  <1>t. /\ DOMAIN pc = Threads /\ current[th] \in Tasks /\ exception \in [Tasks -> BOOLEAN]
        /\ DOMAIN ready = Tasks
    BY DEF TypeOK
  <1>b. ASSUME NEW how \in Suspended \ {"new"}, Suspend(th, how), pc[th] = "run",
               how \in Cancelable => ~(canceled'[current[th]] \/ exception'[current[th]]), Requeues(th),
               \A y \in Tasks \ {current[th]} : ready'[y] = ready[y],
               Polls(th), UNCHANGED <<argVars, listVars, evfd, home>>
        PROVE  Blocks(th)
    <2>1. Moves(th, "schedule")
      BY <1>b, <1>t DEF Suspend, Goto, Moves
    <2>2. pc[th] \in {"run", "loop"}
      BY <1>b
    <2> QED BY <1>b, <2>1, <2>2 DEF Suspend, Blocks
  <1>c. ASSUME NEW how \in Suspended \ {"new"}, CheckedSuspend(th, how), pc[th] = "run",
               Requeues(th), \A y \in Tasks \ {current[th]} : ready'[y] = ready[y],
               Polls(th), UNCHANGED <<argVars, listVars, evfd, home, canceled>>
        PROVE  Blocks(th) \/ Stays(th)
    <2>1. CASE Throws(current[th])
      BY <1>c, <2>1 DEF CheckedSuspend, Stays, InSchedule
    <2>2. CASE ~Throws(current[th])
      <3>1. Suspend(th, how) /\ TakeException(current[th])
        BY <1>c, <2>2 DEF CheckedSuspend
      <3>2. ~(canceled'[current[th]] \/ exception'[current[th]])
        BY <1>c, <1>t, <2>2, <3>1 DEF Throws, TakeException
      <3> QED BY <1>b, <1>c, <3>1, <3>2
    <2> QED BY <2>1, <2>2
  <1>d. /\ {"yield", "swap", "sleep", "poll", "safe_swap", "join"} \subseteq Suspended \ {"new"}
        /\ "safe_swap" \notin Cancelable /\ "join" \notin Cancelable
    BY DEF Suspended, Cancelable
  <1>1. CASE Yield(th)
    <2>1. home[current[th]] = th /\ state[current[th]] \notin {"unborn", "gone"}
      <3>1. ThreadOK(th) /\ pc[th] = "run"
        BY <1>1 DEF Inv, Yield, MayCall
      <3> QED BY <3>1 DEF ThreadOK, Ending, InSchedule
    <2>2. Requeues(th)
      BY <1>1, <1>t, <2>1 DEF Yield, Requeues, Enqueues
    <2>3. \A y \in Tasks \ {current[th]} : ready'[y] = ready[y]
      BY <1>1, <1>t DEF Yield, EnqueueBack
    <2> QED BY <1>1, <1>c, <1>d, <2>2, <2>3 DEF Yield, MayCall, Polls, schedVars
  <1>2. CASE Swap(th)
    BY <1>2, <1>c, <1>d DEF Swap, MayCall, Polls, Requeues, schedVars, queueVars
  <1>3. CASE SafeSwap(th)
    BY <1>3, <1>b, <1>d DEF SafeSwap, MayCall, Polls, Requeues, schedVars, queueVars
  <1>4. CASE SleepUntil(th)
    BY <1>4, <1>c, <1>d DEF SleepUntil, MayCall, Polls, Requeues, schedVars, queueVars
  <1>5. CASE Poll(th)
    BY <1>5, <1>c, <1>d DEF Poll, MayCall, Polls, Requeues, queueVars
  <1>6. ASSUME NEW t \in UserTasks, Join(th, t) PROVE Blocks(th)
    BY <1>6, <1>b, <1>d DEF Join, MayCall, Polls, Requeues, schedVars, queueVars
  <1> QED BY <1>1, <1>2, <1>3, <1>4, <1>5, <1>6

\* Every step is of one of the kinds.
LEMMA KindStep ==
    ASSUME TypeOK, Inv, NEW th \in Threads,
           TaskStep(th) \/ LibraryStep(th) \/ OutsideStep(th)
    PROVE  OfKind(th)
  <1>t. DOMAIN pc = Threads
    BY DEF TypeOK
  <1>1. SetDeadline(th) \/ EndDeadline(th) => Stays(th)
    BY DEF SetDeadline, EndDeadline, MayCall, Stays, Requeues, Polls, InSchedule, schedVars
  <1>2. RemoveSpin(th) => Stays(th)
    BY DEF RemoveSpin, Stays, Requeues, Polls, InSchedule, schedVars, taskVars
  <1>3. WaitForAll(th) \/ CancelAllDone(th) \/ Leave(th) => GoesOn(th)
    BY <1>t DEF WaitForAll, CancelAllDone, Leave, MayCall, Goto, Moves, GoesOn, schedVars, taskVars
  <1>4. WaitForAllLoop(th) => Blocks(th) \/ GoesOn(th)
    <2> SUFFICES ASSUME WaitForAllLoop(th) PROVE Blocks(th) \/ GoesOn(th)
      OBVIOUS
    <2>1. /\ pc[th] = "loop" /\ Requeues(th) /\ Polls(th)
          /\ UNCHANGED <<argVars, queueVars, listVars, evfd, home, io>>
          /\ \A y \in Tasks \ {current[th]} : ready'[y] = ready[y]
      BY DEF WaitForAllLoop, Requeues, Polls, queueVars
    <2>2. CASE Suspend(th, "wait_for_all")
      <3>1. Moves(th, "schedule") /\ state' = [state EXCEPT ![current[th]] = "wait_for_all"]
        BY <1>t, <2>2 DEF Suspend, Goto, Moves
      <3>2. "wait_for_all" \in Suspended \ {"new"} /\ "wait_for_all" \notin Cancelable
        BY DEF Suspended, Cancelable
      <3> QED BY <2>1, <3>1, <3>2 DEF Blocks
    <2>3. CASE Goto(th, "leave") /\ UNCHANGED state /\ user_tasks[th] = {}
      BY <1>t, <2>1, <2>3 DEF Goto, Moves, GoesOn
    <2> QED BY <2>2, <2>3 DEF WaitForAllLoop
  <1>5. (\E t \in UserTasks : Cancel(th, t)) => CallsReady(th)
    BY TaskSets DEF Cancel, MayCall, CallsReady, schedVars
  <1>6. (\E t \in Tasks : Wake(th, t)) => CallsReady(th)
    BY DEF Wake, MayCall, CallsReady, schedVars, taskVars
  <1> QED BY <1>1, <1>2, <1>3, <1>4, <1>5, <1>6, CallBlocks, ScheduleRoams
             DEF OfKind, TaskStep, LibraryStep, OutsideStep

\* What wakeup() does to the places: the caller returns, and a thread that waits
\* on the condition variable is woken.
WakeupShape(th) ==
    /\ arg[th] \in Threads
    /\ pc'[th] = ret[th]
    /\ \A x \in Threads \ {th} :
          \/ pc'[x] = pc[x]
          \/ x = arg[th] /\ ~io[x] /\ pc[x] = "cvwait" /\ pc'[x] = "woken"

\* The action Wakeup has this shape.
LEMMA WakeupPlaces ==
    ASSUME Inv, NEW th \in Threads, Wakeup(th)
    PROVE  WakeupShape(th)
  <1>1. arg[th] \in Threads /\ pc \in [Threads -> Places] /\ ret[th] # "cvwait"
    <2>1. ThreadOK(th) /\ TypeOK
      BY DEF Inv
    <2> QED BY <2>1 DEF TypeOK, ThreadOK, Wakeup
  <1>2. CASE io[arg[th]]
    <2>1. pc' = [pc EXCEPT ![th] = ret[th]]
      BY <1>2 DEF Wakeup, Goto
    <2> QED BY <1>1, <2>1 DEF WakeupShape
  <1>3. CASE ~io[arg[th]]
    <2> DEFINE p1 == [pc EXCEPT ![th] = ret[th]]
    <2>1. /\ p1[th] = ret[th] /\ DOMAIN p1 = Threads
          /\ \A x \in Threads \ {th} : p1[x] = pc[x]
      BY <1>1
    <2>2. pc' = [p1 EXCEPT ![arg[th]] = IF @ = "cvwait" THEN "woken" ELSE @]
      BY <1>3, SMTT(30) DEF Wakeup
    <2> HIDE DEF p1
    <2>3. pc'[th] = ret[th]
      BY <1>1, <2>1, <2>2
    <2>4. \A x \in Threads \ {th, arg[th]} : pc'[x] = pc[x]
      BY <2>1, <2>2
    <2>5. arg[th] # th => pc'[arg[th]] = IF pc[arg[th]] = "cvwait" THEN "woken" ELSE pc[arg[th]]
      BY <1>1, <2>1, <2>2
    <2> QED BY <1>1, <1>3, <2>3, <2>4, <2>5 DEF WakeupShape
  <1> QED BY <1>2, <1>3

\* What the switch does: the first task of _readyq, which is suspended and belongs
\* to the thread, becomes the current one.
SwitchShape(th, t) ==
    /\ t \in Tasks /\ home[t] = th /\ ready[t] /\ t \in Range(readyq[th])
    /\ state[t] \notin {"unborn", "run", "finished", "gone"}
    /\ pc'[th] \in {"finish", "loop", "run"}
    /\ pc'[th] = "finish" => t \in UserTasks
    /\ \A x \in Threads \ {th} : pc'[x] = pc[x]

\* The action SwitchTo has this shape.
LEMMA SwitchPlaces ==
    ASSUME Inv, NEW th \in Threads, SwitchTo(th)
    PROVE  SwitchShape(th, Head(readyq[th]))
  <1> DEFINE t == Head(readyq[th])
  <1>1. t \in Tasks /\ t \in Range(readyq[th])
    BY TailLemma DEF SwitchTo, Inv, TypeOK
  <1>2. ready[t] /\ home[t] = th /\ state[t] # "gone"
    BY <1>1 DEF Inv, OneToken, QueuesOK, Queued
  <1>3. state[t] \notin {"unborn", "run", "finished"}
    BY <1>1, <1>2, SMTT(30) DEF Inv, TaskOK, SwitchTo, InSchedule
  <1>4. \A x \in Threads \ {th} : pc'[x] = pc[x]
    BY DEF SwitchTo, Goto, Inv, TypeOK
  <1>5. pc'[th] \in {"finish", "loop", "run"} /\ (pc'[th] = "finish" => state[t] = "new")
    BY DEF SwitchTo, Goto, Inv, TypeOK
  <1>6. state[t] = "new" => t \in UserTasks
    BY <1>1, TaskSets DEF Inv, TaskOK, Tasks
  <1> QED BY <1>1, <1>2, <1>3, <1>4, <1>5, <1>6 DEF SwitchShape

\* What the invariant says of a thread and its current task.
LEMMA InvAtThread ==
    ASSUME Inv, NEW th \in Threads
    PROVE  /\ ThreadOK(th) /\ home[current[th]] = th
           /\ current[th] \in Tasks /\ state[current[th]] # "unborn"
  <1>1. ThreadOK(th) /\ current[th] \in Tasks /\ home[current[th]] = th
    BY DEF Inv, TypeOK, ThreadOK
  <1>2. TaskOK(current[th])
    BY <1>1 DEF Inv
  <1> QED BY <1>1, <1>2, TaskSets DEF TaskOK

-----------------------------------------------------------------------------
(***************************************************************************)
(* Every step of Scheduler keeps the agreement between the places of the   *)
(* threads, the life of the tasks, the lists of the schedulers and what    *)
(* the tasks wait for: the conjuncts ThreadOK, TaskOK, ListOK and WaitOK   *)
(* of the invariant.                                                       *)
(***************************************************************************)

\* Every step keeps the places of the threads in agreement with their tasks.
LEMMA ThreadStep ==
    ASSUME TypeOK, Inv, NEW th \in Threads, NEW x \in Threads,
           TaskStep(th) \/ LibraryStep(th) \/ OutsideStep(th)
    PROVE  ThreadOK(x)'
  <1>a. /\ ThreadOK(th) /\ current[th] \in Tasks /\ state[current[th]] # "unborn"
        /\ ThreadOK(x) /\ current[x] \in Tasks /\ state[current[x]] # "unborn"
    BY InvAtThread
  <1>b. current[x] = current[th] => x = th
    BY <1>a DEF ThreadOK
  <1>t. /\ ret[th] \in {"run", "remove", "cancel_all"}
        /\ DOMAIN pc = Threads /\ DOMAIN arg = Threads /\ DOMAIN ret = Threads
        /\ DOMAIN todo = Threads /\ DOMAIN current = Threads /\ DOMAIN io = Threads
        /\ DOMAIN home = Tasks /\ DOMAIN state = Tasks
    BY DEF TypeOK
  <1>1. CASE Roams(th)
    <2>1. PICK p \in InSchedule : RoamsTo(th, p)
      BY <1>1 DEF Roams
    <2>2. pc[th] \in InSchedule /\ UNCHANGED <<arg, ret, current, home, state, io>>
      BY <1>1 DEF Roams, listVars
    <2>3. x # th => todo'[x] = todo[x]
      BY <1>1 DEF Roams
    <2>4. CASE x = th
      BY <1>a, <2>1, <2>2, <2>4 DEF RoamsTo, Moves, ThreadOK, Ending, InSchedule
    <2>5. CASE x # th
      <3>1. pc'[x] = pc[x]
        BY <2>1, <2>5 DEF RoamsTo, Moves
      <3> QED BY <1>a, <2>2, <2>3, <2>5, <3>1 DEF ThreadOK, Ending
    <2> QED BY <2>4, <2>5
  <1>2. CASE Stays(th)
    BY <1>2, <1>a, <1>t DEF Stays, Polls, ThreadOK, Ending, InSchedule, argVars, listVars
  <1>3. CASE Blocks(th)
    <2>1. PICK how \in Suspended : state' = [state EXCEPT ![current[th]] = how]
      BY <1>3 DEF Blocks
    <2>2. /\ pc'[th] = "schedule" /\ (x # th => pc'[x] = pc[x] /\ io'[x] = io[x])
          /\ UNCHANGED <<argVars, listVars, home>>
      BY <1>3, <1>t DEF Blocks, Moves, Polls
    <2>3. CASE x = th
      BY <1>a, <1>t, <2>1, <2>2, <2>3 DEF ThreadOK, Ending, InSchedule, argVars, listVars
    <2>4. CASE x # th
      <3>1. pc'[x] = pc[x] /\ io'[x] = io[x] /\ UNCHANGED <<arg, ret, todo, current, home>>
        BY <2>2, <2>4 DEF argVars, listVars
      <3>2. state'[current[x]] = state[current[x]]
        BY <1>a, <1>b, <1>t, <2>1, <2>4
      <3>3. \A y \in Tasks : state[y] # "unborn" => state'[y] # "unborn"
        BY <1>t, <2>1 DEF Suspended, Cancelable
      <3> QED BY <1>a, <3>1, <3>2, <3>3 DEF ThreadOK, Ending
    <2> QED BY <2>3, <2>4
  <1>4. CASE GoesOn(th)
    <2>1. pc'[th] \in {"run", "loop", "leave", "exited"} /\ (x # th => pc'[x] = pc[x])
      BY <1>4 DEF GoesOn, Moves
    <2>2. UNCHANGED <<arg, ret, todo, current, io, home, state>>
      BY <1>4 DEF GoesOn, argVars, listVars
    <2>3. pc[th] \in {"run", "cancel_all", "loop", "leave"}
      BY <1>4 DEF GoesOn
    <2> QED BY <1>a, <2>1, <2>2, <2>3 DEF ThreadOK, Ending, InSchedule
  <1>5. CASE CallsReady(th)
    BY <1>5, <1>a, <1>t
       DEF CallsReady, CallReady, Goto, ThreadOK, Ending, InSchedule, listVars
  <1>6. ASSUME NEW t \in UserTasks, Spawn(th, t) PROVE ThreadOK(x)'
    BY <1>6, <1>a, <1>t DEF Spawn, ThreadOK, Ending, InSchedule, argVars
  <1>7. CASE Shutdown(th)
    BY <1>7, <1>a, <1>t
       DEF Shutdown, MayCall, ListedThreads, Goto, ThreadOK, Ending, InSchedule, schedVars,
           listVars, taskVars
  <1>8. CASE CancelScheduler(th)
    <2>1. /\ pc[th] = "cancel_all" /\ pc'[th] = "wakeup" /\ ret'[th] = "cancel_all"
          /\ UNCHANGED <<current, io, home, state>>
          /\ x # th => pc'[x] = pc[x] /\ ret'[x] = ret[x]
      BY <1>8, <1>t DEF CancelScheduler, Goto, listVars, taskVars
    <2>2. /\ arg'[th] \in todo[th] /\ todo'[th] \subseteq todo[th]
          /\ x # th => arg'[x] = arg[x] /\ todo'[x] = todo[x]
      BY <1>8, <1>t DEF CancelScheduler
    <2> QED BY <1>a, <2>1, <2>2 DEF ThreadOK, Ending, InSchedule
  <1>9. CASE Finish(th)
    <2>1. current[th] \in UserTasks /\ pc[th] \in {"run", "finish"}
      BY <1>9 DEF Finish, MayCall
    <2>2. joiner[current[th]] # None =>
             joiner[current[th]] \in Tasks /\ state[joiner[current[th]]] # "unborn"
      BY <1>a DEF Inv, WaitOK, TypeOK
    <2>3. /\ \/ pc'[th] = "remove"
             \/ /\ joiner[current[th]] # None
                /\ pc'[th] = "ready" /\ ret'[th] = "remove" /\ arg'[th] = joiner[current[th]]
          /\ \A y \in Threads \ {th} : pc'[y] = pc[y] /\ ret'[y] = ret[y] /\ arg'[y] = arg[y]
      BY <1>9, <1>t DEF Finish, CallReady, Goto
    <2>4. /\ state' = [state EXCEPT ![current[th]] = "finished"]
          /\ UNCHANGED <<todo, current, io, home>>
      BY <1>9 DEF Finish, schedVars, listVars
    <2>5. CASE x = th
      BY <1>a, <1>t, <2>1, <2>2, <2>3, <2>4, <2>5 DEF ThreadOK, Ending, InSchedule
    <2>6. CASE x # th
      BY <1>a, <1>b, <1>t, <2>1, <2>3, <2>4, <2>6 DEF ThreadOK, Ending, InSchedule
    <2> QED BY <2>5, <2>6
  <1>10. CASE Ready(th)
    <2>1. pc[th] = "ready" /\ (Goto(th, "push") \/ Goto(th, ret[th]))
      BY <1>10 DEF Ready
    <2>2. UNCHANGED <<arg, ret, todo, current, io, home, state>>
      BY <1>10 DEF Ready, argVars, schedVars, listVars, taskVars
    <2> QED BY <1>a, <1>t, <2>1, <2>2 DEF Goto, ThreadOK, Ending, InSchedule
  <1>11. CASE PushDirty(th)
    <2>1. arg[th] \in Tasks /\ home[arg[th]] \in Threads
      <3>1. arg[th] \in Tasks /\ state[arg[th]] # "unborn"
        BY <1>11, <1>a DEF PushDirty, ThreadOK
      <3>2. TaskOK(arg[th]) /\ home[arg[th]] \in Threads \cup {None}
        BY <3>1 DEF Inv, TypeOK
      <3> QED BY <3>1, <3>2 DEF TaskOK
    <2> QED BY <1>11, <1>a, <1>t, <2>1
               DEF PushDirty, Goto, ThreadOK, Ending, InSchedule, schedVars, listVars, taskVars
  <1>12. CASE Wakeup(th)
    <2>1. WakeupShape(th)
      BY <1>12, WakeupPlaces
    <2>2. UNCHANGED <<arg, ret, todo, current, io, home, state>> /\ pc[th] = "wakeup"
      BY <1>12 DEF Wakeup, argVars, listVars, taskVars
    <2>3. CASE x = th
      <3>1. pc'[x] = ret[x] /\ ret[x] \in {"run", "remove", "cancel_all"}
        BY <1>t, <2>1, <2>3 DEF WakeupShape
      <3>2. Ending(x)' <=> Ending(x)
        BY <2>2, <2>3, <3>1 DEF Ending
      <3> QED BY <1>a, <2>2, <2>3, <3>1, <3>2 DEF ThreadOK, Ending, InSchedule
    <2>4. CASE pc'[x] = pc[x]
      BY <1>a, <2>2, <2>4 DEF ThreadOK, Ending
    <2>5. CASE pc[x] = "cvwait" /\ pc'[x] = "woken"
      BY <1>a, <2>2, <2>5 DEF ThreadOK, Ending, InSchedule
    <2> QED BY <2>1, <2>3, <2>4, <2>5 DEF WakeupShape
  <1>13. CASE Remove(th) \/ RemoveErase(th)
    <2>1. /\ pc[th] \in {"remove", "spin"} /\ UNCHANGED <<argVars, current, io, home>>
          /\ Discard(th, current[th]) \/ (Goto(th, "spin") /\ UNCHANGED state)
      BY <1>13 DEF Remove, RemoveErase
    <2> QED BY <1>a, <1>b, <1>t, <2>1 DEF Discard, Goto, ThreadOK, Ending, InSchedule, argVars
  <1>14. CASE SwitchTo(th)
    <2>1. SwitchShape(th, Head(readyq[th]))
      BY <1>14, SwitchPlaces
    <2>2. /\ current' = [current EXCEPT ![th] = Head(readyq[th])]
          /\ state' = [state EXCEPT ![Head(readyq[th])] = "run"]
          /\ UNCHANGED <<arg, ret, todo, io, home>>
      BY <1>14 DEF SwitchTo, argVars
    <2>3. CASE x = th
      BY <1>a, <1>t, <2>1, <2>2, <2>3 DEF SwitchShape, ThreadOK, Ending, InSchedule
    <2>4. CASE x # th
      BY <1>a, <1>t, <2>1, <2>2, <2>4 DEF SwitchShape, ThreadOK, Ending, InSchedule
    <2> QED BY <2>3, <2>4
  <1> QED BY <1>1, <1>2, <1>3, <1>4, <1>5, <1>6, <1>7, <1>8, <1>9, <1>10, <1>11, <1>12, <1>13,
             <1>14, KindStep DEF OfKind

\* Every step keeps the life of the tasks in order.
LEMMA LifeStep ==
    ASSUME TypeOK, Inv, NEW th \in Threads, NEW x \in Tasks,
           TaskStep(th) \/ LibraryStep(th) \/ OutsideStep(th)
    PROVE  TaskOK(x)'
  <1>a. /\ current[th] \in Tasks /\ home[current[th]] = th
        /\ pc[th] \notin InSchedule =>
             state[current[th]] = IF Ending(th) THEN "finished" ELSE "run"
        /\ Ending(th) \/ pc[th] = "finish" => current[th] \in UserTasks
    BY DEF Inv, TypeOK, ThreadOK
  <1>b. TaskOK(x) /\ TaskOK(current[th])
    BY <1>a DEF Inv
  <1>t. /\ DOMAIN pc = Threads /\ DOMAIN current = Threads /\ DOMAIN home = Tasks
        /\ DOMAIN state = Tasks /\ ready \in [Tasks -> BOOLEAN]
        /\ home[x] \in Threads \cup {None} /\ ret[th] \in {"run", "remove", "cancel_all"}
    BY DEF TypeOK
  <1>c. None \notin Threads
    BY TaskSets
  <1>f. ASSUME UNCHANGED <<current, home, state>>, Readies,
               \A y \in Threads : pc[y] \notin InSchedule => pc'[y] \notin InSchedule
        PROVE  TaskOK(x)'
    BY <1>f, <1>b, <1>c, <1>t DEF Readies, TaskOK
  <1>1. CASE Roams(th)
    <2>1. \A y \in Threads : pc[y] \notin InSchedule => pc'[y] \notin InSchedule
      BY <1>1 DEF Roams, RoamsTo, Moves
    <2> QED BY <1>1, <1>f, <2>1, RequeuesReadies DEF Roams, listVars
  <1>2. CASE Stays(th)
    BY <1>2, <1>f, RequeuesReadies DEF Stays, listVars
  <1>3. CASE Blocks(th)
    <2>1. PICK how \in Suspended \ {"new"} : state' = [state EXCEPT ![current[th]] = how]
      BY <1>3 DEF Blocks
    <2>2. /\ state[current[th]] = "run" /\ Readies /\ UNCHANGED <<current, home>>
          /\ \A y \in Threads \ {th} : pc'[y] = pc[y]
      BY <1>3, <1>a, RequeuesReadies DEF Blocks, Moves, Ending, InSchedule, listVars
    <2> QED BY <1>a, <1>b, <1>c, <1>t, <2>1, <2>2
               DEF Readies, TaskOK, Suspended, Cancelable, Ended
  <1>4. CASE GoesOn(th)
    <2>1. \A y \in Threads : pc[y] \notin InSchedule => pc'[y] \notin InSchedule
      BY <1>4 DEF GoesOn, Moves, InSchedule
    <2> QED BY <1>4, <1>f, <2>1 DEF GoesOn, Readies, queueVars, listVars
  <1>5. CASE CallsReady(th)
    <2>1. \A y \in Threads : pc[y] \notin InSchedule => pc'[y] \notin InSchedule
      BY <1>5, <1>t DEF CallsReady, CallReady, Goto, InSchedule
    <2> QED BY <1>5, <1>f, <2>1 DEF CallsReady, Readies, queueVars, listVars
  <1>6. ASSUME NEW t \in UserTasks, Spawn(th, t) PROVE TaskOK(x)'
    BY <1>6, <1>b, <1>c, <1>t, TaskSets DEF Spawn, TaskOK
  <1>7. CASE Shutdown(th) \/ CancelScheduler(th) \/ PushDirty(th)
    <2>1. \A y \in Threads : pc[y] \notin InSchedule => pc'[y] \notin InSchedule
      BY <1>7, <1>t DEF Shutdown, CancelScheduler, PushDirty, Goto, InSchedule
    <2>2. UNCHANGED <<current, home, state, ready>>
      BY <1>7 DEF Shutdown, CancelScheduler, PushDirty, queueVars, schedVars, listVars, taskVars
    <2> QED BY <1>f, <2>1, <2>2 DEF Readies
  <1>8. CASE Finish(th)
    <2>1. current[th] \in UserTasks /\ pc[th] \in {"run", "finish"}
      BY <1>8 DEF Finish, MayCall
    <2>2. /\ pc'[th] \notin InSchedule
          /\ \A y \in Threads \ {th} : pc'[y] = pc[y]
      BY <1>8, <1>t DEF Finish, CallReady, Goto, InSchedule
    <2>3. /\ state' = [state EXCEPT ![current[th]] = "finished"]
          /\ UNCHANGED <<current, home, ready>>
      BY <1>8 DEF Finish, queueVars, schedVars, listVars
    <2>4. state[current[th]] = "run"
      BY <1>a, <2>1 DEF Ending, InSchedule
    <2> QED BY <1>a, <1>b, <1>c, <1>t, <2>1, <2>2, <2>3, <2>4, TaskSets DEF TaskOK
  <1>9. CASE Ready(th)
    <2>1. arg[th] \in Tasks /\ state[arg[th]] # "unborn"
      BY <1>9 DEF Ready, Inv, ThreadOK
    <2>2. ready' = [ready EXCEPT ![arg[th]] = TRUE] /\ UNCHANGED <<current, home, state>>
      BY <1>9 DEF Ready, schedVars, listVars, taskVars
    <2>3. Readies
      BY <1>t, <2>1, <2>2 DEF Readies
    <2>4. Goto(th, "push") \/ Goto(th, ret[th])
      BY <1>9 DEF Ready
    <2>5. \A y \in Threads : pc[y] \notin InSchedule => pc'[y] \notin InSchedule
      BY <1>t, <2>4 DEF Goto, InSchedule
    <2> QED BY <1>f, <2>2, <2>3, <2>5
  <1>10. CASE Wakeup(th)
    <2>1. WakeupShape(th)
      BY <1>10, WakeupPlaces
    <2>2. \A y \in Threads : pc[y] \notin InSchedule => pc'[y] \notin InSchedule
      BY <1>t, <2>1 DEF WakeupShape, InSchedule
    <2> QED BY <1>10, <1>f, <2>2 DEF Wakeup, Readies, queueVars, listVars, taskVars
  <1>11. CASE Remove(th) \/ RemoveErase(th)
    <2>1. state[current[th]] = "finished" /\ pc[th] \in {"remove", "spin"}
      BY <1>11, <1>a DEF Remove, RemoveErase, Ending, InSchedule
    <2>2. UNCHANGED <<current, home>>
      BY <1>11 DEF Remove, RemoveErase
    <2>3. ready'[current[th]] /\ Readies
      <3>1. CASE Remove(th)
        <4>1. ready' = [ready EXCEPT ![current[th]] = TRUE]
          BY <3>1 DEF Remove
        <4> QED BY <1>a, <1>t, <2>1, <4>1 DEF Readies
      <3>2. CASE RemoveErase(th)
        BY <3>2 DEF RemoveErase, Readies, Inv, OneToken, QueuesOK, Queued
      <3> QED BY <1>11, <3>1, <3>2
    <2>4. CASE UNCHANGED state /\ Goto(th, "spin")
      <3>1. \A y \in Threads : pc[y] \notin InSchedule => pc'[y] \notin InSchedule
        BY <1>t, <2>4 DEF Goto, InSchedule
      <3> QED BY <1>f, <2>2, <2>3, <2>4, <3>1
    <2>5. CASE Discard(th, current[th])
      <3>1. /\ state' = [state EXCEPT ![current[th]] = "gone"]
            /\ \A y \in Threads \ {th} : pc'[y] = pc[y]
        BY <1>t, <2>5 DEF Discard, Goto
      <3> QED BY <1>a, <1>b, <1>c, <1>t, <2>1, <2>2, <2>3, <3>1 DEF Readies, TaskOK, Ended
    <2> QED BY <1>11, <2>4, <2>5 DEF Remove, RemoveErase
  <1>12. CASE SwitchTo(th)
    <2>1. SwitchShape(th, Head(readyq[th]))
      BY <1>12, SwitchPlaces
    <2>2. /\ current' = [current EXCEPT ![th] = Head(readyq[th])]
          /\ state' = [state EXCEPT ![Head(readyq[th])] = "run"]
          /\ ready' = [ready EXCEPT ![Head(readyq[th])] = FALSE]
          /\ pc[th] = "pop" /\ UNCHANGED home
      BY <1>12 DEF SwitchTo
    <2>3. pc[th] \in InSchedule /\ pc'[th] \notin InSchedule
      BY <2>1, <2>2 DEF SwitchShape, InSchedule
    <2> QED BY <1>b, <1>c, <1>t, <2>1, <2>2, <2>3 DEF SwitchShape, TaskOK, Ended
  <1> QED BY <1>1, <1>2, <1>3, <1>4, <1>5, <1>6, <1>7, <1>8, <1>9, <1>10, <1>11, <1>12, KindStep
             DEF OfKind

\* Every step keeps the lists of the schedulers to tasks that are alive.
LEMMA ListStep ==
    ASSUME TypeOK, Inv, NEW th \in Threads, NEW x \in Threads,
           TaskStep(th) \/ LibraryStep(th) \/ OutsideStep(th)
    PROVE  ListOK(x)'
  <1>a. /\ current[th] \in Tasks /\ current[x] \in Tasks /\ home[current[th]] = th
        /\ home[current[x]] = x /\ state[current[x]] # "unborn"
    BY InvAtThread
  <1>b. ListOK(x) /\ user_tasks[x] \subseteq Tasks
    BY TaskSets DEF Inv, TypeOK
  <1>t. /\ DOMAIN pc = Threads /\ DOMAIN current = Threads /\ DOMAIN home = Tasks
        /\ DOMAIN state = Tasks /\ DOMAIN todo = Threads /\ DOMAIN user_tasks = Threads
        /\ DOMAIN gctasks = Threads /\ ret[th] \in {"run", "remove", "cancel_all"}
    BY DEF TypeOK
  <1>f. ASSUME UNCHANGED <<listVars, home, state>>,
               pc'[x] = "shutdown" => /\ pc[x] = "shutdown" /\ todo'[x] = todo[x]
        PROVE  ListOK(x)'
    BY <1>f, <1>b DEF ListOK, listVars
  <1>s. ASSUME UNCHANGED <<todo, listVars, home>>, pc'[x] = "shutdown" => pc[x] = "shutdown",
               NEW how, how \notin {"unborn", "gone"},
               state' = [state EXCEPT ![current[th]] = how]
        PROVE  ListOK(x)'
    <2>1. UNCHANGED <<current, user_tasks, gctasks, todo, home>>
      BY <1>s DEF listVars
    <2>2. \A y \in Tasks : state'[y] = state[y] \/ state'[y] \notin {"unborn", "gone"}
      BY <1>s, <1>t
    <2> QED BY <1>a, <1>b, <1>s, <2>1, <2>2 DEF ListOK
  <1>1. CASE Roams(th)
    <2>1. CASE x = th
      <3>1. PICK p \in InSchedule : RoamsTo(th, p)
        BY <1>1 DEF Roams
      <3>2. UNCHANGED <<listVars, home, state>>
        BY <1>1 DEF Roams
      <3> QED BY <1>b, <2>1, <3>1, <3>2 DEF RoamsTo, Moves, ListOK, listVars
    <2>2. CASE x # th
      BY <1>1, <1>f, <2>2 DEF Roams, RoamsTo, Moves
    <2> QED BY <2>1, <2>2
  <1>2. CASE Stays(th)
    BY <1>2, <1>f DEF Stays, argVars
  <1>3. CASE Blocks(th)
    <2>1. PICK how \in Suspended \ {"new"} : state' = [state EXCEPT ![current[th]] = how]
      BY <1>3 DEF Blocks
    <2>2. /\ pc'[x] = "shutdown" => pc[x] = "shutdown"
          /\ UNCHANGED <<todo, listVars, home>>
      BY <1>3 DEF Blocks, Moves, argVars
    <2>3. how \notin {"unborn", "gone"}
      BY DEF Suspended, Cancelable
    <2> QED BY <1>s, <2>1, <2>2, <2>3
  <1>4. CASE GoesOn(th)
    BY <1>4, <1>f DEF GoesOn, Moves, argVars
  <1>5. CASE CallsReady(th)
    BY <1>5, <1>f, <1>t DEF CallsReady, CallReady, Goto
  <1>6. ASSUME NEW t \in UserTasks, Spawn(th, t) PROVE ListOK(x)'
    BY <1>6, <1>a, <1>b, <1>t, TaskSets, SMTT(30) DEF Spawn, ListOK, argVars
  <1>7. CASE Shutdown(th) \/ CancelScheduler(th) \/ PushDirty(th)
    BY <1>7, <1>f, <1>t DEF Shutdown, CancelScheduler, PushDirty, Goto, schedVars, taskVars
  <1>8. CASE Finish(th)
    <2>1. pc'[x] = "shutdown" => pc[x] = "shutdown"
      BY <1>8, <1>t DEF Finish, CallReady, Goto
    <2>2. /\ state' = [state EXCEPT ![current[th]] = "finished"]
          /\ UNCHANGED <<todo, listVars, home>>
      BY <1>8 DEF Finish, schedVars
    <2>3. "finished" \notin {"unborn", "gone"}
      OBVIOUS
    <2> QED BY <1>s, <2>1, <2>2, <2>3
  <1>9. CASE Ready(th)
    <2>1. Goto(th, "push") \/ Goto(th, ret[th])
      BY <1>9 DEF Ready
    <2> QED BY <1>9, <1>f, <1>t, <2>1 DEF Ready, Goto, argVars, schedVars, taskVars
  <1>10. CASE Wakeup(th)
    <2>1. WakeupShape(th)
      BY <1>10, WakeupPlaces
    <2> QED BY <1>10, <1>f, <1>t, <2>1 DEF Wakeup, WakeupShape, argVars, taskVars
  <1>11. CASE Remove(th) \/ RemoveErase(th)
    <2>1. /\ \/ Goto(th, "spin") /\ UNCHANGED <<user_tasks, gctasks, state>>
             \/ Discard(th, current[th])
          /\ UNCHANGED <<todo, current, home>>
      BY <1>11 DEF Remove, RemoveErase, argVars
    <2>2. CASE Goto(th, "spin") /\ UNCHANGED <<user_tasks, gctasks, state>>
      BY <1>f, <1>t, <2>1, <2>2 DEF Goto, listVars
    <2>3. CASE Discard(th, current[th])
      <3>1. /\ pc'[x] = "shutdown" => x # th /\ pc[x] = "shutdown"
            /\ user_tasks'[x] = IF x = th THEN user_tasks[x] \ {current[th]} ELSE user_tasks[x]
            /\ gctasks'[x] = IF x = th THEN gctasks[x] \cup {current[th]} ELSE gctasks[x]
            /\ \A y \in Tasks : state'[y] = IF y = current[th] THEN "gone" ELSE state[y]
        BY <1>t, <2>3 DEF Discard, Goto
      <3>2. \A y \in user_tasks'[x] : home'[y] = x /\ state'[y] \notin {"unborn", "gone"}
        BY <1>a, <1>b, <2>1, <3>1 DEF ListOK
      <3>3. state'[current'[x]] = "gone" => current'[x] \in gctasks'[x]
        BY <1>a, <1>b, <2>1, <3>1 DEF ListOK
      <3> QED BY <1>b, <2>1, <3>1, <3>2, <3>3 DEF ListOK
    <2> QED BY <2>1, <2>2, <2>3
  <1>12. CASE SwitchTo(th)
    <2>1. SwitchShape(th, Head(readyq[th]))
      BY <1>12, SwitchPlaces
    <2>2. /\ current' = [current EXCEPT ![th] = Head(readyq[th])]
          /\ state' = [state EXCEPT ![Head(readyq[th])] = "run"]
          /\ UNCHANGED <<todo, user_tasks, home>>
          /\ x # th => gctasks'[x] = gctasks[x]
      BY <1>12, <1>t DEF SwitchTo, argVars
    <2> QED BY <1>a, <1>b, <1>t, <2>1, <2>2 DEF SwitchShape, ListOK
  <1> QED BY <1>1, <1>2, <1>3, <1>4, <1>5, <1>6, <1>7, <1>8, <1>9, <1>10, <1>11, <1>12, KindStep
             DEF OfKind

\* Thread th does not come to its end, and no other thread does because of it.
NobodyLeaves(th) ==
    /\ pc[th] # "exited" /\ pc'[th] \notin {"leave", "exited"}
    /\ \A x \in Threads \ {th} :
          pc'[x] = pc[x] \/ {pc[x], pc'[x]} \cap {"leave", "exited"} = {}

\* Only wait_for_all and what follows it lead to the end of a thread.
LEMMA LeavePlaces ==
    ASSUME TypeOK, Inv, NEW th \in Threads,
           TaskStep(th) \/ LibraryStep(th) \/ OutsideStep(th)
    PROVE  NobodyLeaves(th) \/ GoesOn(th)
  <1>t. DOMAIN pc = Threads /\ ret[th] \in {"run", "remove", "cancel_all"}
    BY DEF TypeOK
  <1>m. ASSUME NEW p, p \notin {"leave", "exited"}, pc[th] # "exited", Moves(th, p)
        PROVE  NobodyLeaves(th)
    BY <1>m DEF Moves, NobodyLeaves
  <1>g. ASSUME NEW p, Goto(th, p) PROVE Moves(th, p)
    BY <1>g, <1>t DEF Goto, Moves
  <1>1. CASE Roams(th)
    <2>1. pc[th] # "exited" /\ \E p \in InSchedule : Moves(th, p)
      BY <1>1 DEF Roams, RoamsTo, InSchedule
    <2> QED BY <1>m, <2>1 DEF InSchedule
  <1>2. CASE Stays(th)
    BY <1>2 DEF Stays, NobodyLeaves
  <1>3. CASE Blocks(th)
    BY <1>3, <1>m DEF Blocks
  <1>4. CASE CallsReady(th)
    BY <1>4, <1>g, <1>m DEF CallsReady, CallReady
  <1>5. CASE \E t \in UserTasks : Spawn(th, t)
    BY <1>5 DEF Spawn, MayCall, NobodyLeaves
  <1>6. CASE Shutdown(th) \/ CancelScheduler(th) \/ PushDirty(th)
    BY <1>6, <1>g, <1>m DEF Shutdown, CancelScheduler, PushDirty, MayCall
  <1>7. CASE Finish(th)
    <2>1. pc[th] # "exited" /\ (Goto(th, "remove") \/ Goto(th, "ready"))
      BY <1>7 DEF Finish, MayCall, CallReady
    <2> QED BY <1>g, <1>m, <2>1
  <1>8. CASE Ready(th)
    <2>1. pc[th] # "exited" /\ (Goto(th, "push") \/ Goto(th, ret[th]))
      BY <1>8 DEF Ready
    <2> QED BY <1>g, <1>m, <1>t, <2>1
  <1>9. CASE Wakeup(th)
    <2>1. WakeupShape(th) /\ pc[th] # "exited"
      BY <1>9, WakeupPlaces DEF Wakeup
    <2> QED BY <1>t, <2>1 DEF WakeupShape, NobodyLeaves
  <1>10. CASE Remove(th) \/ RemoveErase(th)
    <2>1. pc[th] # "exited" /\ (Goto(th, "spin") \/ Goto(th, "schedule"))
      BY <1>10 DEF Remove, RemoveErase, Discard
    <2> QED BY <1>g, <1>m, <2>1
  <1>11. CASE SwitchTo(th)
    <2>1. SwitchShape(th, Head(readyq[th])) /\ pc[th] # "exited"
      BY <1>11, SwitchPlaces DEF SwitchTo
    <2> QED BY <2>1 DEF SwitchShape, NobodyLeaves
  <1> QED BY <1>1, <1>2, <1>3, <1>4, <1>5, <1>6, <1>7, <1>8, <1>9, <1>10, <1>11, KindStep
             DEF OfKind

\* Every step keeps the tasks of a scheduler on its list until they are removed, and
\* only the thread itself adds one.
LEMMA LeaveLists ==
    ASSUME TypeOK, Inv, NEW th \in Threads, NEW x \in Threads, LeaveOK(x),
           TaskStep(th) \/ LibraryStep(th) \/ OutsideStep(th)
    PROVE  /\ \A t \in UserTasks : home'[t] = x => t \in user_tasks'[x] \/ state'[t] = "gone"
           /\ x # th => user_tasks'[x] \subseteq user_tasks[x]
  <1> DEFINE Listed == /\ \A t \in UserTasks :
                             home'[t] = x => t \in user_tasks'[x] \/ state'[t] = "gone"
                       /\ x # th => user_tasks'[x] \subseteq user_tasks[x]
  <1> SUFFICES Listed
    OBVIOUS
  <1>a. /\ current[th] \in Tasks
        /\ pc[th] \notin InSchedule => state[current[th]] \in {"run", "finished"}
    BY InvAtThread DEF ThreadOK
  <1>t. /\ DOMAIN state = Tasks /\ DOMAIN home = Tasks /\ DOMAIN user_tasks = Threads
        /\ UserTasks \subseteq Tasks
    BY TaskSets DEF TypeOK
  <1>u. \A t \in UserTasks : home[t] = x => t \in user_tasks[x] \/ state[t] = "gone"
    BY DEF LeaveOK
  <1>f. ASSUME UNCHANGED <<user_tasks, home, state>> PROVE Listed
    BY <1>f, <1>u
  <1>s. ASSUME UNCHANGED <<user_tasks, home>>, NEW y \in Tasks, state[y] # "gone", NEW how,
               state' = [state EXCEPT ![y] = how]
        PROVE  Listed
    <2>1. \A t \in UserTasks : state[t] = "gone" => state'[t] = "gone"
      BY <1>s, <1>t
    <2> QED BY <1>s, <1>u, <2>1
  <1>1. CASE Roams(th) \/ Stays(th) \/ GoesOn(th) \/ CallsReady(th)
    BY <1>1, <1>f DEF Roams, Stays, GoesOn, CallsReady, listVars
  <1>2. CASE Blocks(th)
    <2>1. pc[th] \notin InSchedule /\ UNCHANGED <<user_tasks, home>>
      BY <1>2 DEF Blocks, InSchedule, listVars
    <2>2. PICK how : state' = [state EXCEPT ![current[th]] = how]
      BY <1>2 DEF Blocks
    <2> QED BY <1>a, <1>s, <2>1, <2>2
  <1>3. CASE Shutdown(th) \/ CancelScheduler(th) \/ PushDirty(th) \/ Ready(th) \/ Wakeup(th)
    BY <1>3, <1>f
       DEF Shutdown, CancelScheduler, PushDirty, Ready, Wakeup, schedVars, listVars, taskVars
  <1>4. CASE Finish(th)
    <2>1. pc[th] \notin InSchedule
      BY <1>4 DEF Finish, MayCall, InSchedule
    <2> QED BY <1>4, <1>a, <1>s, <2>1 DEF Finish, schedVars, listVars
  <1>5. CASE SwitchTo(th)
    <2>1. Head(readyq[th]) \in Tasks /\ state[Head(readyq[th])] # "gone"
      BY <1>5, SwitchPlaces DEF SwitchShape
    <2> QED BY <1>5, <1>s, <2>1 DEF SwitchTo
  <1>6. ASSUME NEW t \in UserTasks, Spawn(th, t) PROVE Listed
    <2>1. /\ user_tasks'[x] = IF x = th THEN user_tasks[x] \cup {t} ELSE user_tasks[x]
          /\ \A y \in UserTasks \ {t} : home'[y] = home[y] /\ state'[y] = state[y]
          /\ home'[t] = th
      BY <1>6, <1>t DEF Spawn
    <2> QED BY <1>u, <2>1
  <1>7. CASE Remove(th) \/ RemoveErase(th)
    <2>1. /\ \/ UNCHANGED <<user_tasks, state>>
             \/ Discard(th, current[th])
          /\ UNCHANGED home
      BY <1>7 DEF Remove, RemoveErase
    <2>2. CASE Discard(th, current[th])
      <3>1. /\ user_tasks'[x] = IF x = th THEN user_tasks[x] \ {current[th]} ELSE user_tasks[x]
            /\ \A y \in UserTasks : state'[y] = IF y = current[th] THEN "gone" ELSE state[y]
        BY <1>t, <2>2 DEF Discard
      <3> QED BY <1>u, <2>1, <3>1
    <2> QED BY <1>f, <2>1, <2>2
  <1> QED BY <1>1, <1>2, <1>3, <1>4, <1>5, <1>6, <1>7, KindStep DEF OfKind

\* Every step keeps what makes the main thread leave last.
LEMMA LeaveStep ==
    ASSUME TypeOK, Inv, LeaveInv, NEW th \in Threads,
           TaskStep(th) \/ LibraryStep(th) \/ OutsideStep(th)
    PROVE  LeaveInv'
  <1>a. \A x \in Threads : LeaveOK(x)
    BY DEF LeaveInv
  <1>l. \A x \in Threads :
            /\ \A t \in UserTasks : home'[t] = x => t \in user_tasks'[x] \/ state'[t] = "gone"
            /\ x # th => user_tasks'[x] \subseteq user_tasks[x]
    BY <1>a, LeaveLists
  <1>m. pc[MainThread] = "exited" => \A x \in Threads : pc[x] = "exited"
    BY DEF LeaveInv, ListedThreads
  <1>t. MainThread \in Threads /\ DOMAIN pc = Threads
    BY SchedulerAssumption DEF TypeOK
  <1>s. ASSUME \A x \in Threads : pc'[x] \in {"leave", "exited"} => user_tasks'[x] = {},
               pc'[MainThread] = "exited" => \A x \in Threads : pc'[x] = "exited"
        PROVE  LeaveInv'
    BY <1>l, <1>s DEF LeaveInv, LeaveOK, ListedThreads
  <1>1. CASE NobodyLeaves(th)
    <2>1. ASSUME NEW x \in Threads, pc'[x] \in {"leave", "exited"} PROVE user_tasks'[x] = {}
      <3>1. x # th /\ pc[x] \in {"leave", "exited"}
        BY <1>1, <2>1 DEF NobodyLeaves
      <3> QED BY <1>a, <1>l, <3>1 DEF LeaveOK
    <2>2. pc'[MainThread] # "exited"
      BY <1>1, <1>m, <1>t DEF NobodyLeaves
    <2> QED BY <1>s, <2>1, <2>2
  <1>2. CASE GoesOn(th)
    <2>1. PICK p : Moves(th, p)
      BY <1>2 DEF GoesOn
    <2>2. UNCHANGED user_tasks /\ pc[th] # "exited"
      BY <1>2 DEF GoesOn, listVars
    <2>3. pc'[th] \in {"leave", "exited"} => user_tasks[th] = {}
      BY <1>2, <1>a DEF GoesOn, Leave, LeaveOK
    <2>4. \A x \in Threads : pc'[x] \in {"leave", "exited"} => user_tasks'[x] = {}
      BY <1>a, <2>1, <2>2, <2>3 DEF Moves, LeaveOK
    <2>5. ASSUME pc'[MainThread] = "exited" PROVE \A x \in Threads : pc'[x] = "exited"
      <3>1. th = MainThread
        BY <1>m, <1>t, <2>1, <2>2, <2>5 DEF Moves
      <3>2. ListedThreads = {th}
        BY <1>2, <2>5, <3>1 DEF GoesOn, Leave
      <3> QED BY <2>1, <2>5, <3>1, <3>2 DEF ListedThreads, Moves
    <2> QED BY <1>s, <2>4, <2>5
  <1> QED BY <1>1, <1>2, LeavePlaces

\* Every step keeps the deadlines, alarms and joiners of the tasks in order.
LEMMA WaitStep ==
    ASSUME TypeOK, Inv, NEW th \in Threads, NEW x \in Tasks,
           TaskStep(th) \/ LibraryStep(th) \/ OutsideStep(th)
    PROVE  WaitOK(x)'
  <1>a. /\ current[th] \in Tasks /\ WaitOK(current[th]) /\ WaitOK(x)
        /\ pc[th] \notin InSchedule =>
             state[current[th]] = IF Ending(th) THEN "finished" ELSE "run"
    BY DEF Inv, TypeOK, ThreadOK
  <1>r. pc[th] \in {"run", "finish", "loop"} => state[current[th]] = "run"
    BY <1>a DEF Ending, InSchedule
  <1>t. DOMAIN state = Tasks /\ DOMAIN joiner = Tasks /\ joiner[x] \in Tasks \cup {None}
    BY DEF TypeOK
  <1>u. ASSUME UNCHANGED <<state, waitVars>> PROVE WaitOK(x)'
    BY <1>a, <1>u DEF WaitOK, waitVars
  <1>b. ASSUME NEW how \in Suspended, state[current[th]] = "run",
               state' = [state EXCEPT ![current[th]] = how], UNCHANGED <<deadlines, joiner>>,
               \/ UNCHANGED alarms
               \/ alarms' = alarms \cup {Timer(current[th])} /\ how \in {"sleep", "poll"}
        PROVE  WaitOK(x)'
    BY <1>a, <1>b, <1>t DEF WaitOK, Timer, Deadline, Suspended, Cancelable, Ended
  <1>c. ASSUME NEW how \in Suspended, state[current[th]] = "run", CheckedSuspend(th, how),
               UNCHANGED <<deadlines, joiner>>,
               \/ UNCHANGED alarms
               \/ /\ ~Throws(current[th]) /\ how \in {"sleep", "poll"}
                  /\ alarms' = alarms \cup {Timer(current[th])}
        PROVE  WaitOK(x)'
    <2>1. CASE Throws(current[th])
      BY <1>c, <1>u, <2>1 DEF CheckedSuspend, waitVars
    <2>2. CASE ~Throws(current[th])
      BY <1>b, <1>c, <2>2 DEF CheckedSuspend, Suspend
    <2> QED BY <2>1, <2>2
  <1>s. {"yield", "swap", "safe_swap", "sleep", "poll", "join", "wait_for_all"} \subseteq Suspended
    BY DEF Suspended, Cancelable
  <1>1. CASE Yield(th) \/ Swap(th)
    BY <1>1, <1>c, <1>r, <1>s DEF Yield, Swap, MayCall, waitVars
  <1>2. CASE SleepUntil(th)
    <2>1. /\ CheckedSuspend(th, "sleep") /\ state[current[th]] = "run"
          /\ UNCHANGED <<deadlines, joiner>>
      BY <1>2, <1>r DEF SleepUntil, MayCall
    <2>2. \/ UNCHANGED alarms
          \/ ~Throws(current[th]) /\ alarms' = alarms \cup {Timer(current[th])}
      BY <1>2 DEF SleepUntil
    <2> QED BY <1>c, <1>s, <2>1, <2>2
  <1>3. CASE Poll(th)
    <2>1. /\ CheckedSuspend(th, "poll") /\ state[current[th]] = "run"
          /\ UNCHANGED <<deadlines, joiner>>
      BY <1>3, <1>r DEF Poll, MayCall
    <2>2. \/ UNCHANGED alarms
          \/ ~Throws(current[th]) /\ alarms' = alarms \cup {Timer(current[th])}
      BY <1>3 DEF Poll
    <2> QED BY <1>c, <1>s, <2>1, <2>2
  <1>4. CASE SafeSwap(th) \/ WaitForAllLoop(th)
    <2>1. state[current[th]] = "run" /\ UNCHANGED waitVars
      BY <1>4, <1>r DEF SafeSwap, WaitForAllLoop, MayCall
    <2>2. \/ Suspend(th, "safe_swap") \/ Suspend(th, "wait_for_all")
          \/ UNCHANGED state
      BY <1>4 DEF SafeSwap, WaitForAllLoop
    <2> QED BY <1>b, <1>s, <1>u, <2>1, <2>2 DEF Suspend, waitVars
  <1>5. CASE SetDeadline(th)
    BY <1>5, <1>a, <1>r DEF SetDeadline, MayCall, WaitOK, Timer, Deadline, Ended
  <1>6. CASE EndDeadline(th) \/ WaitForAll(th)
    <2>1. DropDeadline(current[th]) /\ UNCHANGED <<state, joiner>>
      BY <1>6 DEF EndDeadline, WaitForAll
    <2> QED BY <1>a, <2>1 DEF DropDeadline, WaitOK, Timer, Deadline
  <1>7. CASE Finish(th)
    <2>1. state[current[th]] = "run"
      BY <1>7, <1>r DEF Finish, MayCall
    <2>2. /\ DropDeadline(current[th])
          /\ state' = [state EXCEPT ![current[th]] = "finished"]
          /\ joiner' = [joiner EXCEPT ![current[th]] = None]
      BY <1>7 DEF Finish
    <2> QED BY <1>a, <1>t, <2>1, <2>2 DEF DropDeadline, WaitOK, Timer, Deadline, Ended
  <1>8. ASSUME NEW t \in UserTasks, Join(th, t) PROVE WaitOK(x)'
    <2>1. /\ state[current[th]] = "run" /\ state' = [state EXCEPT ![current[th]] = "join"]
          /\ joiner' = [joiner EXCEPT ![t] = current[th]] /\ UNCHANGED <<deadlines, alarms>>
      BY <1>8, <1>r DEF Join, MayCall, Suspend
    <2> QED BY <1>a, <1>t, <2>1 DEF WaitOK, Timer, Ended
  <1>9. ASSUME NEW t \in UserTasks, Spawn(th, t) PROVE WaitOK(x)'
    <2>1. /\ state[t] = "unborn" /\ state' = [state EXCEPT ![t] = "new"]
          /\ UNCHANGED waitVars
      BY <1>9 DEF Spawn
    <2> QED BY <1>a, <1>t, <2>1 DEF WaitOK, Ended, waitVars
  <1>10. CASE Remove(th) \/ RemoveErase(th)
    <2>1. state[current[th]] = "finished"
      BY <1>10, <1>a DEF Remove, RemoveErase, Ending, InSchedule
    <2>2. UNCHANGED waitVars /\ (UNCHANGED state \/ Discard(th, current[th]))
      BY <1>10 DEF Remove, RemoveErase
    <2> QED BY <1>a, <1>t, <2>1, <2>2 DEF Discard, WaitOK, Ended, waitVars
  <1>11. CASE FireAlarm(th)
    <2>1. alarms' \subseteq alarms /\ UNCHANGED <<state, deadlines, joiner>>
      BY <1>11 DEF FireAlarm
    <2> QED BY <1>a, <2>1 DEF WaitOK
  <1>12. CASE SwitchTo(th)
    <2>1. SwitchShape(th, Head(readyq[th]))
      BY <1>12, SwitchPlaces
    <2>2. /\ state' = [state EXCEPT ![Head(readyq[th])] = "run"]
          /\ alarms' = alarms \ {Timer(Head(readyq[th]))}
          /\ UNCHANGED <<deadlines, joiner>>
      BY <1>12 DEF SwitchTo
    <2> QED BY <1>a, <1>t, <2>1, <2>2 DEF SwitchShape, WaitOK, Timer, Deadline, Ended
  <1>13. ASSUME NEW t \in UserTasks, Cancel(th, t) PROVE WaitOK(x)'
    BY <1>13, <1>u DEF Cancel
  <1>14. CASE ShutdownCancel(th)
    BY <1>14, <1>u DEF ShutdownCancel
  <1>15. CASE UNCHANGED taskVars
    BY <1>15, <1>u DEF taskVars
  <1>16. ASSUME NEW t \in Tasks, Wake(th, t) PROVE UNCHANGED taskVars
    BY <1>16 DEF Wake
  <1>17. Shutdown(th) \/ CancelScheduler(th) \/ CancelAllDone(th) \/ Ready(th) \/ PushDirty(th)
           \/ Wakeup(th) \/ RemoveSpin(th) \/ Leave(th) => UNCHANGED taskVars
    BY DEF Shutdown, CancelScheduler, CancelAllDone, Ready, PushDirty, Wakeup, RemoveSpin, Leave
  <1>18. Schedule(th) \/ CheckCanceled(th) \/ ShutdownDone(th) \/ CheckDirtyQueue(th)
           \/ NoAlarmDue(th) \/ WaitCheck(th) \/ WaitBlock(th) => UNCHANGED taskVars
    BY DEF Schedule, CheckCanceled, ShutdownDone, CheckDirtyQueue, NoAlarmDue, WaitCheck, WaitBlock
  <1>19. EventsDone(th) \/ Woken(th) \/ CvTimeout(th) \/ IoWake(th) \/ CvSpurious(th)
           \/ IoEvent(th) => UNCHANGED taskVars
    BY DEF EventsDone, Woken, CvTimeout, IoWake, CvSpurious, IoEvent
  <1> QED BY <1>1, <1>2, <1>3, <1>4, <1>5, <1>6, <1>7, <1>8, <1>9, <1>10, <1>11, <1>12, <1>13,
             <1>14, <1>15, <1>16, <1>17, <1>18, <1>19
          DEF TaskStep, LibraryStep, OutsideStep

-----------------------------------------------------------------------------
(***************************************************************************)
(* Every step of Scheduler keeps OneToken: the wake-up token of a task is  *)
(* in one place, whatever threads make the task ready at the same time.    *)
(***************************************************************************)

\* No thread starts or ends its way to a _dirtyq, no task changes its scheduler,
\* is removed or comes back.
TokensStay ==
    /\ \A x \in Threads : /\ pc'[x] = "push" <=> pc[x] = "push"
                          /\ pc[x] = "push" => arg'[x] = arg[x]
    /\ UNCHANGED home
    /\ \A y \in Tasks : state'[y] = "gone" <=> state[y] = "gone"

\* The same for every task but t.
TokensStayBut(t) ==
    /\ \A x \in Threads : /\ pc'[x] = "push" <=> pc[x] = "push"
                          /\ pc[x] = "push" => arg'[x] = arg[x]
    /\ \A y \in Tasks \ {t} : home'[y] = home[y] /\ (state'[y] = "gone" <=> state[y] = "gone")

\* The tasks that the invariants speak about are tasks of a scheduler.
LEMMA TokenTypes ==
    ASSUME Inv
    PROVE  /\ \A x \in Threads : pc[x] = "push" => arg[x] \in Tasks /\ home[arg[x]] \in Threads
           /\ \A y \in Tasks : ready[y] => home[y] \in Threads
           /\ \A x \in Threads : Queued(x) \subseteq Tasks
  <1>1. \A y \in Tasks : ready[y] => home[y] \in Threads
    BY DEF Inv, TypeOK, TaskOK
  <1>2. \A x \in Threads : pc[x] = "push" => arg[x] \in Tasks
    BY DEF Inv, ThreadOK
  <1>3. \A x \in Threads : pc[x] = "push" => ready[arg[x]]
    BY DEF Inv, OneToken, PushOK
  <1>4. \A x \in Threads : Queued(x) \subseteq Tasks
    <2> TAKE x \in Threads
    <2>1. readyq[x] \in Seq(Tasks) /\ dirtyq[x] \in Seq(Tasks)
      BY DEF Inv, TypeOK
    <2> QED BY <2>1, RangeLemma DEF Queued
  <1> QED BY <1>1, <1>2, <1>3, <1>4

\* The threads that are about to push a task stay the same.
LEMMA PushingStays ==
    ASSUME NEW y \in Tasks, \/ TokensStay
                            \/ \E t \in Tasks : TokensStayBut(t)
    PROVE  Pushing(y)' = Pushing(y)
  BY DEF Pushing, TokensStay, TokensStayBut

\* A step that leaves the queues alone keeps the tokens in order.
LEMMA TokenFrame ==
    ASSUME Inv, TokensStay, UNCHANGED queueVars
    PROVE  OneToken'
  <1>1. \A x \in Threads : Queued(x)' = Queued(x)
    BY DEF Queued, queueVars
  <1>q. UNCHANGED <<ready, readyq, dirtyq>>
    BY DEF queueVars
  <1>2. ASSUME NEW x \in Threads PROVE QueuesOK(x)'
    <2>1. QueuesOK(x) /\ Queued(x) \subseteq Tasks
      BY TokenTypes DEF Inv, OneToken
    <2> QED BY <1>1, <1>q, <2>1 DEF QueuesOK, TokensStay
  <1>3. ASSUME NEW x \in Threads PROVE PushOK(x)'
    <2>1. PushOK(x) /\ (pc[x] = "push" => arg[x] \in Tasks /\ home[arg[x]] \in Threads)
      BY TokenTypes DEF Inv, OneToken
    <2> QED BY <1>1, <1>q, <2>1, PushingStays DEF PushOK, TokensStay
  <1>4. ASSUME NEW y \in Tasks PROVE TokenOK(y)'
    <2>1. TokenOK(y) /\ (ready[y] => home[y] \in Threads)
      BY TokenTypes DEF Inv, OneToken
    <2> QED BY <1>1, <1>q, <2>1, PushingStays DEF TokenOK, TokensStay
  <1> QED BY <1>2, <1>3, <1>4 DEF OneToken

\* t gets its token and enters the ready queue of th.
NewToken(th, t) ==
    /\ Range(readyq'[th]) = Range(readyq[th]) \cup {t} /\ IsInjective(readyq'[th])
    /\ \A x \in Threads \ {th} : readyq'[x] = readyq[x]
    /\ \A y \in Tasks : ready'[y] <=> ready[y] \/ y = t
    /\ UNCHANGED dirtyq

\* ... where it was not before.
LEMMA NewTokenInReadyq ==
    ASSUME Inv, NEW th \in Threads, NEW t \in Tasks, ~ready[t], NewToken(th, t),
           home'[t] = th, state'[t] # "gone", TokensStayBut(t)
    PROVE  OneToken'
  <1>n. /\ Range(readyq'[th]) = Range(readyq[th]) \cup {t} /\ IsInjective(readyq'[th])
        /\ \A x \in Threads \ {th} : readyq'[x] = readyq[x]
        /\ \A y \in Tasks : ready'[y] <=> ready[y] \/ y = t
        /\ UNCHANGED dirtyq
    BY DEF NewToken
  <1>1. Queued(th)' = Queued(th) \cup {t} /\ \A x \in Threads \ {th} : Queued(x)' = Queued(x)
    BY <1>n DEF Queued
  <1>2. t \notin Queued(th) /\ \A x \in Threads : ~(pc[x] = "push" /\ arg[x] = t)
    BY DEF Inv, OneToken, QueuesOK, PushOK
  <1>3. ASSUME NEW x \in Threads PROVE QueuesOK(x)'
    <2>1. QueuesOK(x) /\ QueuesOK(th) /\ Queued(x) \subseteq Tasks
      BY TokenTypes DEF Inv, OneToken
    <2>2. IsInjective(readyq'[x]) /\ IsInjective(dirtyq'[x])
      BY <1>n, <2>1 DEF QueuesOK
    <2>3. Range(readyq'[x]) \cap Range(dirtyq'[x]) = {}
      BY <1>n, <1>2, <2>1 DEF QueuesOK, Queued
    <2>4. \A y \in Queued(x)' : ready'[y] /\ home'[y] = x /\ state'[y] # "gone"
      BY <1>1, <1>n, <2>1, SMTT(30) DEF QueuesOK, TokensStayBut
    <2> QED BY <2>2, <2>3, <2>4 DEF QueuesOK
  <1>4. ASSUME NEW x \in Threads PROVE PushOK(x)'
    <2> SUFFICES ASSUME pc'[x] = "push" PROVE PushOK(x)'
      BY DEF PushOK
    <2>1. pc[x] = "push" /\ arg'[x] = arg[x]
      BY DEF TokensStayBut
    <2> PICK y \in Tasks, h \in Threads : y = arg[x] /\ h = home[y]
      BY <2>1, TokenTypes
    <2>2. y # t /\ PushOK(x)
      BY <1>2, <2>1 DEF Inv, OneToken
    <2>3. home'[y] = h /\ state'[y] # "gone" /\ ready'[y] /\ Pushing(y)' = {x}
      BY <1>n, <2>1, <2>2, PushingStays DEF PushOK, TokensStayBut
    <2>4. y \notin Queued(h)'
      BY <1>1, <2>1, <2>2 DEF PushOK
    <2> QED BY <2>1, <2>3, <2>4 DEF PushOK
  <1>5. ASSUME NEW y \in Tasks PROVE TokenOK(y)'
    <2>1. TokenOK(y) /\ (ready[y] => home[y] \in Threads)
      BY TokenTypes DEF Inv, OneToken
    <2>2. CASE y = t
      BY <1>1, <2>2 DEF TokenOK
    <2>3. CASE y # t
      BY <1>1, <1>n, <2>1, <2>3, PushingStays, SMTT(30) DEF TokenOK, TokensStayBut
    <2> QED BY <2>2, <2>3
  <1> QED BY <1>3, <1>4, <1>5 DEF OneToken

\* A task that is spawned gets its token at the front of _readyq.
LEMMA SpawnTokens ==
    ASSUME TypeOK, Inv, NEW th \in Threads, NEW t \in UserTasks, Spawn(th, t)
    PROVE  OneToken'
  <1>t. t \in Tasks
    BY TaskSets
  <1>1. ~ready[t]
    BY <1>t DEF Spawn, Inv, TaskOK
  <1>2. TokensStayBut(t) /\ home'[t] = th /\ state'[t] # "gone"
    BY <1>t DEF Spawn, TokensStayBut, TypeOK, argVars
  <1>3. readyq[th] \in Seq(Tasks) /\ IsInjective(readyq[th]) /\ t \notin Range(readyq[th])
    BY <1>1 DEF TypeOK, Inv, OneToken, QueuesOK, Queued
  <1>4. /\ IsInjective(PushFront(readyq[th], t))
        /\ Range(PushFront(readyq[th], t)) = Range(readyq[th]) \cup {t}
    BY <1>t, <1>3, PushFrontLemma, SMTT(30)
  <1>5. NewToken(th, t)
    BY <1>t, <1>4 DEF Spawn, NewToken, TypeOK
  <1> QED BY <1>t, <1>1, <1>2, <1>5, NewTokenInReadyq

\* A task of the thread that is made ready by its own thread.
LEMMA EnqueueTokens ==
    ASSUME Inv, TokensStay, NEW th \in Threads, NEW t \in Tasks, home[t] = th,
           state[t] # "gone", EnqueueBack(th, t), UNCHANGED dirtyq
    PROVE  OneToken'
  <1>1. CASE ready[t]
    <2>1. UNCHANGED queueVars
      BY <1>1 DEF EnqueueBack, Inv, TypeOK, queueVars
    <2> QED BY <2>1, TokenFrame
  <1>2. CASE ~ready[t]
    <2>1. readyq' = [readyq EXCEPT ![th] = Append(@, t)] /\ ready' = [ready EXCEPT ![t] = TRUE]
      BY <1>2 DEF EnqueueBack
    <2>2. /\ readyq[th] \in Seq(Tasks) /\ readyq \in [Threads -> Seq(Tasks)]
          /\ ready \in [Tasks -> BOOLEAN]
      BY DEF Inv, TypeOK
    <2>3. /\ Range(readyq'[th]) = Range(readyq[th]) \cup {t}
          /\ t \notin Range(readyq[th]) /\ t \notin Range(dirtyq[th])
          /\ IsInjective(readyq'[th])
      BY <1>2, <2>1, <2>2, AppendLemma, SMTT(30) DEF Inv, OneToken, QueuesOK, Queued
    <2>4. /\ \A x \in Threads \ {th} : readyq'[x] = readyq[x]
          /\ \A y \in Tasks : ready'[y] <=> ready[y] \/ y = t
      BY <2>1, <2>2
    <2>5. NewToken(th, t)
      BY <2>3, <2>4 DEF NewToken
    <2>6. TokensStayBut(t) /\ home'[t] = th /\ state'[t] # "gone"
      BY DEF TokensStay, TokensStayBut
    <2> QED BY <1>2, <2>5, <2>6, NewTokenInReadyq
  <1> QED BY <1>1, <1>2

\* check_dirty_queue moves a task from one queue of the thread to the other.
LEMMA PopTokens ==
    ASSUME Inv, TokensStay, NEW th \in Threads, PopDirty(th)
    PROVE  OneToken'
  <1> DEFINE t == Head(dirtyq[th])
  <1>1. /\ readyq[th] \in Seq(Tasks) /\ readyq \in [Threads -> Seq(Tasks)]
        /\ dirtyq[th] \in Seq(Tasks) /\ dirtyq \in [Threads -> Seq(Tasks)]
        /\ dirtyq[th] # <<>> /\ QueuesOK(th)
    BY DEF Inv, TypeOK, PopDirty, OneToken
  <1>2. /\ t \in Tasks /\ t \in Range(dirtyq[th]) /\ t \notin Range(readyq[th])
        /\ IsInjective(Tail(dirtyq[th])) /\ Range(Tail(dirtyq[th])) = Range(dirtyq[th]) \ {t}
    BY <1>1, TailLemma DEF QueuesOK
  <1>3. /\ IsInjective(PushFront(readyq[th], t))
        /\ Range(PushFront(readyq[th], t)) = Range(readyq[th]) \cup {t}
    <2>1. IsInjective(readyq[th])
      BY <1>1 DEF QueuesOK
    <2> HIDE DEF t
    <2> PICK q \in Seq(Tasks) : q = readyq[th]
      BY <1>1
    <2>2. t \notin Range(q) /\ IsInjective(q) /\ t \in Tasks
      BY <1>2, <2>1
    <2>3. IsInjective(PushFront(q, t)) /\ Range(PushFront(q, t)) = Range(q) \cup {t}
      BY <2>2, PushFrontLemma, SMTT(30)
    <2> QED BY <2>3
  <1>4. /\ readyq'[th] = PushFront(readyq[th], t) /\ dirtyq'[th] = Tail(dirtyq[th])
        /\ \A x \in Threads \ {th} : readyq'[x] = readyq[x] /\ dirtyq'[x] = dirtyq[x]
        /\ UNCHANGED ready
    BY <1>1 DEF PopDirty
  <1> HIDE DEF t
  <1>5. \A x \in Threads : Queued(x)' = Queued(x)
    BY <1>2, <1>3, <1>4 DEF Queued
  <1>6. ASSUME NEW x \in Threads PROVE QueuesOK(x)'
    <2>1. QueuesOK(x) /\ Queued(x) \subseteq Tasks
      BY TokenTypes DEF Inv, OneToken
    <2>2. /\ IsInjective(readyq'[x]) /\ IsInjective(dirtyq'[x])
          /\ Range(readyq'[x]) \cap Range(dirtyq'[x]) = {}
      BY <1>1, <1>2, <1>3, <1>4, <2>1 DEF QueuesOK
    <2> QED BY <1>4, <1>5, <2>1, <2>2 DEF QueuesOK, TokensStay
  <1>7. ASSUME NEW x \in Threads PROVE PushOK(x)'
    <2>1. PushOK(x) /\ (pc[x] = "push" => arg[x] \in Tasks /\ home[arg[x]] \in Threads)
      BY TokenTypes DEF Inv, OneToken
    <2> SUFFICES ASSUME pc'[x] = "push" PROVE PushOK(x)'
      BY DEF PushOK
    <2>2. pc[x] = "push" /\ arg'[x] = arg[x] /\ UNCHANGED home
      BY DEF TokensStay
    <2> PICK y \in Tasks, g \in Threads : y = arg[x] /\ g = home[y]
      BY <2>1, <2>2
    <2>3. ready[y] /\ state[y] # "gone" /\ y \notin Queued(g) /\ Pushing(y) = {x}
      BY <2>1, <2>2 DEF PushOK
    <2>4. ready'[y] /\ state'[y] # "gone" /\ Queued(g)' = Queued(g) /\ Pushing(y)' = Pushing(y)
      BY <1>4, <1>5, <2>3, PushingStays DEF TokensStay
    <2> QED BY <2>2, <2>3, <2>4 DEF PushOK
  <1>8. ASSUME NEW y \in Tasks PROVE TokenOK(y)'
    <2>1. TokenOK(y) /\ (ready[y] => home[y] \in Threads)
      BY TokenTypes DEF Inv, OneToken
    <2> QED BY <1>4, <1>5, <2>1, PushingStays DEF TokenOK, TokensStay
  <1> QED BY <1>6, <1>7, <1>8 DEF OneToken

\* The switch takes the token of the task that runs.
LEMMA SwitchTokens ==
    ASSUME TypeOK, Inv, NEW th \in Threads, SwitchTo(th)
    PROVE  OneToken'
  <1> DEFINE t == Head(readyq[th])
  <1>1. /\ readyq[th] \in Seq(Tasks) /\ readyq \in [Threads -> Seq(Tasks)]
        /\ readyq[th] # <<>> /\ QueuesOK(th)
    BY DEF Inv, TypeOK, SwitchTo, OneToken
  <1>2. /\ t \in Tasks /\ t \in Range(readyq[th]) /\ t \notin Range(dirtyq[th])
        /\ IsInjective(Tail(readyq[th])) /\ Range(Tail(readyq[th])) = Range(readyq[th]) \ {t}
    BY <1>1, TailLemma DEF QueuesOK
  <1>3. home[t] = th /\ state[t] # "gone" /\ t \in Queued(th)
    BY <1>1, <1>2 DEF QueuesOK, Queued
  <1>4. /\ readyq'[th] = Tail(readyq[th])
        /\ \A x \in Threads \ {th} : readyq'[x] = readyq[x]
        /\ \A y \in Tasks : ready'[y] <=> ready[y] /\ y # t
        /\ UNCHANGED dirtyq
    BY <1>1, <1>2 DEF SwitchTo, TypeOK
  <1>5. TokensStay
    <2>1. SwitchShape(th, t)
      BY SwitchPlaces
    <2>2. state' = [state EXCEPT ![t] = "run"] /\ UNCHANGED <<arg, home>> /\ pc[th] = "pop"
      BY DEF SwitchTo, argVars
    <2> QED BY <1>2, <1>3, <2>1, <2>2 DEF SwitchShape, TokensStay, TypeOK
  <1> HIDE DEF t
  <1>6. Queued(th)' = Queued(th) \ {t} /\ \A x \in Threads \ {th} : Queued(x)' = Queued(x)
    BY <1>2, <1>4 DEF Queued
  <1>7. ASSUME NEW x \in Threads PROVE QueuesOK(x)'
    <2>1. QueuesOK(x) /\ Queued(x) \subseteq Tasks
      BY TokenTypes DEF Inv, OneToken
    <2>2. /\ IsInjective(readyq'[x]) /\ IsInjective(dirtyq'[x])
          /\ Range(readyq'[x]) \cap Range(dirtyq'[x]) = {}
      BY <1>1, <1>2, <1>4, <2>1 DEF QueuesOK
    <2>3. \A y \in Queued(x)' : y # t /\ y \in Queued(x)
      BY <1>3, <1>6, <2>1 DEF QueuesOK
    <2> QED BY <1>4, <1>5, <2>1, <2>2, <2>3 DEF QueuesOK, TokensStay
  <1>8. ASSUME NEW x \in Threads PROVE PushOK(x)'
    <2> SUFFICES ASSUME pc'[x] = "push" PROVE PushOK(x)'
      BY DEF PushOK
    <2>1. pc[x] = "push" /\ arg'[x] = arg[x]
      BY <1>5 DEF TokensStay
    <2> PICK y \in Tasks, h \in Threads : y = arg[x] /\ h = home[y]
      BY <2>1, TokenTypes
    <2>2. PushOK(x) /\ y # t
      BY <1>3, <2>1 DEF Inv, OneToken, PushOK
    <2>3. home'[y] = h /\ state'[y] # "gone" /\ ready'[y] /\ Pushing(y)' = {x}
      BY <1>4, <1>5, <2>1, <2>2, PushingStays DEF PushOK, TokensStay
    <2>4. y \notin Queued(h)'
      BY <1>6, <2>1, <2>2 DEF PushOK
    <2> QED BY <2>1, <2>3, <2>4 DEF PushOK
  <1>9. ASSUME NEW y \in Tasks PROVE TokenOK(y)'
    <2>1. TokenOK(y) /\ (ready[y] => home[y] \in Threads)
      BY TokenTypes DEF Inv, OneToken
    <2> QED BY <1>4, <1>5, <1>6, <2>1, PushingStays DEF TokenOK, TokensStay
  <1> QED BY <1>7, <1>8, <1>9 DEF OneToken

\* ready() of a task of another scheduler: the thread that sets _ready is the one
\* that will push the task.
LEMMA ReadyTokens ==
    ASSUME TypeOK, Inv, NEW th \in Threads, Ready(th)
    PROVE  OneToken'
  <1> PICK t \in Tasks : t = arg[th] /\ state[t] # "unborn"
    BY DEF Ready, Inv, ThreadOK
  <1>1. /\ pc[th] = "ready" /\ UNCHANGED <<arg, dirtyq, home, state>>
        /\ \A x \in Threads \ {th} : pc'[x] = pc[x]
        /\ \A y \in Tasks : ready'[y] <=> ready[y] \/ y = t
    BY DEF Ready, Goto, TypeOK, argVars, taskVars
  <1>h. home[t] \in Threads /\ (state[t] = "gone" => ready[t])
    <2>1. TaskOK(t) /\ home[t] \in Threads \cup {None}
      BY DEF Inv, TypeOK
    <2> QED BY <2>1 DEF TaskOK
  <1>r. ret[th] # "push"
    BY DEF TypeOK
  <1>2. CASE ready[t]
    <2>1. UNCHANGED queueVars
      BY <1>1, <1>2, SMTT(30) DEF Ready, TypeOK, queueVars
    <2>2. pc'[th] # "push"
      BY <1>2, <1>r DEF Ready, Goto, TypeOK
    <2>3. TokensStay
      BY <1>1, <2>2 DEF TokensStay
    <2> QED BY <2>1, <2>3, TokenFrame
  <1>3. CASE ~ready[t] /\ home[t] = th
    <2>1. EnqueueBack(th, t)
      BY <1>3 DEF Ready, EnqueueBack
    <2>2. pc'[th] # "push"
      BY <1>3, <1>r DEF Ready, Goto, TypeOK
    <2>3. TokensStay /\ state[t] # "gone"
      BY <1>1, <1>3, <1>h, <2>2 DEF TokensStay
    <2> QED BY <1>1, <1>3, <2>1, <2>3, EnqueueTokens
  <1>4. CASE ~ready[t] /\ home[t] # th
    <2>1. pc'[th] = "push" /\ UNCHANGED readyq
      BY <1>4 DEF Ready, Goto, TypeOK
    <2>2. /\ state[t] # "gone" /\ t \notin Queued(home[t])
          /\ \A x \in Threads : ~(pc[x] = "push" /\ arg[x] = t)
      BY <1>4, <1>h DEF Inv, OneToken, QueuesOK, PushOK
    <2>3. \A x \in Threads : Queued(x)' = Queued(x)
      BY <1>1, <2>1 DEF Queued
    <2>4. Pushing(t)' = {th} /\ \A y \in Tasks \ {t} : Pushing(y)' = Pushing(y)
      BY <1>1, <2>1, <2>2 DEF Pushing
    <2>5. ASSUME NEW x \in Threads PROVE QueuesOK(x)'
      <3>1. QueuesOK(x) /\ Queued(x) \subseteq Tasks
        BY TokenTypes DEF Inv, OneToken
      <3> QED BY <1>1, <2>1, <2>3, <3>1 DEF QueuesOK
    <2>6. ASSUME NEW x \in Threads PROVE PushOK(x)'
      <3>1. CASE x = th
        BY <1>1, <1>h, <2>2, <2>3, <2>4, <3>1 DEF PushOK
      <3>2. CASE x # th
        <4>1. PushOK(x) /\ (pc[x] = "push" => arg[x] \in Tasks /\ home[arg[x]] \in Threads)
          BY TokenTypes DEF Inv, OneToken
        <4> QED BY <1>1, <2>2, <2>3, <2>4, <3>2, <4>1 DEF PushOK
      <3> QED BY <3>1, <3>2
    <2>7. ASSUME NEW y \in Tasks PROVE TokenOK(y)'
      <3>1. TokenOK(y) /\ (ready[y] => home[y] \in Threads)
        BY TokenTypes DEF Inv, OneToken
      <3> QED BY <1>1, <2>3, <2>4, <3>1 DEF TokenOK
    <2> QED BY <2>5, <2>6, <2>7 DEF OneToken
  <1> QED BY <1>2, <1>3, <1>4

\* ... and pushes it, while nobody else does.
LEMMA PushTokens ==
    ASSUME TypeOK, Inv, NEW th \in Threads, PushDirty(th)
    PROVE  OneToken'
  <1> PICK t \in Tasks, h \in Threads : t = arg[th] /\ h = home[t]
    BY TokenTypes DEF PushDirty
  <1>1. /\ ready[t] /\ state[t] # "gone" /\ t \notin Queued(h) /\ Pushing(t) = {th}
        /\ dirtyq[h] \in Seq(Tasks) /\ pc[th] = "push" /\ QueuesOK(h)
    <2>1. PushOK(th) /\ pc[th] = "push" /\ QueuesOK(h)
      BY DEF PushDirty, Inv, OneToken
    <2> QED BY <2>1 DEF PushOK, TypeOK
  <1>2. /\ IsInjective(Append(dirtyq[h], t))
        /\ Range(Append(dirtyq[h], t)) = Range(dirtyq[h]) \cup {t}
    BY <1>1, AppendLemma, SMTT(30) DEF QueuesOK, Queued
  <1>3. /\ dirtyq'[h] = Append(dirtyq[h], t)
        /\ \A x \in Threads \ {h} : dirtyq'[x] = dirtyq[x]
        /\ \A x \in Threads \ {th} : pc'[x] = pc[x] /\ arg'[x] = arg[x]
        /\ pc'[th] = "wakeup" /\ UNCHANGED <<ready, readyq, home, state>>
    BY DEF PushDirty, Goto, TypeOK, taskVars
  <1>4. Queued(h)' = Queued(h) \cup {t} /\ \A x \in Threads \ {h} : Queued(x)' = Queued(x)
    BY <1>2, <1>3 DEF Queued
  <1>5. ASSUME NEW y \in Tasks \ {t} PROVE Pushing(y)' = Pushing(y)
    <2>1. \A x \in Threads : (pc'[x] = "push" /\ arg'[x] = y) <=> (pc[x] = "push" /\ arg[x] = y)
      BY <1>3
    <2> QED BY <2>1 DEF Pushing
  <1>6. ASSUME NEW x \in Threads PROVE QueuesOK(x)'
    <2>1. QueuesOK(x) /\ Queued(x) \subseteq Tasks
      BY TokenTypes DEF Inv, OneToken
    <2>2. IsInjective(readyq'[x]) /\ IsInjective(dirtyq'[x])
      BY <1>2, <1>3, <2>1 DEF QueuesOK
    <2>3. Range(readyq'[x]) \cap Range(dirtyq'[x]) = {}
      <3>1. CASE x = h
        <4>1. t \notin Range(readyq[h]) /\ Range(readyq[h]) \cap Range(dirtyq[h]) = {}
          BY <1>1 DEF QueuesOK, Queued
        <4>2. Range(dirtyq'[h]) = Range(dirtyq[h]) \cup {t} /\ readyq'[h] = readyq[h]
          BY <1>2, <1>3
        <4> QED BY <3>1, <4>1, <4>2
      <3>2. CASE x # h
        BY <1>3, <2>1, <3>2 DEF QueuesOK
      <3> QED BY <3>1, <3>2
    <2>4. ASSUME NEW y \in Queued(x)'
          PROVE  ready'[y] /\ home'[y] = x /\ state'[y] # "gone"
      <3>1. y \in Queued(x) \/ (x = h /\ y = t)
        BY <1>4, <2>4
      <3>2. ready[y] /\ home[y] = x /\ state[y] # "gone"
        BY <1>1, <2>1, <3>1 DEF QueuesOK
      <3> QED BY <1>3, <3>2
    <2> QED BY <2>2, <2>3, <2>4 DEF QueuesOK
  <1>7. ASSUME NEW x \in Threads PROVE PushOK(x)'
    <2> SUFFICES ASSUME pc'[x] = "push" PROVE PushOK(x)'
      BY DEF PushOK
    <2>1. pc[x] = "push" /\ arg'[x] = arg[x] /\ x # th
      BY <1>3
    <2> PICK y \in Tasks, g \in Threads : y = arg[x] /\ g = home[y]
      BY <2>1, TokenTypes
    <2>2. y # t /\ PushOK(x)
      BY <1>1, <2>1 DEF Pushing, Inv, OneToken
    <2>3. ready[y] /\ state[y] # "gone" /\ y \notin Queued(g) /\ Pushing(y) = {x}
      BY <2>1, <2>2 DEF PushOK
    <2>4. /\ ready'[y] /\ state'[y] # "gone" /\ home'[y] = g
          /\ y \notin Queued(g)' /\ Pushing(y)' = {x}
      BY <1>3, <1>4, <1>5, <2>2, <2>3
    <2> QED BY <2>1, <2>4 DEF PushOK
  <1>8. ASSUME NEW y \in Tasks PROVE TokenOK(y)'
    <2>1. CASE y = t
      BY <1>3, <1>4, <2>1 DEF TokenOK
    <2>2. CASE y # t
      <3>1. TokenOK(y) /\ (ready[y] => home[y] \in Threads)
        BY TokenTypes DEF Inv, OneToken
      <3> QED BY <1>3, <1>4, <1>5, <2>2, <3>1 DEF TokenOK
    <2> QED BY <2>1, <2>2
  <1> QED BY <1>6, <1>7, <1>8 DEF OneToken

\* t, which no thread pushes, leaves the queues for good.
Retired(th, t) ==
    /\ \A x \in Threads : ~(pc[x] = "push" /\ arg[x] = t)
    /\ \A x \in Threads : /\ pc'[x] = "push" <=> pc[x] = "push"
                          /\ pc[x] = "push" => arg'[x] = arg[x]
    /\ \A x \in Threads : IsInjective(readyq'[x]) /\ Range(readyq'[x]) = Range(readyq[x]) \ {t}
    /\ \A x \in Threads : t \notin Range(dirtyq[x])
    /\ \A y \in Tasks : /\ ready'[y] <=> ready[y] \/ y = t
                        /\ state'[y] = IF y = t THEN "gone" ELSE state[y]
    /\ UNCHANGED <<dirtyq, home>>

\* A task that is removed keeps its token for ever.
LEMMA RetiredTokens ==
    ASSUME Inv, NEW th \in Threads, NEW t \in Tasks, Retired(th, t)
    PROVE  OneToken'
  <1>1. \A x \in Threads : Queued(x)' = Queued(x) \ {t}
    BY DEF Retired, Queued
  <1>2. \A y \in Tasks : Pushing(y)' = Pushing(y)
    BY DEF Retired, Pushing
  <1>3. ASSUME NEW x \in Threads PROVE QueuesOK(x)'
    <2>1. QueuesOK(x) /\ Queued(x) \subseteq Tasks
      BY TokenTypes DEF Inv, OneToken
    <2>2. /\ IsInjective(readyq'[x]) /\ IsInjective(dirtyq'[x])
          /\ Range(readyq'[x]) \cap Range(dirtyq'[x]) = {}
      BY <2>1 DEF QueuesOK, Retired
    <2>3. \A y \in Queued(x)' : ready'[y] /\ home'[y] = x /\ state'[y] # "gone"
      BY <1>1, <2>1 DEF QueuesOK, Retired
    <2> QED BY <2>2, <2>3 DEF QueuesOK
  <1>4. ASSUME NEW x \in Threads PROVE PushOK(x)'
    <2> SUFFICES ASSUME pc'[x] = "push" PROVE PushOK(x)'
      BY DEF PushOK
    <2>1. pc[x] = "push" /\ arg'[x] = arg[x] /\ arg[x] # t
      BY DEF Retired
    <2> PICK y \in Tasks, h \in Threads : y = arg[x] /\ h = home[y]
      BY <2>1, TokenTypes
    <2>2. PushOK(x)
      BY DEF Inv, OneToken
    <2>3. home'[y] = h /\ state'[y] # "gone" /\ ready'[y] /\ Pushing(y)' = {x}
      BY <1>2, <2>1, <2>2 DEF PushOK, Retired
    <2> QED BY <1>1, <2>1, <2>2, <2>3 DEF PushOK
  <1>5. ASSUME NEW y \in Tasks PROVE TokenOK(y)'
    <2>1. TokenOK(y) /\ (ready[y] => home[y] \in Threads)
      BY TokenTypes DEF Inv, OneToken
    <2> QED BY <1>1, <1>2, <2>1 DEF TokenOK, Retired
  <1> QED BY <1>3, <1>4, <1>5 DEF OneToken

\* remove_task keeps the token of the task it removes: the task is in no queue.
LEMMA RemoveTokens ==
    ASSUME TypeOK, Inv, NEW th \in Threads, Remove(th)
    PROVE  OneToken'
  <1> PICK t \in Tasks : t = current[th]
    BY DEF TypeOK
  <1>1. /\ \A y \in Tasks : ready'[y] <=> ready[y] \/ y = t
        /\ pc[th] = "remove" /\ UNCHANGED <<arg, readyq, dirtyq, home>>
    BY DEF Remove, TypeOK, argVars
  <1>2. CASE ready[t]
    <2>1. UNCHANGED queueVars /\ UNCHANGED state /\ pc' = [pc EXCEPT ![th] = "spin"]
      BY <1>2 DEF Remove, Goto, TypeOK, queueVars
    <2>2. TokensStay
      BY <1>1, <2>1 DEF TokensStay, TypeOK
    <2> QED BY <2>1, <2>2, TokenFrame
  <1>3. CASE ~ready[t]
    <2>1. Discard(th, t)
      BY <1>3 DEF Remove
    <2>2. /\ \A y \in Tasks : state'[y] = IF y = t THEN "gone" ELSE state[y]
          /\ \A x \in Threads : pc'[x] = IF x = th THEN "schedule" ELSE pc[x]
      BY <2>1 DEF Discard, Goto, TypeOK
    <2>3. /\ \A x \in Threads : t \notin Queued(x) /\ ~(pc[x] = "push" /\ arg[x] = t)
          /\ \A x \in Threads : IsInjective(readyq[x])
      BY <1>3 DEF Inv, OneToken, QueuesOK, PushOK
    <2>4. Retired(th, t)
      BY <1>1, <2>2, <2>3 DEF Retired, Queued
    <2> QED BY <2>4, RetiredTokens
  <1> QED BY <1>2, <1>3

\* The same when the task had to be erased from _readyq.
LEMMA EraseTokens ==
    ASSUME TypeOK, Inv, NEW th \in Threads, RemoveErase(th)
    PROVE  OneToken'
  <1> PICK t \in Tasks : t = current[th]
    BY DEF TypeOK
  <1>1. /\ pc[th] = "spin" /\ t \in Range(readyq[th]) /\ readyq[th] \in Seq(Tasks)
        /\ UNCHANGED <<arg, ready, dirtyq, home>>
        /\ readyq'[th] = Without(readyq[th], t)
        /\ \A x \in Threads \ {th} : readyq'[x] = readyq[x]
        /\ \A y \in Tasks : state'[y] = IF y = t THEN "gone" ELSE state[y]
        /\ \A x \in Threads : pc'[x] = IF x = th THEN "schedule" ELSE pc[x]
    BY DEF RemoveErase, Discard, Goto, TypeOK, argVars
  <1>2. /\ \A x \in Threads : QueuesOK(x) /\ PushOK(x)
        /\ t \in Queued(th)
    BY <1>1 DEF Inv, OneToken, Queued
  <1>3. home[t] = th /\ ready[t] /\ t \notin Range(dirtyq[th])
    BY <1>1, <1>2 DEF QueuesOK
  <1>4. \A x \in Threads \ {th} : t \notin Queued(x)
    BY <1>2, <1>3 DEF QueuesOK
  <1>5. \A x \in Threads : ~(pc[x] = "push" /\ arg[x] = t)
    BY <1>2, <1>3 DEF PushOK
  <1>6. IsInjective(readyq'[th]) /\ Range(readyq'[th]) = Range(readyq[th]) \ {t}
    <2> PICK q \in Seq(Tasks) : q = readyq[th]
      BY <1>1
    <2>1. t \in Range(q) /\ IsInjective(q) /\ readyq'[th] = Without(q, t)
      BY <1>1, <1>2 DEF QueuesOK
    <2>2. IsInjective(Without(q, t)) /\ Range(Without(q, t)) = Range(q) \ {t}
      BY <2>1, WithoutLemma, SMTT(30)
    <2> QED BY <2>1, <2>2
  <1>7. Retired(th, t)
    <2>1. \A x \in Threads : IsInjective(readyq'[x]) /\ Range(readyq'[x]) = Range(readyq[x]) \ {t}
      <3> TAKE x \in Threads
      <3>1. CASE x = th
        BY <1>6, <3>1
      <3>2. CASE x # th
        BY <1>1, <1>2, <1>4, <3>2, SMTT(30) DEF QueuesOK, Queued
      <3> QED BY <3>1, <3>2
    <2>2. \A x \in Threads : t \notin Range(dirtyq[x])
      BY <1>3, <1>4 DEF Queued
    <2>3. \A x \in Threads : /\ pc'[x] = "push" <=> pc[x] = "push"
                              /\ pc[x] = "push" => arg'[x] = arg[x]
      BY <1>1
    <2>4. \A y \in Tasks : ready'[y] <=> ready[y] \/ y = t
      BY <1>1, <1>3
    <2> QED BY <1>1, <1>5, <2>1, <2>2, <2>3, <2>4 DEF Retired
  <1> QED BY <1>7, RetiredTokens

\* Every step keeps the wake-up tokens in order.
LEMMA TokenStep ==
    ASSUME TypeOK, Inv, NEW th \in Threads,
           TaskStep(th) \/ LibraryStep(th) \/ OutsideStep(th)
    PROVE  OneToken'
  <1>a. ThreadOK(th) /\ current[th] \in Tasks
    BY InvAtThread
  <1>t. DOMAIN pc = Threads /\ DOMAIN arg = Threads /\ DOMAIN state = Tasks
    BY DEF TypeOK
  <1>p. "push" \notin InSchedule
    BY DEF InSchedule
  <1>r. pc[th] \in {"run", "finish", "loop"} => state[current[th]] = "run"
    BY <1>a DEF ThreadOK, Ending, InSchedule
  <1>q. ASSUME TokensStay, Requeues(th) PROVE OneToken'
    <2>1. ASSUME Enqueues(th) PROVE OneToken'
      <3>1. PICK t \in Tasks : /\ home[t] = th /\ state[t] # "gone"
                               /\ EnqueueBack(th, t) /\ UNCHANGED dirtyq
        BY <2>1 DEF Enqueues
      <3> QED BY <1>q, <3>1, EnqueueTokens
    <2> QED BY <1>q, <2>1, TokenFrame, PopTokens DEF Requeues
  <1>1. CASE Roams(th)
    <2>1. TokensStay
      BY <1>1, <1>p DEF Roams, RoamsTo, Moves, TokensStay
    <2> QED BY <1>1, <1>q, <2>1 DEF Roams
  <1>2. CASE Stays(th)
    <2>1. TokensStay
      BY <1>2 DEF Stays, TokensStay, argVars
    <2> QED BY <1>2, <1>q, <2>1 DEF Stays
  <1>3. CASE Blocks(th)
    <2>1. PICK how \in Suspended : state' = [state EXCEPT ![current[th]] = how]
      BY <1>3 DEF Blocks
    <2>2. how # "gone" /\ state[current[th]] # "gone"
      BY <1>3, <1>r DEF Blocks, Suspended, Cancelable
    <2>3. /\ pc[th] # "push" /\ pc'[th] # "push" /\ UNCHANGED <<arg, home>>
          /\ \A y \in Threads \ {th} : pc'[y] = pc[y]
      BY <1>3 DEF Blocks, Moves, argVars
    <2>4. TokensStay
      BY <1>a, <1>t, <2>1, <2>2, <2>3 DEF TokensStay
    <2> QED BY <1>3, <1>q, <2>4 DEF Blocks
  <1>4. CASE GoesOn(th)
    <2>1. TokensStay
      BY <1>4 DEF GoesOn, Moves, TokensStay, argVars
    <2> QED BY <1>4, <2>1, TokenFrame DEF GoesOn
  <1>5. CASE CallsReady(th)
    <2>1. TokensStay
      BY <1>5, <1>t DEF CallsReady, CallReady, Goto, TokensStay
    <2> QED BY <1>5, <2>1, TokenFrame DEF CallsReady
  <1>6. ASSUME NEW t \in UserTasks, Spawn(th, t) PROVE OneToken'
    BY <1>6, SpawnTokens
  <1>7. CASE Shutdown(th) \/ CancelScheduler(th)
    <2>1. TokensStay /\ UNCHANGED queueVars
      BY <1>7, <1>t DEF Shutdown, CancelScheduler, MayCall, Goto, TokensStay, taskVars
    <2> QED BY <2>1, TokenFrame
  <1>8. CASE Finish(th)
    <2>1. /\ pc[th] # "push" /\ pc'[th] # "push" /\ UNCHANGED <<queueVars, home>>
          /\ \A y \in Threads \ {th} : pc'[y] = pc[y] /\ arg'[y] = arg[y]
      BY <1>8, <1>t DEF Finish, MayCall, CallReady, Goto
    <2>2. state' = [state EXCEPT ![current[th]] = "finished"] /\ state[current[th]] = "run"
      BY <1>8, <1>r DEF Finish, MayCall
    <2>3. TokensStay
      BY <1>a, <1>t, <2>1, <2>2 DEF TokensStay
    <2> QED BY <2>1, <2>3, TokenFrame
  <1>9. CASE Wakeup(th)
    <2>1. WakeupShape(th) /\ ret[th] # "push"
      BY <1>9, WakeupPlaces DEF TypeOK
    <2>2. pc[th] = "wakeup" /\ UNCHANGED <<arg, queueVars, home, state>>
      BY <1>9 DEF Wakeup, argVars, taskVars
    <2>3. TokensStay
      BY <2>1, <2>2 DEF WakeupShape, TokensStay
    <2> QED BY <2>2, <2>3, TokenFrame
  <1> QED BY <1>1, <1>2, <1>3, <1>4, <1>5, <1>6, <1>7, <1>8, <1>9, KindStep, ReadyTokens,
             PushTokens, RemoveTokens, EraseTokens, SwitchTokens DEF OfKind

(* No lost wake-up: what NoLostWakeup says of one thread. *)

Asleep(x) == pc[x] \in {"block", "cvwait", "iowait"} =>
                 readyq[x] = <<>> /\ (dirtyq[x] # <<>> => WillWake(x))

\* The step touches neither the queues nor the eventfd of another thread, and
\* takes back no call of wakeup().
Undisturbed(th) ==
    /\ pc[th] = "wakeup" => pc'[th] = "wakeup" /\ arg'[th] = arg[th]
    /\ \A y \in Threads \ {th} : /\ pc'[y] = pc[y] /\ arg'[y] = arg[y]
                                 /\ readyq'[y] = readyq[y] /\ dirtyq'[y] = dirtyq[y]
                                 /\ evfd'[y] = evfd[y] /\ io'[y] = io[y]

\* Such a step lets the other threads sleep.
LEMMA UndisturbedSleep ==
    ASSUME NEW th \in Threads, Undisturbed(th), NEW x \in Threads \ {th}, Asleep(x)
    PROVE  Asleep(x)'
  <1>1. WillWake(x) => WillWake(x)'
    BY DEF Undisturbed, WillWake
  <1> QED BY <1>1 DEF Undisturbed, Asleep

\* Only the own queues of the thread change.
LEMMA RequeuesOwn ==
    ASSUME TypeOK, NEW th \in Threads, Requeues(th)
    PROVE  \A y \in Threads \ {th} : readyq'[y] = readyq[y] /\ dirtyq'[y] = dirtyq[y]
  <1>t. DOMAIN readyq = Threads /\ DOMAIN dirtyq = Threads
    BY DEF TypeOK
  <1>1. CASE UNCHANGED queueVars
    BY <1>1 DEF queueVars
  <1>2. CASE PopDirty(th)
    BY <1>2, <1>t DEF PopDirty
  <1>3. CASE Enqueues(th)
    BY <1>3, <1>t DEF Enqueues, EnqueueBack
  <1> QED BY <1>1, <1>2, <1>3 DEF Requeues

\* The critical section of wakeup() reaches the thread it is for.
LEMMA WakeupSleep ==
    ASSUME TypeOK, Inv, NEW th \in Threads, NEW x \in Threads, Asleep(x), Wakeup(th)
    PROVE  Asleep(x)'
  <1>1. WakeupShape(th) /\ pc[th] = "wakeup" /\ pc[arg[th]] # "block"
    BY WakeupPlaces DEF Wakeup, Locked
  <1>2. ret[th] \notin {"block", "cvwait", "iowait"}
    BY DEF TypeOK
  <1>3. UNCHANGED <<arg, readyq, dirtyq, io>>
    BY DEF Wakeup, argVars, queueVars
  <1>4. CASE x = th
    BY <1>1, <1>2, <1>4 DEF WakeupShape, Asleep
  <1>5. CASE x = arg[th] /\ x # th
    <2>1. CASE io[x]
      <3>1. evfd'[x]
        BY <1>5, <2>1 DEF Wakeup, TypeOK
      <3> QED BY <1>1, <1>3, <1>5, <2>1, <3>1 DEF WakeupShape, Asleep, WillWake
    <2>2. CASE ~io[x]
      <3>1. pc[x] # "iowait"
        BY <2>2 DEF Inv, ThreadOK
      <3>2. pc'[x] # "cvwait"
        BY <1>5, <2>2 DEF Wakeup, TypeOK
      <3> QED BY <1>1, <1>5, <3>1, <3>2 DEF WakeupShape, Asleep
    <2> QED BY <2>1, <2>2
  <1>6. CASE x # arg[th] /\ x # th
    <2>1. pc'[x] = pc[x] /\ evfd'[x] = evfd[x]
      <3>1. \/ evfd' = [evfd EXCEPT ![arg[th]] = TRUE]
            \/ UNCHANGED evfd
        BY DEF Wakeup
      <3> QED BY <1>1, <1>6, <3>1 DEF WakeupShape, TypeOK
    <2>2. \A y \in Threads : pc[y] = "wakeup" /\ arg[y] = x => pc'[y] = "wakeup"
      BY <1>1, <1>6 DEF WakeupShape
    <2>3. WillWake(x) => WillWake(x)'
      BY <1>3, <2>1, <2>2 DEF WillWake
    <2> QED BY <1>3, <2>1, <2>3 DEF Asleep
  <1> QED BY <1>4, <1>5, <1>6

\* No step lets a thread sleep on a task that was made ready.
LEMMA AsleepStep ==
    ASSUME TypeOK, Inv, NoLostWakeup, NEW th \in Threads, NEW x \in Threads,
           TaskStep(th) \/ LibraryStep(th) \/ OutsideStep(th)
    PROVE  Asleep(x)'
  <1>a. Asleep(x) /\ Asleep(th)
    BY DEF NoLostWakeup, Asleep
  <1>t. /\ DOMAIN pc = Threads /\ DOMAIN arg = Threads /\ DOMAIN readyq = Threads
        /\ DOMAIN dirtyq = Threads /\ DOMAIN io = Threads
    BY DEF TypeOK
  <1>u. ASSUME Undisturbed(th), pc'[th] \notin {"block", "cvwait", "iowait"}
        PROVE  Asleep(x)'
    <2>1. CASE x = th
      BY <1>u, <2>1 DEF Asleep
    <2>2. CASE x # th
      BY <1>a, <1>u, <2>2, UndisturbedSleep
    <2> QED BY <2>1, <2>2
  <1>q. Requeues(th) =>
           \A y \in Threads \ {th} : readyq'[y] = readyq[y] /\ dirtyq'[y] = dirtyq[y]
    BY RequeuesOwn
  <1>i. Polls(th) => \A y \in Threads \ {th} : io'[y] = io[y]
    BY <1>t DEF Polls
  <1>1. CASE Roams(th)
    <2>1. PICK p \in InSchedule : RoamsTo(th, p)
      BY <1>1 DEF Roams
    <2>2. pc[th] # "wakeup" /\ UNCHANGED <<arg, io>>
      BY <1>1 DEF Roams, InSchedule
    <2>3. Undisturbed(th)
      BY <1>1, <1>q, <2>1, <2>2 DEF Roams, RoamsTo, Moves, Undisturbed
    <2>4. CASE x # th
      BY <1>a, <2>3, <2>4, UndisturbedSleep
    <2>5. CASE x = th /\ p = "block"
      BY <2>1, <2>5 DEF RoamsTo, Moves, Asleep, queueVars
    <2>6. CASE x = th /\ p \in {"cvwait", "iowait"}
      <3>1. pc[th] = "block" /\ UNCHANGED <<readyq, dirtyq, evfd>>
        BY <2>1, <2>6 DEF RoamsTo, queueVars
      <3>2. WillWake(th) => WillWake(th)'
        BY <2>2, <2>3, <3>1 DEF Undisturbed, WillWake
      <3> QED BY <1>a, <2>6, <3>1, <3>2 DEF Asleep
    <2>7. CASE x = th /\ p \notin {"block", "cvwait", "iowait"}
      BY <2>1, <2>7 DEF RoamsTo, Moves, Asleep
    <2> QED BY <2>4, <2>5, <2>6, <2>7
  <1>2. CASE Stays(th)
    <2>1. Undisturbed(th)
      BY <1>2, <1>q, <1>i DEF Stays, Undisturbed, argVars
    <2>2. pc'[th] \notin {"block", "cvwait", "iowait"}
      BY <1>2 DEF Stays, InSchedule
    <2> QED BY <1>u, <2>1, <2>2
  <1>3. CASE Blocks(th)
    <2>1. Undisturbed(th)
      BY <1>3, <1>q, <1>i DEF Blocks, Moves, Undisturbed, argVars
    <2>2. pc'[th] \notin {"block", "cvwait", "iowait"}
      BY <1>3 DEF Blocks, Moves
    <2> QED BY <1>u, <2>1, <2>2
  <1>4. CASE GoesOn(th)
    BY <1>4, <1>u DEF GoesOn, Moves, Undisturbed, argVars, queueVars
  <1>5. CASE CallsReady(th)
    BY <1>5, <1>t, <1>u DEF CallsReady, CallReady, Goto, Undisturbed, queueVars
  <1>6. ASSUME NEW t \in UserTasks, Spawn(th, t) PROVE Asleep(x)'
    <2>1. Undisturbed(th)
      BY <1>6, <1>t DEF Spawn, MayCall, Undisturbed, argVars
    <2> QED BY <1>6, <1>u, <2>1 DEF Spawn, MayCall
  <1>7. CASE Shutdown(th) \/ CancelScheduler(th)
    <2>1. Undisturbed(th) /\ pc'[th] \in {"cancel_all", "wakeup"}
      BY <1>7, <1>t
         DEF Shutdown, CancelScheduler, MayCall, Goto, Undisturbed, queueVars, schedVars
    <2> QED BY <1>u, <2>1
  <1>8. CASE Finish(th)
    <2>1. /\ pc[th] # "wakeup" /\ pc'[th] \in {"remove", "ready"}
          /\ UNCHANGED <<queueVars, schedVars>>
          /\ \A y \in Threads \ {th} : pc'[y] = pc[y] /\ arg'[y] = arg[y]
      BY <1>8, <1>t DEF Finish, MayCall, CallReady, Goto
    <2>2. Undisturbed(th)
      BY <2>1 DEF Undisturbed, queueVars, schedVars
    <2> QED BY <1>u, <2>1, <2>2
  <1>9. CASE Ready(th)
    <2>1. /\ pc[th] = "ready" /\ UNCHANGED <<arg, dirtyq, io, evfd>>
          /\ Goto(th, "push") \/ Goto(th, ret[th])
          /\ readyq' = [readyq EXCEPT ![th] = Append(@, arg[th])] \/ UNCHANGED readyq
      BY <1>9 DEF Ready, argVars, schedVars
    <2>2. Undisturbed(th)
      BY <1>t, <2>1 DEF Goto, Undisturbed
    <2>3. pc'[th] \notin {"block", "cvwait", "iowait"}
      BY <1>t, <2>1 DEF Goto, TypeOK
    <2> QED BY <1>u, <2>2, <2>3
  <1>10. CASE PushDirty(th)
    <2>1. /\ pc'[th] = "wakeup" /\ arg'[th] = home[arg[th]] /\ pc[th] = "push"
          /\ UNCHANGED <<readyq, io, evfd>>
          /\ \A y \in Threads \ {th} : pc'[y] = pc[y] /\ arg'[y] = arg[y]
      BY <1>10, <1>t DEF PushDirty, Goto, schedVars
    <2>2. x # home[arg[th]] => dirtyq'[x] = dirtyq[x]
      BY <1>10, <1>t DEF PushDirty
    <2>3. CASE x = home[arg[th]]
      BY <1>a, <2>1, <2>3 DEF Asleep, WillWake
    <2>4. CASE x # home[arg[th]]
      <3>1. WillWake(x) => WillWake(x)'
        BY <2>1 DEF WillWake
      <3> QED BY <1>a, <2>1, <2>2, <2>4, <3>1 DEF Asleep
    <2> QED BY <2>3, <2>4
  <1>11. CASE Wakeup(th)
    BY <1>11, <1>a, WakeupSleep
  <1>12. CASE Remove(th) \/ RemoveErase(th)
    <2>1. /\ pc[th] \in {"remove", "spin"} /\ pc'[th] \in {"schedule", "spin"}
          /\ \A y \in Threads \ {th} : pc'[y] = pc[y]
      BY <1>12, <1>t DEF Remove, RemoveErase, Discard, Goto
    <2>2. /\ UNCHANGED <<arg, dirtyq, io, evfd>>
          /\ \A y \in Threads \ {th} : readyq'[y] = readyq[y]
      BY <1>12, <1>t DEF Remove, RemoveErase, argVars
    <2> QED BY <1>u, <2>1, <2>2 DEF Undisturbed
  <1>13. CASE SwitchTo(th)
    <2>1. SwitchShape(th, Head(readyq[th]))
      BY <1>13, SwitchPlaces
    <2>2. /\ pc[th] = "pop" /\ UNCHANGED <<arg, dirtyq, io, evfd>>
          /\ \A y \in Threads \ {th} : readyq'[y] = readyq[y]
      BY <1>13, <1>t DEF SwitchTo, argVars
    <2> QED BY <1>u, <2>1, <2>2 DEF SwitchShape, Undisturbed
  <1> QED BY <1>1, <1>2, <1>3, <1>4, <1>5, <1>6, <1>7, <1>8, <1>9, <1>10, <1>11, <1>12, <1>13,
             KindStep DEF OfKind
-----------------------------------------------------------------------------
(* No interrupted sleeper: what NoInterruptedSleeper says of one task. *)

Interruptible(x) == state[x] \in Cancelable /\ Throws(x) =>
                        ready[x] \/ \E th \in Threads : pc[th] = "ready" /\ arg[th] = x

\* A step that interrupts a task makes it ready, or is the start of a call of ready.
Interrupts(th) ==
    \A t \in Tasks : canceled'[t] \/ exception'[t] =>
        canceled[t] \/ exception[t] \/ ready'[t] \/ (pc'[th] = "ready" /\ arg'[th] = t)

\* Every step that sets _canceled or _exception of a task also wakes it.
LEMMA FlagStep ==
    ASSUME TypeOK, Inv, NEW th \in Threads,
           TaskStep(th) \/ LibraryStep(th) \/ OutsideStep(th)
    PROVE  Interrupts(th)
  <1>t. /\ canceled \in [Tasks -> BOOLEAN] /\ exception \in [Tasks -> BOOLEAN]
        /\ ready \in [Tasks -> BOOLEAN] /\ current[th] \in Tasks
        /\ DOMAIN pc = Threads /\ DOMAIN arg = Threads
    BY DEF TypeOK
  <1>u. UNCHANGED flagVars => Interrupts(th)
    BY DEF Interrupts, flagVars
  <1>e. ASSUME NEW t \in Tasks, TakeException(t), UNCHANGED canceled PROVE Interrupts(th)
    <2>1. \A y \in Tasks : exception'[y] => exception[y]
      BY <1>e, <1>t DEF TakeException
    <2> QED BY <1>e, <2>1 DEF Interrupts
  <1>1. CASE Yield(th) \/ Swap(th) \/ SleepUntil(th) \/ Poll(th)
    <2>1. TakeException(current[th]) /\ UNCHANGED canceled
      BY <1>1 DEF Yield, Swap, SleepUntil, Poll, CheckedSuspend
    <2> QED BY <1>e, <1>t, <2>1
  <1>2. CASE SwitchTo(th)
    <2>1. SwitchShape(th, Head(readyq[th])) /\ UNCHANGED canceled
      BY <1>2, SwitchPlaces DEF SwitchTo
    <2>2. TakeException(Head(readyq[th])) \/ UNCHANGED <<exception, interrupted>>
      BY <1>2 DEF SwitchTo
    <2>3. Head(readyq[th]) \in Tasks
      BY <2>1 DEF SwitchShape
    <2> QED BY <1>e, <1>u, <2>1, <2>2, <2>3 DEF flagVars
  <1>3. ASSUME NEW t \in UserTasks, Cancel(th, t) PROVE Interrupts(th)
    <2>1. /\ canceled' = [canceled EXCEPT ![t] = TRUE] /\ UNCHANGED exception
          /\ pc'[th] = "ready" /\ arg'[th] = t
      BY <1>3, <1>t DEF Cancel, CallReady, Goto
    <2> QED BY <1>t, <2>1 DEF Interrupts
  <1>4. CASE ShutdownCancel(th)
    <2>1. PICK t \in todo[th] : /\ canceled' = [canceled EXCEPT ![t] = TRUE]
                                /\ (canceled[t] \/ EnqueueBack(th, t))
      BY <1>4 DEF ShutdownCancel
    <2>2. canceled[t] \/ ready' = [ready EXCEPT ![t] = TRUE]
      BY <2>1 DEF EnqueueBack
    <2>3. UNCHANGED exception
      BY <1>4 DEF ShutdownCancel
    <2> QED BY <1>t, <2>1, <2>2, <2>3 DEF Interrupts
  <1>5. CASE FireAlarm(th)
    <2>1. PICK a \in AlarmsOf(th) :
             /\ (UNCHANGED exception \/ exception' = [exception EXCEPT ![a[1]] = TRUE])
             /\ EnqueueBack(th, a[1])
      BY <1>5 DEF FireAlarm
    <2>2. ready' = [ready EXCEPT ![a[1]] = TRUE]
      BY <2>1 DEF EnqueueBack
    <2>3. UNCHANGED canceled
      BY <1>5 DEF FireAlarm
    <2> QED BY <1>t, <2>1, <2>2, <2>3 DEF Interrupts
  <1>6. CASE SafeSwap(th) \/ SetDeadline(th) \/ EndDeadline(th) \/ Finish(th) \/ WaitForAll(th)
             \/ WaitForAllLoop(th) \/ Remove(th) \/ RemoveErase(th)
    <2>1. UNCHANGED flagVars
      BY <1>6 DEF SafeSwap, SetDeadline, EndDeadline, Finish, WaitForAll, WaitForAllLoop, Remove,
         RemoveErase
    <2> QED BY <1>u, <2>1
  <1>7. ASSUME NEW t \in UserTasks, Spawn(th, t) \/ Join(th, t) PROVE Interrupts(th)
    <2>1. UNCHANGED flagVars
      BY <1>7 DEF Spawn, Join
    <2> QED BY <1>u, <2>1
  <1>8. CASE UNCHANGED taskVars
    BY <1>8, <1>u DEF taskVars
  <1>9. ASSUME NEW t \in Tasks, Wake(th, t) PROVE UNCHANGED taskVars
    BY <1>9 DEF Wake
  <1>10. Shutdown(th) \/ CancelScheduler(th) \/ CancelAllDone(th) \/ Ready(th) \/ PushDirty(th)
           \/ Wakeup(th) \/ RemoveSpin(th) \/ Leave(th) => UNCHANGED taskVars
    BY DEF Shutdown, CancelScheduler, CancelAllDone, Ready, PushDirty, Wakeup, RemoveSpin,
       Leave
  <1>11. Schedule(th) \/ CheckCanceled(th) \/ ShutdownDone(th) \/ CheckDirtyQueue(th)
           \/ NoAlarmDue(th) \/ WaitCheck(th) \/ WaitBlock(th) => UNCHANGED taskVars
    BY DEF Schedule, CheckCanceled, ShutdownDone, CheckDirtyQueue, NoAlarmDue, WaitCheck,
       WaitBlock
  <1>12. EventsDone(th) \/ Woken(th) \/ CvTimeout(th) \/ IoWake(th) \/ CvSpurious(th)
           \/ IoEvent(th) => UNCHANGED taskVars
    BY DEF EventsDone, Woken, CvTimeout, IoWake, CvSpurious, IoEvent
  <1> QED BY <1>1, <1>2, <1>3, <1>4, <1>5, <1>6, <1>7, <1>8, <1>9, <1>10, <1>11, <1>12
          DEF TaskStep, LibraryStep, OutsideStep

\* No step puts an interrupted task to sleep or takes its wake-up away.
LEMMA InterruptStep ==
    ASSUME TypeOK, Inv, NoInterruptedSleeper, NEW th \in Threads, NEW x \in Tasks,
           TaskStep(th) \/ LibraryStep(th) \/ OutsideStep(th)
    PROVE  Interruptible(x)'
  <1>a. Interruptible(x) /\ current[th] \in Tasks
    BY DEF NoInterruptedSleeper, Interruptible, TypeOK
  <1>t. /\ DOMAIN pc = Threads /\ DOMAIN arg = Threads /\ DOMAIN state = Tasks
        /\ ready \in [Tasks -> BOOLEAN]
    BY DEF TypeOK
  <1>i. canceled'[x] \/ exception'[x] =>
          canceled[x] \/ exception[x] \/ ready'[x] \/ (pc'[th] = "ready" /\ arg'[th] = x)
    BY FlagStep DEF Interrupts
  <1>k. ASSUME state'[x] \in Cancelable => state[x] \in Cancelable, ready[x] => ready'[x],
               \A y \in Threads : pc[y] = "ready" /\ arg[y] = x =>
                   ready'[x] \/ (pc'[y] = "ready" /\ arg'[y] = x)
        PROVE  Interruptible(x)'
    BY <1>a, <1>i, <1>k DEF Interruptible, Throws
  <1>q. Requeues(th) => (ready[x] => ready'[x])
    BY <1>t, RequeuesReadies DEF Readies
  <1>1. CASE Roams(th)
    <2>1. \A y \in Threads : pc[y] = "ready" => pc'[y] = "ready"
      BY <1>1 DEF Roams, RoamsTo, Moves, InSchedule
    <2> QED BY <1>1, <1>k, <1>q, <2>1 DEF Roams
  <1>2. CASE Stays(th)
    BY <1>2, <1>k, <1>q DEF Stays, argVars
  <1>3. CASE Blocks(th)
    <2>1. PICK how \in Suspended \ {"new"} :
             /\ state' = [state EXCEPT ![current[th]] = how]
             /\ how \in Cancelable => ~(canceled'[current[th]] \/ exception'[current[th]])
      BY <1>3 DEF Blocks
    <2>2. /\ ready[x] => ready'[x]
          /\ \A y \in Threads : pc[y] = "ready" /\ arg[y] = x => pc'[y] = "ready" /\ arg'[y] = x
      BY <1>3, <1>q DEF Blocks, Moves, argVars
    <2>3. CASE x = current[th]
      BY <1>t, <2>1, <2>3 DEF Interruptible, Throws
    <2>4. CASE x # current[th]
      BY <1>k, <1>t, <2>1, <2>2, <2>4
    <2> QED BY <2>3, <2>4
  <1>4. CASE GoesOn(th)
    BY <1>4, <1>k DEF GoesOn, Moves, argVars, queueVars
  <1>5. CASE CallsReady(th)
    BY <1>5, <1>k, <1>t DEF CallsReady, CallReady, Goto, queueVars
  <1>6. ASSUME NEW t \in UserTasks, Spawn(th, t) PROVE Interruptible(x)'
    <2>1. /\ state' = [state EXCEPT ![t] = "new"] /\ UNCHANGED <<pc, arg>>
          /\ ready' = [ready EXCEPT ![t] = TRUE]
      BY <1>6 DEF Spawn, argVars
    <2>2. ready[x] => ready'[x]
      BY <1>t, <2>1
    <2> QED BY <1>k, <1>t, <2>1, <2>2 DEF Cancelable
  <1>7. CASE Shutdown(th) \/ CancelScheduler(th) \/ PushDirty(th)
    <2>1. UNCHANGED <<state, ready>>
      BY <1>7 DEF Shutdown, CancelScheduler, PushDirty, queueVars, taskVars
    <2>2. \A y \in Threads : pc[y] = "ready" => pc'[y] = "ready" /\ arg'[y] = arg[y]
      BY <1>7, <1>t DEF Shutdown, CancelScheduler, PushDirty, MayCall, Goto
    <2> QED BY <1>k, <2>1, <2>2
  <1>8. CASE Finish(th)
    <2>1. /\ pc[th] # "ready"
          /\ \A y \in Threads \ {th} : pc'[y] = pc[y] /\ arg'[y] = arg[y]
      BY <1>8, <1>t DEF Finish, MayCall, CallReady, Goto
    <2>2. state' = [state EXCEPT ![current[th]] = "finished"] /\ UNCHANGED ready
      BY <1>8 DEF Finish, queueVars
    <2> QED BY <1>k, <1>t, <2>1, <2>2 DEF Cancelable
  <1>9. CASE Ready(th)
    <2>1. /\ ready' = [ready EXCEPT ![arg[th]] = TRUE] /\ UNCHANGED <<arg, state>>
          /\ \A y \in Threads \ {th} : pc'[y] = pc[y]
      BY <1>9, <1>t DEF Ready, Goto, argVars, taskVars
    <2>2. ready[x] \/ x = arg[th] => ready'[x]
      BY <1>t, <2>1
    <2> QED BY <1>k, <2>1, <2>2
  <1>10. CASE Wakeup(th)
    <2>1. WakeupShape(th)
      BY <1>10, WakeupPlaces
    <2>2. pc[th] = "wakeup" /\ UNCHANGED <<arg, ready, state>>
      BY <1>10 DEF Wakeup, argVars, queueVars, taskVars
    <2> QED BY <1>k, <2>1, <2>2 DEF WakeupShape
  <1>11. CASE Remove(th) \/ RemoveErase(th)
    <2>1. /\ pc[th] \in {"remove", "spin"} /\ UNCHANGED arg
          /\ \A y \in Threads \ {th} : pc'[y] = pc[y]
      BY <1>11, <1>t DEF Remove, RemoveErase, Discard, Goto, argVars
    <2>2. ready' = [ready EXCEPT ![current[th]] = TRUE] \/ UNCHANGED ready
      BY <1>11 DEF Remove, RemoveErase
    <2>3. state' = [state EXCEPT ![current[th]] = "gone"] \/ UNCHANGED state
      BY <1>11 DEF Remove, RemoveErase, Discard
    <2>4. ready[x] => ready'[x]
      BY <1>t, <2>2
    <2> QED BY <1>k, <1>t, <2>1, <2>3, <2>4 DEF Cancelable
  <1>12. CASE SwitchTo(th)
    <2>1. SwitchShape(th, Head(readyq[th]))
      BY <1>12, SwitchPlaces
    <2>2. /\ pc[th] = "pop" /\ UNCHANGED arg
          /\ state' = [state EXCEPT ![Head(readyq[th])] = "run"]
          /\ ready' = [ready EXCEPT ![Head(readyq[th])] = FALSE]
      BY <1>12 DEF SwitchTo, argVars
    <2>3. \A y \in Threads : pc[y] = "ready" => pc'[y] = "ready"
      BY <2>1, <2>2 DEF SwitchShape
    <2>4. CASE x = Head(readyq[th])
      BY <1>t, <2>2, <2>4 DEF Interruptible, Cancelable
    <2>5. CASE x # Head(readyq[th])
      <3>1. state'[x] = state[x] /\ ready'[x] = ready[x]
        BY <1>t, <2>2, <2>5
      <3> QED BY <1>k, <2>2, <2>3, <3>1
    <2> QED BY <2>4, <2>5
  <1> QED BY <1>1, <1>2, <1>3, <1>4, <1>5, <1>6, <1>7, <1>8, <1>9, <1>10, <1>11, <1>12, KindStep
             DEF OfKind
-----------------------------------------------------------------------------
(* The theorems. *)

\* A program starts with its threads in their OS tasks and nothing else.
LEMMA InitInv ==
    ASSUME Init
    PROVE  Inv /\ NoLostWakeup /\ NoInterruptedSleeper
  <1>1. <<>> \in Seq(Tasks) /\ Range(<<>>) = {} /\ IsInjective(<<>>)
    BY EmptyLemma
  <1>2. TypeOK
    <2>1. pc \in [Threads -> Places]
      BY DEF Init, Places
    <2>2. ArgTypes
      BY DEF Init, ArgTypes
    <2>3. QueueTypes
      BY <1>1 DEF Init, QueueTypes
    <2>4. ListTypes
      BY TaskSets DEF Init, ListTypes
    <2>5. StopTypes /\ io \in [Threads -> BOOLEAN] /\ evfd \in [Threads -> BOOLEAN]
      BY DEF Init, StopTypes
    <2>6. home \in [Tasks -> Threads \cup {None}] /\ state \in [Tasks -> States]
      BY DEF Init, States
    <2>7. FlagTypes /\ WaitTypes
      BY DEF Init, FlagTypes, WaitTypes
    <2> QED BY <2>1, <2>2, <2>3, <2>4, <2>5, <2>6, <2>7, TypeGroups
            DEF Types, SchedTypes, TaskTypes
  <1>3. ASSUME NEW th \in Threads PROVE ThreadOK(th) /\ ListOK(th)
    <2>1. /\ pc[th] = "run" /\ current[th] = th /\ user_tasks[th] = {}
          /\ home[th] = th /\ state[th] = "run"
      BY TaskSets DEF Init
    <2> QED BY <2>1 DEF ThreadOK, ListOK, Ending, InSchedule
  <1>4. ASSUME NEW t \in Tasks PROVE TaskOK(t) /\ WaitOK(t)
    <2>1. /\ ~ready[t] /\ joiner[t] = None /\ deadlines = {} /\ alarms = {}
          /\ t \in Threads => home[t] = t /\ state[t] = "run" /\ current[t] = t /\ pc[t] = "run"
          /\ t \notin Threads => home[t] = None /\ state[t] = "unborn"
      BY DEF Init
    <2>2. t # None
      BY TaskSets
    <2>3. TaskOK(t)
      BY <2>1, <2>2 DEF TaskOK, Ended, InSchedule
    <2>4. WaitOK(t)
      BY <2>1 DEF WaitOK
    <2> QED BY <2>3, <2>4
  <1>5. \A th \in Threads : QueuesOK(th) /\ PushOK(th)
    BY <1>1 DEF Init, QueuesOK, PushOK, Queued
  <1>6. \A t \in Tasks : TokenOK(t)
    BY DEF Init, TokenOK
  <1>7. NoLostWakeup
    BY DEF Init, NoLostWakeup
  <1>8. NoInterruptedSleeper
    BY DEF Init, NoInterruptedSleeper, Cancelable
  <1> QED BY <1>2, <1>3, <1>4, <1>5, <1>6, <1>7, <1>8 DEF Inv, OneToken

\* The invariant is inductive.
LEMMA InvStep ==
    ASSUME Inv, [Next]_vars
    PROVE  Inv'
  <1>1. CASE UNCHANGED vars
    <2>1. /\ UNCHANGED <<pc, argVars, queueVars, listVars, home, state>>
          /\ UNCHANGED <<waitVars, io>> /\ UNCHANGED taskVars /\ UNCHANGED schedVars
      BY <1>1 DEF vars, schedVars, taskVars
    <2>2. TypeOK'
      <3>1. Types
        BY TypeGroups DEF Inv
      <3> QED BY <1>1, <3>1, TypeFrames, TypeGroups DEF Types, vars
    <2>3. ASSUME NEW x \in Threads PROVE ThreadOK(x)' /\ ListOK(x)'
      <3>1. ThreadOK(x) /\ ListOK(x)
        BY DEF Inv
      <3>2. ThreadOK(x)'
        BY <2>1, <3>1 DEF ThreadOK, Ending, argVars, listVars
      <3>3. ListOK(x)'
        BY <2>1, <3>1 DEF ListOK, argVars, listVars
      <3> QED BY <3>2, <3>3
    <2>4. ASSUME NEW x \in Tasks PROVE TaskOK(x)' /\ WaitOK(x)'
      <3>1. TaskOK(x) /\ WaitOK(x)
        BY DEF Inv
      <3>2. TaskOK(x)'
        BY <2>1, <3>1 DEF TaskOK, queueVars, listVars
      <3>3. WaitOK(x)'
        BY <2>1, <3>1 DEF WaitOK, waitVars
      <3> QED BY <3>2, <3>3
    <2>5. TokensStay
      BY <2>1 DEF TokensStay, argVars
    <2>6. OneToken'
      BY <2>1, <2>5, TokenFrame
    <2> QED BY <2>2, <2>3, <2>4, <2>6 DEF Inv
  <1>2. ASSUME NEW th \in Threads, TaskStep(th) \/ LibraryStep(th) \/ OutsideStep(th)
        PROVE  Inv'
    <2>1. TypeOK
      BY DEF Inv
    <2> QED BY <1>2, <2>1, TypeStep, ThreadStep, ListStep, LifeStep, WaitStep, TokenStep DEF Inv
  <1> QED BY <1>1, <1>2 DEF Next

\* Every state that the task system reaches satisfies the invariant.
THEOREM Invariance == Spec => []Inv
  <1>1. Init => Inv
    BY InitInv
  <1>2. Inv /\ [Next]_vars => Inv'
    BY InvStep
  <1> QED BY <1>1, <1>2, PTL DEF Spec

\* Every variable of the task system keeps its type.
THEOREM TypeCorrect == Spec => []TypeOK
  <1>1. Inv => TypeOK
    BY DEF Inv
  <1> QED BY <1>1, Invariance, PTL

\* _ready of a task stands for one place in one queue, whatever threads wake,
\* cancel, time out or remove it at the same time.
THEOREM TokenSafety == Spec => []OneToken
  <1>1. Inv => OneToken
    BY DEF Inv
  <1> QED BY <1>1, Invariance, PTL

\* No scheduler sleeps on a task that another thread made ready.
THEOREM WakeupSafety == Spec => []NoLostWakeup
  <1>1. Init => NoLostWakeup
    BY InitInv
  <1>2. Inv /\ NoLostWakeup /\ [Next]_vars => NoLostWakeup'
    <2> SUFFICES ASSUME Inv, NoLostWakeup, [Next]_vars PROVE NoLostWakeup'
      OBVIOUS
    <2>1. CASE UNCHANGED vars
      BY <2>1 DEF NoLostWakeup, WillWake, vars, argVars, queueVars, schedVars
    <2>2. ASSUME NEW th \in Threads, TaskStep(th) \/ LibraryStep(th) \/ OutsideStep(th)
          PROVE  NoLostWakeup'
      <3>1. TypeOK
        BY DEF Inv
      <3>2. \A x \in Threads : Asleep(x)'
        BY <2>2, <3>1, AsleepStep
      <3> QED BY <3>2 DEF Asleep, NoLostWakeup
    <2> QED BY <2>1, <2>2 DEF Next
  <1> QED BY <1>1, <1>2, Invariance, PTL DEF Spec

\* A task that was canceled or whose deadline has passed does not sleep on.
THEOREM InterruptSafety == Spec => []NoInterruptedSleeper
  <1>1. Init => NoInterruptedSleeper
    BY InitInv
  <1>2. Inv /\ NoInterruptedSleeper /\ [Next]_vars => NoInterruptedSleeper'
    <2> SUFFICES ASSUME Inv, NoInterruptedSleeper, [Next]_vars PROVE NoInterruptedSleeper'
      OBVIOUS
    <2>1. CASE UNCHANGED vars
      BY <2>1 DEF NoInterruptedSleeper, Throws, vars, argVars, queueVars, taskVars,
         flagVars
    <2>2. ASSUME NEW th \in Threads, TaskStep(th) \/ LibraryStep(th) \/ OutsideStep(th)
          PROVE  NoInterruptedSleeper'
      <3>1. TypeOK
        BY DEF Inv
      <3>2. \A x \in Tasks : Interruptible(x)'
        BY <2>2, <3>1, InterruptStep
      <3> QED BY <3>2 DEF Interruptible, NoInterruptedSleeper, Throws
    <2> QED BY <2>1, <2>2 DEF Next
  <1> QED BY <1>1, <1>2, Invariance, PTL DEF Spec

\* The scheduler follows no pointer to a task that it has freed.
THEOREM MemorySafety == Spec => []NoUseAfterFree
  <1>1. Inv => NoUseAfterFree
    <2> SUFFICES ASSUME Inv PROVE NoUseAfterFree
      OBVIOUS
    <2>1. ASSUME NEW th \in Threads, state[current[th]] = "gone"
          PROVE  pc[th] \in InSchedule /\ current[th] \in gctasks[th]
      BY <2>1 DEF Inv, ThreadOK, ListOK
    <2>2. \A th \in Threads : \A t \in user_tasks[th] : state[t] \notin {"gone", "unborn"}
      BY DEF Inv, ListOK
    <2>3. ASSUME NEW e \in alarms PROVE state[e[1]] \notin Ended \cup {"unborn"}
      <3>1. e[1] \in Tasks /\ (e = Timer(e[1]) \/ e = Deadline(e[1]))
        BY SMTT(30) DEF Inv, TypeOK, Timer, Deadline
      <3> QED BY <3>1 DEF Inv, WaitOK, Ended
    <2> QED BY <2>1, <2>2, <2>3 DEF NoUseAfterFree
  <1> QED BY <1>1, Invariance, PTL

\* A thread ends only when all its tasks are gone, so that the CHECK in ~scheduler
\* holds, and the main thread ends after every other one.
THEOREM LeavesLast == Spec => []MainLeavesLast
  <1>1. Init => LeaveInv
    <2> SUFFICES ASSUME Init PROVE LeaveInv
      OBVIOUS
    <2>1. \A th \in Threads : pc[th] = "run"
      BY DEF Init
    <2>2. \A t \in UserTasks : home[t] = None
      BY TaskSets DEF Init
    <2>3. None \notin Threads /\ MainThread \in Threads
      BY SchedulerAssumption DEF Tasks
    <2> QED BY <2>1, <2>2, <2>3 DEF LeaveInv, LeaveOK
  <1>2. Inv /\ LeaveInv /\ [Next]_vars => LeaveInv'
    <2> SUFFICES ASSUME Inv, LeaveInv, [Next]_vars PROVE LeaveInv'
      OBVIOUS
    <2>1. CASE UNCHANGED vars
      <3>1. UNCHANGED <<pc, user_tasks, home, state>>
        BY <2>1 DEF vars, schedVars, listVars, taskVars
      <3> QED BY <3>1 DEF LeaveInv, LeaveOK, ListedThreads
    <2>2. ASSUME NEW th \in Threads, TaskStep(th) \/ LibraryStep(th) \/ OutsideStep(th)
          PROVE  LeaveInv'
      <3>1. TypeOK
        BY DEF Inv
      <3> QED BY <2>2, <3>1, LeaveStep
    <2> QED BY <2>1, <2>2 DEF Next
  <1>3. Inv /\ LeaveInv => MainLeavesLast
    <2> SUFFICES ASSUME Inv, LeaveInv, NEW th \in Threads, pc[th] = "exited"
                 PROVE  /\ user_tasks[th] = {} /\ Queued(th) \subseteq {th}
                        /\ th = MainThread => ListedThreads = {}
      BY DEF MainLeavesLast
    <2>1. user_tasks[th] = {} /\ \A t \in UserTasks : home[t] = th => state[t] = "gone"
      BY DEF LeaveInv, LeaveOK
    <2>2. ASSUME NEW t \in Queued(th) PROVE t = th
      <3>1. t \in Tasks
        BY TokenTypes
      <3>2. home[t] = th /\ state[t] # "gone"
        BY DEF Inv, OneToken, QueuesOK
      <3>3. t \in Threads => home[t] = t
        BY <3>1 DEF Inv, TaskOK
      <3> QED BY <2>1, <3>1, <3>2, <3>3 DEF Tasks
    <2> QED BY <2>1, <2>2 DEF LeaveInv
  <1> QED BY <1>1, <1>2, <1>3, Invariance, PTL DEF Spec
-----------------------------------------------------------------------------
(* The scheduler implements Park, step by step. *)

\* The token of a task, as the mapping to Park sees it.
Token(t) == ready[t] /\ state[t] # "gone"

\* What a step does to the state and to the token of task t in Park.
SameLife(t)  == ParkState(t)' = ParkState(t)
SameToken(t) == Token(t)' <=> Token(t)

\* Neither the life nor the token of a task changes: Park stutters.
LEMMA ParkStutters ==
    ASSUME UNCHANGED home, \A y \in Tasks : SameLife(y) /\ SameToken(y)
    PROVE  UNCHANGED Tokens!vars
  <1>1. [y \in Tasks |-> ParkState(y)]' = [y \in Tasks |-> ParkState(y)]
    BY DEF SameLife
  <1>2. [y \in Tasks |-> Token(y)]' = [y \in Tasks |-> Token(y)]
    BY DEF SameToken, Token
  <1> QED BY <1>1, <1>2 DEF Tokens!vars, Token

\* The life of one task changes.
LEMMA LifeOf ==
    ASSUME NEW x \in Tasks, NEW p, ParkState(x)' = p, \A y \in Tasks \ {x} : SameLife(y)
    PROVE  [y \in Tasks |-> ParkState(y)]' = [[y \in Tasks |-> ParkState(y)] EXCEPT ![x] = p]
  BY DEF SameLife

\* The token of one task changes.
LEMMA TokenOf ==
    ASSUME NEW x \in Tasks, NEW b \in BOOLEAN, Token(x)' = b, \A y \in Tasks \ {x} : SameToken(y)
    PROVE  [y \in Tasks |-> Token(y)]' = [[y \in Tasks |-> Token(y)] EXCEPT ![x] = b]
  BY DEF SameToken, Token

\* A task gets its token: ready().
LEMMA ParkReady ==
    ASSUME NEW x \in Tasks, UNCHANGED home, \A y \in Tasks : SameLife(y),
           ParkState(x) \in {"active", "parked"}, Token(x)',
           \A y \in Tasks \ {x} : SameToken(y)
    PROVE  Tokens!Ready(x)
  <1>1. [y \in Tasks |-> ParkState(y)]' = [y \in Tasks |-> ParkState(y)]
    BY DEF SameLife
  <1>2. Token(x)' = TRUE
    BY DEF Token
  <1>3. [y \in Tasks |-> Token(y)]' = [[y \in Tasks |-> Token(y)] EXCEPT ![x] = TRUE]
    BY <1>2, TokenOf
  <1> QED BY <1>1, <1>3 DEF Tokens!Ready, Token

\* A task blocks, in yield() with its token.
LEMMA ParkSuspend ==
    ASSUME NEW x \in Tasks, UNCHANGED home, ParkState(x) = "active", ParkState(x)' = "parked",
           \A y \in Tasks \ {x} : SameLife(y) /\ SameToken(y), SameToken(x) \/ Token(x)'
    PROVE  Tokens!Suspend(x)
  <1>1. [y \in Tasks |-> ParkState(y)]' = [[y \in Tasks |-> ParkState(y)] EXCEPT ![x] = "parked"]
    BY LifeOf
  <1>2. CASE SameToken(x)
    <2>1. [y \in Tasks |-> Token(y)]' = [y \in Tasks |-> Token(y)]
      BY <1>2 DEF SameToken, Token
    <2> QED BY <1>1, <2>1 DEF Tokens!Suspend, Token
  <1>3. CASE Token(x)'
    <2>1. [y \in Tasks |-> Token(y)]' = [[y \in Tasks |-> Token(y)] EXCEPT ![x] = TRUE]
      BY <1>3, TokenOf DEF Token
    <2> QED BY <1>1, <2>1 DEF Tokens!Suspend, Token
  <1> QED BY <1>2, <1>3

\* A thread switches to a task, which gives its token back.
LEMMA ParkResume ==
    ASSUME NEW x \in Tasks, UNCHANGED home, ParkState(x) = "parked", ParkState(x)' = "active",
           Token(x), ~Token(x)', \A y \in Tasks \ {x} : SameLife(y) /\ SameToken(y),
           \A y \in Tasks : home[y] = home[x] => ParkState(y) # "active"
    PROVE  Tokens!Resume(x)
  <1>1. [y \in Tasks |-> ParkState(y)]' = [[y \in Tasks |-> ParkState(y)] EXCEPT ![x] = "active"]
    BY LifeOf
  <1>2. [y \in Tasks |-> Token(y)]' = [[y \in Tasks |-> Token(y)] EXCEPT ![x] = FALSE]
    BY TokenOf DEF Token
  <1>3. Tokens!Active(home[x]) = {}
    BY DEF Tokens!Active
  <1> QED BY <1>1, <1>2, <1>3 DEF Tokens!Resume, Token

\* A task is removed, with its token.
LEMMA ParkExit ==
    ASSUME NEW x \in Tasks, UNCHANGED home, ParkState(x) = "active", ParkState(x)' = "gone",
           ~Token(x)', \A y \in Tasks \ {x} : SameLife(y) /\ SameToken(y)
    PROVE  Tokens!Exit(x)
  <1>1. [y \in Tasks |-> ParkState(y)]' = [[y \in Tasks |-> ParkState(y)] EXCEPT ![x] = "gone"]
    BY LifeOf
  <1>2. [y \in Tasks |-> Token(y)]' = [[y \in Tasks |-> Token(y)] EXCEPT ![x] = FALSE]
    BY TokenOf DEF Token
  <1> QED BY <1>1, <1>2 DEF Tokens!Exit, Token

\* A task is spawned, with its token.
LEMMA ParkSpawn ==
    ASSUME NEW x \in Tasks, NEW th \in Threads, home' = [home EXCEPT ![x] = th],
           ParkState(x) = "unborn", ParkState(x)' = "parked", Token(x)',
           \A y \in Tasks \ {x} : SameLife(y) /\ SameToken(y)
    PROVE  Tokens!Spawn(x, th)
  <1>1. [y \in Tasks |-> ParkState(y)]' = [[y \in Tasks |-> ParkState(y)] EXCEPT ![x] = "parked"]
    BY LifeOf
  <1>2. [y \in Tasks |-> Token(y)]' = [[y \in Tasks |-> Token(y)] EXCEPT ![x] = TRUE]
    BY TokenOf DEF Token
  <1> QED BY <1>1, <1>2 DEF Tokens!Spawn, Token

\* The lives of a task in Park.
LEMMA LifeNames ==
    ASSUME NEW y \in Tasks
    PROVE  /\ state[y] \in {"run", "finished"} => ParkState(y) = "active"
           /\ state[y] \in Suspended => ParkState(y) = "parked"
           /\ state[y] \in {"unborn", "gone"} => ParkState(y) = state[y]
           /\ state'[y] \in {"run", "finished"} => ParkState(y)' = "active"
           /\ state'[y] \in Suspended => ParkState(y)' = "parked"
           /\ state'[y] \in {"unborn", "gone"} => ParkState(y)' = state'[y]
           /\ state'[y] = state[y] => SameLife(y)
           /\ state'[y] = state[y] /\ (ready'[y] <=> ready[y]) => SameToken(y)
  BY DEF ParkState, Suspended, Cancelable, SameLife, SameToken, Token

\* A step that leaves the tasks alone.
LEMMA ParkIdle ==
    ASSUME UNCHANGED <<home, state>>, \A y \in Tasks : ready'[y] <=> ready[y]
    PROVE  UNCHANGED Tokens!vars
  <1>1. \A y \in Tasks : SameLife(y) /\ SameToken(y)
    BY LifeNames
  <1> QED BY <1>1, ParkStutters

\* A step that makes at most one task ready.
LEMMA ParkGives ==
    ASSUME TypeOK, UNCHANGED <<home, state>>, NEW t \in Tasks, state[t] \notin {"unborn", "gone"},
           ready' = [ready EXCEPT ![t] = TRUE]
    PROVE  Tokens!Next
  <1>1. /\ state[t] \in States /\ state'[t] = state[t] /\ ready'[t]
        /\ \A y \in Tasks \ {t} : ready'[y] <=> ready[y]
    BY DEF TypeOK
  <1>2. ParkState(t) \in {"active", "parked"} /\ Token(t)'
    BY <1>1, LifeNames DEF States, Ended, Token
  <1>3. /\ \A y \in Tasks : SameLife(y)
        /\ \A y \in Tasks \ {t} : SameToken(y)
    BY <1>1, LifeNames
  <1>4. Tokens!Ready(t)
    BY <1>2, <1>3, ParkReady
  <1> QED BY <1>4 DEF Tokens!Next

\* A step that only takes tasks to the queues.
LEMMA ParkRequeue ==
    ASSUME TypeOK, NEW th \in Threads, Requeues(th), UNCHANGED <<home, state>>
    PROVE  Tokens!Next \/ UNCHANGED Tokens!vars
  <1>1. CASE UNCHANGED queueVars \/ PopDirty(th)
    BY <1>1, ParkIdle DEF queueVars, PopDirty
  <1>2. CASE Enqueues(th)
    <2>1. PICK t \in Tasks : /\ state[t] \notin {"unborn", "gone"}
                             /\ ready' = [ready EXCEPT ![t] = TRUE]
      BY <1>2 DEF Enqueues, EnqueueBack
    <2> QED BY <2>1, ParkGives
  <1> QED BY <1>1, <1>2 DEF Requeues

\* The current task blocks.
LEMMA BlocksParks ==
    ASSUME TypeOK, Inv, NEW th \in Threads, Blocks(th)
    PROVE  Tokens!Next
  <1>0. PICK t : t = current[th]
    OBVIOUS
  <1>1. t \in Tasks /\ state[t] = "run"
    BY <1>0, InvAtThread DEF Blocks, ThreadOK, Ending, InSchedule
  <1>2. PICK how \in Suspended : state' = [state EXCEPT ![t] = how]
    BY <1>0 DEF Blocks
  <1>3. /\ state'[t] \in Suspended /\ \A y \in Tasks \ {t} : state'[y] = state[y]
    BY <1>1, <1>2 DEF TypeOK
  <1>4. /\ \A y \in Tasks \ {t} : ready'[y] = ready[y]
        /\ (ready'[t] = ready[t] \/ ready'[t]) /\ UNCHANGED home
    BY <1>0, <1>1, RequeuesReadies DEF Blocks, Readies
  <1>5. ParkState(t) = "active" /\ ParkState(t)' = "parked" /\ state'[t] # "gone"
    BY <1>1, <1>3, LifeNames DEF Suspended, Cancelable
  <1>6. \A y \in Tasks \ {t} : SameLife(y) /\ SameToken(y)
    BY <1>3, <1>4, LifeNames
  <1>7. SameToken(t) \/ Token(t)'
    BY <1>1, <1>4, <1>5 DEF SameToken, Token
  <1>8. Tokens!Suspend(t)
    BY <1>1, <1>4, <1>5, <1>6, <1>7, ParkSuspend
  <1> QED BY <1>1, <1>8 DEF Tokens!Next

\* The thread switches to a task: no other task of the thread is active.
LEMMA SwitchResumes ==
    ASSUME TypeOK, Inv, NEW th \in Threads, SwitchTo(th)
    PROVE  Tokens!Next
  <1>0. PICK t : t = Head(readyq[th])
    OBVIOUS
  <1>1. /\ t \in Tasks /\ home[t] = th /\ ready[t]
        /\ state[t] \notin {"unborn", "run", "finished", "gone"}
    BY <1>0, SwitchPlaces DEF SwitchShape
  <1>2. /\ state' = [state EXCEPT ![t] = "run"] /\ ready' = [ready EXCEPT ![t] = FALSE]
        /\ pc[th] \in InSchedule /\ UNCHANGED home
    BY <1>0 DEF SwitchTo, InSchedule
  <1>3. /\ state'[t] = "run" /\ ~ready'[t] /\ state[t] \in Suspended
        /\ \A y \in Tasks \ {t} : state'[y] = state[y] /\ (ready'[y] <=> ready[y])
    BY <1>1, <1>2 DEF TypeOK, States, Ended
  <1>4. ParkState(t) = "parked" /\ ParkState(t)' = "active" /\ Token(t) /\ ~Token(t)'
    BY <1>1, <1>3, LifeNames DEF Token
  <1>5. \A y \in Tasks \ {t} : SameLife(y) /\ SameToken(y)
    BY <1>3, LifeNames
  <1>6. ASSUME NEW y \in Tasks, home[y] = th PROVE ParkState(y) # "active"
    <2>1. state[y] \notin {"run", "finished"} /\ state[y] \in States
      BY <1>2, <1>6 DEF Inv, TypeOK, TaskOK
    <2> QED BY <2>1, LifeNames DEF States, Ended
  <1>7. Tokens!Resume(t)
    BY <1>1, <1>2, <1>4, <1>5, <1>6, ParkResume
  <1> QED BY <1>1, <1>7 DEF Tokens!Next

\* The current task is removed, or has to wait for a token that is on its way.
LEMMA RemoveExits ==
    ASSUME TypeOK, Inv, NEW th \in Threads, Remove(th) \/ RemoveErase(th)
    PROVE  Tokens!Next \/ UNCHANGED Tokens!vars
  <1>0. PICK t : t = current[th]
    OBVIOUS
  <1>1. t \in Tasks /\ state[t] = "finished"
    BY <1>0, InvAtThread DEF Remove, RemoveErase, ThreadOK, Ending, InSchedule
  <1>2. UNCHANGED home /\ \A y \in Tasks \ {t} : ready'[y] <=> ready[y]
    BY <1>0 DEF Remove, RemoveErase, TypeOK
  <1>3. CASE UNCHANGED state /\ ready[t] /\ ready' = [ready EXCEPT ![t] = TRUE]
    <2>1. \A y \in Tasks : ready'[y] <=> ready[y]
      BY <1>1, <1>2, <1>3 DEF TypeOK
    <2> QED BY <1>2, <1>3, <2>1, ParkIdle
  <1>4. CASE Discard(th, t)
    <2>1. state'[t] = "gone" /\ \A y \in Tasks \ {t} : state'[y] = state[y]
      BY <1>1, <1>4 DEF Discard, TypeOK
    <2>2. ParkState(t) = "active" /\ ParkState(t)' = "gone" /\ ~Token(t)'
      BY <1>1, <2>1, LifeNames DEF Token
    <2>3. \A y \in Tasks \ {t} : SameLife(y) /\ SameToken(y)
      BY <1>2, <2>1, LifeNames
    <2>4. Tokens!Exit(t)
      BY <1>1, <1>2, <2>2, <2>3, ParkExit
    <2> QED BY <1>1, <2>4 DEF Tokens!Next
  <1> QED BY <1>0, <1>3, <1>4 DEF Remove, RemoveErase

\* The current task ends: it is still the active task of its thread.
LEMMA FinishStutters ==
    ASSUME TypeOK, Inv, NEW th \in Threads, Finish(th)
    PROVE  UNCHANGED Tokens!vars
  <1>0. PICK t : t = current[th]
    OBVIOUS
  <1>1. t \in Tasks /\ state[t] = "run"
    BY <1>0, InvAtThread DEF Finish, MayCall, ThreadOK, Ending, InSchedule
  <1>2. state' = [state EXCEPT ![t] = "finished"] /\ UNCHANGED <<home, ready>>
    BY <1>0 DEF Finish, queueVars
  <1>3. state'[t] = "finished" /\ \A y \in Tasks \ {t} : state'[y] = state[y]
    BY <1>1, <1>2 DEF TypeOK
  <1>4. SameLife(t) /\ SameToken(t)
    BY <1>1, <1>2, <1>3, LifeNames DEF SameLife, SameToken, Token
  <1>5. \A y \in Tasks \ {t} : SameLife(y) /\ SameToken(y)
    BY <1>2, <1>3, LifeNames
  <1> QED BY <1>2, <1>4, <1>5, ParkStutters

\* ready() gives the token, unless the task is gone.
LEMMA ReadyGives ==
    ASSUME TypeOK, Inv, NEW th \in Threads, Ready(th)
    PROVE  Tokens!Next \/ UNCHANGED Tokens!vars
  <1>0. PICK t : t = arg[th]
    OBVIOUS
  <1>1. t \in Tasks /\ state[t] # "unborn"
    BY <1>0, InvAtThread DEF Ready, ThreadOK
  <1>2. ready' = [ready EXCEPT ![t] = TRUE] /\ UNCHANGED <<home, state>>
    BY <1>0 DEF Ready, taskVars
  <1>3. CASE state[t] # "gone"
    BY <1>1, <1>2, <1>3, ParkGives
  <1>4. CASE state[t] = "gone"
    <2>1. ready[t]
      BY <1>1, <1>4 DEF Inv, TaskOK
    <2>2. \A y \in Tasks : ready'[y] <=> ready[y]
      BY <1>1, <1>2, <2>1 DEF TypeOK
    <2> QED BY <1>2, <2>2, ParkIdle
  <1> QED BY <1>3, <1>4

\* A new task is parked with its token.
LEMMA SpawnParks ==
    ASSUME TypeOK, NEW th \in Threads, NEW t \in UserTasks, Spawn(th, t)
    PROVE  Tokens!Next
  <1>1. /\ t \in Tasks /\ state[t] = "unborn" /\ home' = [home EXCEPT ![t] = th]
        /\ state' = [state EXCEPT ![t] = "new"] /\ ready' = [ready EXCEPT ![t] = TRUE]
    BY TaskSets DEF Spawn
  <1>2. /\ state'[t] = "new" /\ ready'[t]
        /\ \A y \in Tasks \ {t} : state'[y] = state[y] /\ (ready'[y] <=> ready[y])
    BY <1>1 DEF TypeOK
  <1>3. ParkState(t) = "unborn" /\ ParkState(t)' = "parked" /\ Token(t)'
    BY <1>1, <1>2, LifeNames DEF Suspended, Token
  <1>4. \A y \in Tasks \ {t} : SameLife(y) /\ SameToken(y)
    BY <1>2, LifeNames
  <1>5. Tokens!Spawn(t, th)
    BY <1>1, <1>3, <1>4, ParkSpawn
  <1> QED BY <1>1, <1>5 DEF Tokens!Next

\* Every step of the scheduler is a step of Park or leaves it alone.
LEMMA ParkStep ==
    ASSUME TypeOK, Inv, NEW th \in Threads,
           TaskStep(th) \/ LibraryStep(th) \/ OutsideStep(th)
    PROVE  Tokens!Next \/ UNCHANGED Tokens!vars
  <1>1. CASE Roams(th) \/ Stays(th)
    BY <1>1, ParkRequeue DEF Roams, Stays
  <1>2. CASE \/ GoesOn(th) \/ CallsReady(th) \/ Shutdown(th) \/ CancelScheduler(th)
             \/ PushDirty(th) \/ Wakeup(th)
    <2>1. UNCHANGED <<home, state, ready>>
      BY <1>2 DEF GoesOn, CallsReady, Shutdown, CancelScheduler, PushDirty, Wakeup, queueVars, taskVars
    <2> QED BY <2>1, ParkIdle
  <1> QED BY <1>1, <1>2, KindStep, BlocksParks, SwitchResumes, RemoveExits, FinishStutters,
             ReadyGives, SpawnParks DEF OfKind

\* At the start the OS tasks run and the others are not born.
LEMMA ParkInit ==
    ASSUME Init
    PROVE  Tokens!Init
  <1>1. [y \in Tasks |-> ParkState(y)] = [y \in Tasks |-> IF y \in Threads THEN "active" ELSE "unborn"]
    BY DEF Init, ParkState, Suspended, Cancelable
  <1>2. [y \in Tasks |-> Token(y)] = [y \in Tasks |-> FALSE]
    BY DEF Init, Token
  <1> QED BY <1>1, <1>2 DEF Init, Tokens!Init, Token

\* The queues, the locks and the sleeping of the threads implement the wake-up tokens
\* of Park, for any number of threads and tasks: a task that blocks comes back only
\* with a token, once per token, a token given while the task still runs is kept, and
\* a thread runs one task at a time.
THEOREM ParkRefinement == Spec => ImplementsPark
  <1>1. Init => Tokens!Init
    BY ParkInit
  <1>2. Inv /\ [Next]_vars => [Tokens!Next]_Tokens!vars
    <2> SUFFICES ASSUME Inv, [Next]_vars PROVE [Tokens!Next]_Tokens!vars
      OBVIOUS
    <2>1. CASE UNCHANGED vars
      <3>1. UNCHANGED <<home, state, ready>>
        BY <2>1 DEF vars, queueVars, taskVars
      <3> QED BY <3>1, ParkIdle
    <2>2. ASSUME NEW th \in Threads, TaskStep(th) \/ LibraryStep(th) \/ OutsideStep(th)
          PROVE  Tokens!Next \/ UNCHANGED Tokens!vars
      BY <2>2, ParkStep DEF Inv
    <2> QED BY <2>1, <2>2 DEF Next
  <1> QED BY <1>1, <1>2, Invariance, PTL DEF Spec, ImplementsPark, Tokens!Spec
=============================================================================
