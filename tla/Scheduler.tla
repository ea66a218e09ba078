------------------------------ MODULE Scheduler ------------------------------
(***************************************************************************)
(* The task system of libten: one scheduler per OS thread, tasks that run  *)
(* on the thread that spawned them, and the calls one thread makes to wake *)
(* a task of another (src/scheduler.cc, src/task.cc, src/alarm.hh,         *)
(* src/deadline.cc, src/thread_context.cc).                                *)
(*                                                                         *)
(* A thread executes its current task; when the task blocks, the thread    *)
(* goes on inside scheduler::schedule() until it switches to another task. *)
(* pc[th] is the place in the library that thread th has reached; every    *)
(* atomic operation, critical section or loop iteration is one action.     *)
(* pc[th] = "run" means that the code of the current task runs: it may     *)
(* make any call that Program allows it.                                   *)
(***************************************************************************)
EXTENDS Naturals, Sequences, Functions, Queues

CONSTANTS Threads,    \* OS threads with a thread_context
          MainThread, \* the one for which kernel::is_main_thread()
          UserTasks,  \* the tasks that task::spawn may create
          None,       \* the null pointer
          Program     \* Program[t]: the calls that the code of t makes

\* The OS task of a thread (_os_task) has the name of its thread.
Tasks == UserTasks \cup Threads

Calls == {"yield", "swap", "safe_swap", "sleep", "poll", "deadline", "join",
          "cancel", "wake", "spawn", "shutdown", "exit"}

ASSUME SchedulerAssumption ==
    /\ MainThread \in Threads
    /\ UserTasks \cap Threads = {}
    /\ None \notin Tasks
    /\ Program \in [Tasks -> SUBSET Calls]

VARIABLES
    \* the thread: place, argument and return place of the call it executes,
    \* what is left of the loop it executes
    pc, arg, ret, todo,
    \* the scheduler: _current_task, _readyq, _dirtyq, _user_tasks, _gctasks
    current, readyq, dirtyq, user_tasks, gctasks,
    \* whether _io exists and whether its eventfd is readable
    io, evfd,
    \* _canceled, _shutdown_sequence_initiated, _looping
    sched_canceled, shutdown_initiated, looping,
    \* the task: _scheduler, where its code is, _ready, _canceled, _exception,
    \* whether its code has seen a task_interrupted
    home, state, ready, canceled, exception, interrupted,
    \* the tasks that hold a deadline object, the alarms of _alarms
    deadlines, alarms,
    \* the joiner of its joininfo
    joiner

argVars   == <<arg, ret, todo>>
queueVars == <<ready, readyq, dirtyq>>
listVars  == <<current, user_tasks, gctasks>>
stopVars  == <<sched_canceled, shutdown_initiated, looping>>
schedVars == <<listVars, io, evfd, stopVars>>
flagVars  == <<canceled, exception, interrupted>>
waitVars  == <<deadlines, alarms, joiner>>
taskVars  == <<home, state, flagVars, waitVars>>
vars      == <<pc, argVars, queueVars, schedVars, taskVars>>

\* Where a task is suspended inside a call that opened a cancellation_point.
Cancelable == {"yield", "swap", "sleep", "poll"}
Suspended  == Cancelable \cup {"new", "safe_swap", "join", "wait_for_all"}
\* Mutant of Ended: a task counts as finished only when it has been removed.
OnlyGone   == {"gone"}
\* The joininfo of a task in Ended says finished.
Ended      == {"finished", "gone"}
States     == Suspended \cup Ended \cup {"unborn", "run"}

InSchedule == {"schedule", "canceled", "shutdown", "dirty", "alarms", "check",
               "block", "cvwait", "iowait", "events", "woken", "pop"}
Places     == InSchedule \cup {"run", "ready", "push", "wakeup", "cancel_all",
                               "finish", "remove", "spin", "loop", "leave", "exited"}

\* Mutant of Locked: the waker does not take _mutex.
NeverLocked(th) == FALSE

\* _mutex of scheduler th is held between two steps (by th itself).
Locked(th) == pc[th] \in {"check", "block"}

\* thread_context::threads, and the thread that holds its lock in cancel_all.
ListedThreads == {th \in Threads : pc[th] # "exited"}
InCancelAll(th) ==
    pc[th] = "cancel_all" \/ (pc[th] = "wakeup" /\ ret[th] = "cancel_all")

AlarmsOf(th) == {a \in alarms : home[a[1]] = th}

Init ==
    /\ pc = [th \in Threads |-> "run"]
    /\ arg = [th \in Threads |-> None]
    /\ ret = [th \in Threads |-> "run"]
    /\ todo = [th \in Threads |-> {}]
    /\ current = [th \in Threads |-> th]
    /\ readyq = [th \in Threads |-> <<>>] /\ dirtyq = readyq
    /\ user_tasks = [th \in Threads |-> {}] /\ gctasks = user_tasks
    /\ io = [th \in Threads |-> FALSE] /\ evfd = io
    /\ sched_canceled = io /\ shutdown_initiated = io /\ looping = io
    /\ home = [t \in Tasks |-> IF t \in Threads THEN t ELSE None]
    /\ state = [t \in Tasks |-> IF t \in Threads THEN "run" ELSE "unborn"]
    /\ ready = [t \in Tasks |-> FALSE]
    /\ canceled = ready /\ exception = ready /\ interrupted = ready
    /\ deadlines = {} /\ alarms = {}
    /\ joiner = [t \in Tasks |-> None]
-----------------------------------------------------------------------------
(* What several calls share. *)

Goto(th, place) == pc' = [pc EXCEPT ![th] = place]

MayCall(th, call) == pc[th] = "run" /\ call \in Program[current[th]]

\* Mutants of EnqueueBack: the exchange is missing, or it does not set _ready.
EnqueueAlways(th, t) ==
    /\ ready' = [ready EXCEPT ![t] = TRUE]
    /\ readyq' = [readyq EXCEPT ![th] = Append(@, t)]

EnqueueUnmarked(th, t) ==
    /\ UNCHANGED ready
    /\ readyq' = IF ready[t] THEN readyq ELSE [readyq EXCEPT ![th] = Append(@, t)]

\* ready_for_io, and ready by a thread that owns the scheduler.
EnqueueBack(th, t) ==
    /\ ready' = [ready EXCEPT ![t] = TRUE]
    /\ readyq' = IF ready[t] THEN readyq ELSE [readyq EXCEPT ![th] = Append(@, t)]

\* task::impl::check_canceled while a cancellation_point is open: a canceled
\* task throws task_interrupted, every time; otherwise a pending exception is
\* taken and thrown.
Throws(t) == canceled[t] \/ exception[t]

TakeException(t) ==
    /\ exception' = [exception EXCEPT ![t] = @ /\ canceled[t]]
    /\ interrupted' = [interrupted EXCEPT ![t] = @ \/ canceled[t]]

\* The task blocks: it enters schedule().
Suspend(th, how) ==
    /\ state' = [state EXCEPT ![current[th]] = how]
    /\ Goto(th, "schedule")

\* Mutant of CheckedSuspend: a canceled task is put to sleep.
UncheckedSuspend(th, how) == Suspend(th, how) /\ UNCHANGED <<exception, interrupted>>

\* task::impl::swap: do not put canceled or deadlined tasks to sleep.
CheckedSuspend(th, how) ==
    /\ TakeException(current[th])
    /\ IF Throws(current[th]) THEN UNCHANGED <<pc, state>> ELSE Suspend(th, how)

\* One iteration of check_dirty_queue.
PopDirty(th) ==
    /\ dirtyq[th] # <<>>
    /\ readyq' = [readyq EXCEPT ![th] = PushFront(@, Head(dirtyq[th]))]
    /\ dirtyq' = [dirtyq EXCEPT ![th] = Tail(@)]
    /\ UNCHANGED ready
-----------------------------------------------------------------------------
(* Calls made by the code of the current task. *)

Yield(th) ==
    /\ MayCall(th, "yield")
    /\ EnqueueBack(th, current[th])
    /\ CheckedSuspend(th, "yield")
    /\ UNCHANGED <<argVars, dirtyq, schedVars, home, canceled, waitVars>>

\* The wait of rendez::sleep.
Swap(th) ==
    /\ MayCall(th, "swap")
    /\ CheckedSuspend(th, "swap")
    /\ UNCHANGED <<argVars, queueVars, schedVars, home, canceled, waitVars>>

\* The wait of qutex::lock: no cancellation_point is open.
SafeSwap(th) ==
    /\ MayCall(th, "safe_swap")
    /\ Suspend(th, "safe_swap")
    /\ UNCHANGED <<argVars, queueVars, schedVars, home, flagVars, waitVars>>

\* The alarm of a sleep or of an io timeout lives as long as the call.
Timer(t) == <<t, "timer">>

SleepUntil(th) ==
    /\ MayCall(th, "sleep")
    /\ CheckedSuspend(th, "sleep")
    /\ alarms' = IF Throws(current[th]) THEN alarms
                 ELSE alarms \cup {Timer(current[th])}
    /\ UNCHANGED <<argVars, queueVars, schedVars, home, canceled, deadlines,
                   joiner>>

\* fdwait and taskpoll: the first use of get_io() creates the io manager.
Poll(th) ==
    /\ MayCall(th, "poll")
    /\ io' = [io EXCEPT ![th] = TRUE]
    /\ CheckedSuspend(th, "poll")
    /\ \/ UNCHANGED alarms
       \/ ~Throws(current[th]) /\ alarms' = alarms \cup {Timer(current[th])}
    /\ UNCHANGED <<argVars, queueVars, listVars, evfd, stopVars, home, canceled,
                   deadlines, joiner>>

Deadline(t) == <<t, "deadline">>

\* A task holds at most one deadline object at a time.
SetDeadline(th) ==
    /\ MayCall(th, "deadline")
    /\ current[th] \notin deadlines
    /\ deadlines' = deadlines \cup {current[th]}
    /\ alarms' = alarms \cup {Deadline(current[th])}
    /\ UNCHANGED <<pc, argVars, queueVars, schedVars, home, state, flagVars,
                   joiner>>

\* Mutant of DropDeadline: the alarm outlives the object.
DropDeadlineOnly(t) ==
    /\ deadlines' = deadlines \ {t}
    /\ UNCHANGED alarms

\* ~deadline and deadline::cancel.
DropDeadline(t) ==
    /\ deadlines' = deadlines \ {t}
    /\ alarms' = alarms \ {Deadline(t)}

EndDeadline(th) ==
    /\ MayCall(th, "deadline")
    /\ current[th] \in deadlines
    /\ DropDeadline(current[th])
    /\ UNCHANGED <<pc, argVars, queueVars, schedVars, home, state, flagVars,
                   joiner>>


\* join() of a task that has finished returns at once.
Join(th, t) ==
    /\ MayCall(th, "join")
    /\ t # current[th]
    /\ state[t] \notin Ended \cup {"unborn"}
    /\ joiner[t] = None
    /\ joiner' = [joiner EXCEPT ![t] = current[th]]
    /\ Suspend(th, "join")
    /\ UNCHANGED <<argVars, queueVars, schedVars, home, flagVars, deadlines,
                   alarms>>

\* The task constructor: attach_task, then to the front of the ready queue.
Spawn(th, t) ==
    /\ MayCall(th, "spawn")
    /\ state[t] = "unborn"
    /\ state' = [state EXCEPT ![t] = "new"]
    /\ home' = [home EXCEPT ![t] = th]
    /\ user_tasks' = [user_tasks EXCEPT ![th] = @ \cup {t}]
    /\ ready' = [ready EXCEPT ![t] = TRUE]
    /\ readyq' = [readyq EXCEPT ![th] = PushFront(@, t)]
    /\ UNCHANGED <<pc, argVars, dirtyq, current, gctasks, io, evfd, stopVars,
                   flagVars, waitVars>>

\* The caller of task::impl::ready goes on at ret once the call is over.
CallReady(th, t, back) ==
    /\ arg' = [arg EXCEPT ![th] = t]
    /\ ret' = [ret EXCEPT ![th] = back]
    /\ Goto(th, "ready")

Cancel(th, t) ==
    /\ MayCall(th, "cancel")
    /\ state[t] # "unborn"
    /\ ~canceled[t]
    /\ canceled' = [canceled EXCEPT ![t] = TRUE]
    /\ CallReady(th, t, "run")
    /\ UNCHANGED <<todo, queueVars, schedVars, home, state, exception,
                   interrupted, waitVars>>

\* qutex::unlock and rendez::wakeup: they took the pointer to t from a list
\* of waiting tasks, which t entered before it suspended itself.
Wake(th, t) ==
    /\ MayCall(th, "wake")
    /\ t # current[th]
    /\ state[t] \in {"run", "swap", "safe_swap"}
    /\ CallReady(th, t, "run")
    /\ UNCHANGED <<todo, queueVars, schedVars, taskVars>>

\* kernel::shutdown: thread_context::cancel_all takes the lock of the list ...
Shutdown(th) ==
    /\ MayCall(th, "shutdown")
    /\ \A other \in Threads : ~InCancelAll(other)
    /\ todo' = [todo EXCEPT ![th] = ListedThreads]
    /\ Goto(th, "cancel_all")
    /\ UNCHANGED <<arg, ret, queueVars, schedVars, taskVars>>

\* ... and calls scheduler::cancel on each element.
CancelScheduler(th) ==
    /\ pc[th] = "cancel_all"
    /\ \E other \in todo[th] :
          /\ sched_canceled' = [sched_canceled EXCEPT ![other] = TRUE]
          /\ todo' = [todo EXCEPT ![th] = @ \ {other}]
          /\ arg' = [arg EXCEPT ![th] = other]
    /\ ret' = [ret EXCEPT ![th] = "cancel_all"]
    /\ Goto(th, "wakeup")
    /\ UNCHANGED <<queueVars, listVars, io, evfd, shutdown_initiated, looping,
                   taskVars>>

CancelAllDone(th) ==
    /\ pc[th] = "cancel_all"
    /\ todo[th] = {}
    /\ Goto(th, "run")
    /\ UNCHANGED <<argVars, queueVars, schedVars, taskVars>>
-----------------------------------------------------------------------------
(* scheduler::ready and scheduler::wakeup. *)

\* The exchange of _ready. A task of the own scheduler goes to the back of
\* _readyq, a task of another one through its _dirtyq.
Ready(th) ==
    /\ pc[th] = "ready"
    /\ LET t == arg[th] IN
       /\ ready' = [ready EXCEPT ![t] = TRUE]
       /\ IF ~ready[t] /\ home[t] = th
             THEN readyq' = [readyq EXCEPT ![th] = Append(@, t)]
             ELSE UNCHANGED readyq
       /\ Goto(th, IF ~ready[t] /\ home[t] # th THEN "push" ELSE ret[th])
    /\ UNCHANGED <<argVars, dirtyq, schedVars, taskVars>>

PushDirty(th) ==
    /\ pc[th] = "push"
    /\ dirtyq' = [dirtyq EXCEPT ![home[arg[th]]] = Append(@, arg[th])]
    /\ arg' = [arg EXCEPT ![th] = home[arg[th]]]
    /\ Goto(th, "wakeup")
    /\ UNCHANGED <<ret, todo, ready, readyq, schedVars, taskVars>>

\* Mutant of Wakeup: the eventfd of a scheduler with io is not written.
WakeupNotifies(th) ==
    /\ pc[th] = "wakeup"
    /\ ~Locked(arg[th])
    /\ pc' = [pc EXCEPT ![th] = ret[th],
                        ![arg[th]] = IF @ = "cvwait" THEN "woken" ELSE @]
    /\ UNCHANGED <<argVars, queueVars, schedVars, taskVars>>

\* The critical section of wakeup on scheduler arg[th].
Wakeup(th) ==
    /\ pc[th] = "wakeup"
    /\ ~Locked(arg[th])
    /\ IF io[arg[th]]
          THEN /\ evfd' = [evfd EXCEPT ![arg[th]] = TRUE]
               /\ Goto(th, ret[th])
          ELSE /\ pc' = [pc EXCEPT ![th] = ret[th],
                                   ![arg[th]] = IF @ = "cvwait" THEN "woken" ELSE @]
               /\ UNCHANGED evfd
    /\ UNCHANGED <<argVars, queueVars, listVars, io, stopVars, taskVars>>
-----------------------------------------------------------------------------
(* The end of a task: the rest of task::impl::trampoline. *)

\* Mutant of Finish: the OS task ends like a user task.
FinishAny(th) ==
    /\ MayCall(th, "exit")
    /\ Goto(th, "remove")
    /\ UNCHANGED <<argVars, queueVars, schedVars, taskVars>>

\* The function of a user task returned, threw, or was skipped because the
\* task was canceled before it ran. Its objects are destroyed, it is marked
\* finished and its joiner is made ready.
Finish(th) ==
    /\ current[th] \in UserTasks
    /\ MayCall(th, "exit") \/ pc[th] = "finish"
    /\ LET t == current[th] IN
       /\ DropDeadline(t)
       /\ state' = [state EXCEPT ![t] = "finished"]
       /\ joiner' = [joiner EXCEPT ![t] = None]
       /\ IF joiner[t] = None
             THEN Goto(th, "remove") /\ UNCHANGED <<arg, ret>>
             ELSE CallReady(th, joiner[t], "remove")
    /\ UNCHANGED <<todo, queueVars, schedVars, home, flagVars>>

\* remove_task, from _gctasks on.
Discard(th, t) ==
    /\ gctasks' = [gctasks EXCEPT ![th] = @ \cup {t}]
    /\ user_tasks' = [user_tasks EXCEPT ![th] = @ \ {t}]
    /\ state' = [state EXCEPT ![t] = "gone"]
    /\ Goto(th, "schedule")

\* The exchange in remove_task: _ready stays true, so that nobody can make
\* the task ready again.
Remove(th) ==
    /\ pc[th] = "remove"
    /\ ready' = [ready EXCEPT ![current[th]] = TRUE]
    /\ IF ready[current[th]]
          THEN Goto(th, "spin") /\ UNCHANGED <<user_tasks, gctasks, state>>
          ELSE Discard(th, current[th])
    /\ UNCHANGED <<argVars, readyq, dirtyq, current, io, evfd, stopVars, home,
                   flagVars, waitVars>>

\* Another thread made the task ready while it was exiting: wait until it is
\* in _readyq, then erase it.
RemoveErase(th) ==
    /\ pc[th] = "spin"
    /\ current[th] \in Range(readyq[th])
    /\ readyq' = [readyq EXCEPT ![th] = Without(@, current[th])]
    /\ Discard(th, current[th])
    /\ UNCHANGED <<argVars, ready, dirtyq, current, io, evfd, stopVars, home,
                   flagVars, waitVars>>

RemoveSpin(th) ==
    /\ pc[th] = "spin"
    /\ current[th] \notin Range(readyq[th])
    /\ PopDirty(th)
    /\ UNCHANGED <<pc, argVars, schedVars, taskVars>>
-----------------------------------------------------------------------------
(* scheduler::schedule. *)

\* When wait_for_all is all that is left, its task is made ready.
Schedule(th) ==
    /\ pc[th] = "schedule"
    /\ IF looping[th] /\ user_tasks[th] = {}
          THEN EnqueueBack(th, th)
          ELSE UNCHANGED <<ready, readyq>>
    /\ Goto(th, "canceled")
    /\ UNCHANGED <<argVars, dirtyq, schedVars, taskVars>>

\* scheduler::check_canceled, and the start of scheduler::shutdown.
CheckCanceled(th) ==
    /\ pc[th] = "canceled"
    /\ IF sched_canceled[th] /\ ~shutdown_initiated[th]
          THEN /\ shutdown_initiated' = [shutdown_initiated EXCEPT ![th] = TRUE]
               /\ todo' = [todo EXCEPT ![th] = user_tasks[th] \cup {th}]
               /\ Goto(th, "shutdown")
          ELSE /\ Goto(th, "dirty")
               /\ UNCHANGED <<todo, shutdown_initiated>>
    /\ UNCHANGED <<arg, ret, queueVars, listVars, io, evfd, sched_canceled,
                   looping, taskVars>>

\* One task::impl::cancel of the loop in shutdown; the OS task comes last.
ShutdownCancel(th) ==
    /\ pc[th] = "shutdown"
    /\ \E t \in todo[th] :
          /\ t = th => todo[th] = {th}
          /\ todo' = [todo EXCEPT ![th] = @ \ {t}]
          /\ canceled' = [canceled EXCEPT ![t] = TRUE]
          /\ IF canceled[t] THEN UNCHANGED <<ready, readyq>> ELSE EnqueueBack(th, t)
    /\ UNCHANGED <<pc, arg, ret, dirtyq, schedVars, home, state, exception,
                   interrupted, waitVars>>

ShutdownDone(th) ==
    /\ pc[th] = "shutdown"
    /\ todo[th] = {}
    /\ Goto(th, "dirty")
    /\ UNCHANGED <<argVars, queueVars, schedVars, taskVars>>

CheckDirtyQueue(th) ==
    /\ pc[th] = "dirty"
    /\ \/ PopDirty(th) /\ UNCHANGED pc
       \/ dirtyq[th] = <<>> /\ Goto(th, "alarms") /\ UNCHANGED queueVars
    /\ UNCHANGED <<argVars, schedVars, taskVars>>

\* One iteration of alarm_clock::tick, called by check_timeout_tasks. An alarm
\* is due at any time after it was set, so the order of _set does not matter.
FireAlarm(th) ==
    /\ pc[th] = "alarms"
    /\ \E a \in AlarmsOf(th) :
          /\ alarms' = alarms \ {a}
          /\ exception' = IF a = Deadline(a[1])
                             THEN [exception EXCEPT ![a[1]] = TRUE]
                             ELSE exception
          /\ EnqueueBack(th, a[1])
    /\ UNCHANGED <<pc, argVars, dirtyq, schedVars, home, state, canceled,
                   interrupted, deadlines, joiner>>

NoAlarmDue(th) ==
    /\ pc[th] = "alarms"
    /\ Goto(th, IF readyq[th] = <<>> THEN "check" ELSE "pop")
    /\ UNCHANGED <<argVars, queueVars, schedVars, taskVars>>

\* scheduler::wait: look at the dirty queue once more, under the lock ...
WaitCheck(th) ==
    /\ pc[th] = "check"
    /\ \/ PopDirty(th) /\ UNCHANGED pc
       \/ /\ dirtyq[th] = <<>>
          /\ Goto(th, IF readyq[th] = <<>> THEN "block" ELSE "pop")
          /\ UNCHANGED queueVars
    /\ UNCHANGED <<argVars, schedVars, taskVars>>

\* ... then release it and block, in epoll_wait or on the condition variable.
WaitBlock(th) ==
    /\ pc[th] = "block"
    /\ Goto(th, IF io[th] THEN "iowait" ELSE "cvwait")
    /\ UNCHANGED <<argVars, queueVars, schedVars, taskVars>>

\* wait_until returns because the first alarm is due.
CvTimeout(th) ==
    /\ pc[th] = "cvwait"
    /\ AlarmsOf(th) # {}
    /\ Goto(th, "woken")
    /\ UNCHANGED <<argVars, queueVars, schedVars, taskVars>>

\* A condition variable may also wake up for no reason.
CvSpurious(th) ==
    /\ pc[th] = "cvwait"
    /\ Goto(th, "woken")
    /\ UNCHANGED <<argVars, queueVars, schedVars, taskVars>>

\* epoll_wait returns: the eventfd was written (read it), the timerfd fired, ...
IoWake(th) ==
    /\ pc[th] = "iowait"
    /\ evfd[th] \/ AlarmsOf(th) # {}
    /\ evfd' = [evfd EXCEPT ![th] = FALSE]
    /\ Goto(th, "events")
    /\ UNCHANGED <<argVars, queueVars, listVars, io, stopVars, taskVars>>

\* ... or a descriptor is ready: its task goes to the back of _readyq.
IoEvent(th) ==
    /\ pc[th] \in {"iowait", "events"}
    /\ \E t \in Tasks : home[t] = th /\ state[t] = "poll" /\ EnqueueBack(th, t)
    /\ Goto(th, "events")
    /\ UNCHANGED <<argVars, dirtyq, schedVars, taskVars>>

EventsDone(th) ==
    /\ pc[th] = "events"
    /\ Goto(th, "woken")
    /\ UNCHANGED <<argVars, queueVars, schedVars, taskVars>>

\* wait() returns with the lock, which its caller releases; the loop ends
\* when something is ready.
Woken(th) ==
    /\ pc[th] = "woken"
    /\ Goto(th, IF readyq[th] = <<>> THEN "canceled" ELSE "pop")
    /\ UNCHANGED <<argVars, queueVars, schedVars, taskVars>>

\* Switch to the first ready task. A new task starts in trampoline; any other
\* comes back from schedule(), frees the tasks that exited and leaves the call
\* it was suspended in, where it may be interrupted.
SwitchTo(th) ==
    /\ pc[th] = "pop"
    /\ readyq[th] # <<>>
    /\ LET t == Head(readyq[th]) IN
       /\ readyq' = [readyq EXCEPT ![th] = Tail(@)]
       /\ ready' = [ready EXCEPT ![t] = FALSE]
       /\ current' = [current EXCEPT ![th] = t]
       /\ state' = [state EXCEPT ![t] = "run"]
       /\ gctasks' = [gctasks EXCEPT ![th] = IF state[t] = "new" THEN @ ELSE {}]
       /\ alarms' = alarms \ {Timer(t)}
       /\ IF state[t] \in Cancelable
             THEN TakeException(t)
             ELSE UNCHANGED <<exception, interrupted>>
       /\ Goto(th, CASE state[t] = "new" /\ canceled[t] -> "finish"
                     [] state[t] = "wait_for_all"       -> "loop"
                     [] OTHER                           -> "run")
    /\ UNCHANGED <<argVars, dirtyq, user_tasks, io, evfd, stopVars, home,
                   canceled, deadlines, joiner>>
-----------------------------------------------------------------------------
(* The end of a thread: ~thread_context. *)

\* The function of the OS task returned: wait_for_all starts to loop.
WaitForAll(th) ==
    /\ current[th] = th
    /\ MayCall(th, "exit")
    /\ looping' = [looping EXCEPT ![th] = TRUE]
    /\ DropDeadline(th)
    /\ Goto(th, "loop")
    /\ UNCHANGED <<argVars, queueVars, listVars, io, evfd, sched_canceled,
                   shutdown_initiated, home, state, flagVars, joiner>>

WaitForAllLoop(th) ==
    /\ pc[th] = "loop"
    /\ IF user_tasks[th] # {}
          THEN Suspend(th, "wait_for_all") /\ UNCHANGED looping
          ELSE /\ looping' = [looping EXCEPT ![th] = FALSE]
               /\ Goto(th, "leave")
               /\ UNCHANGED state
    /\ UNCHANGED <<argVars, queueVars, listVars, io, evfd, sched_canceled,
                   shutdown_initiated, home, flagVars, waitVars>>

\* Mutant of Leave: the main thread does not wait for the others.
LeaveAtOnce(th) ==
    /\ pc[th] = "leave"
    /\ Goto(th, "exited")
    /\ UNCHANGED <<argVars, queueVars, schedVars, taskVars>>

\* The main thread waits until it is the only one, and every thread takes
\* itself off the list.
Leave(th) ==
    /\ pc[th] = "leave"
    /\ th = MainThread => ListedThreads = {th}
    /\ \A other \in Threads : ~InCancelAll(other)
    /\ Goto(th, "exited")
    /\ UNCHANGED <<argVars, queueVars, schedVars, taskVars>>
-----------------------------------------------------------------------------
TaskStep(th) ==
    \/ Yield(th) \/ Swap(th) \/ SafeSwap(th) \/ SleepUntil(th) \/ Poll(th)
    \/ SetDeadline(th) \/ EndDeadline(th) \/ Shutdown(th)
    \/ Finish(th) \/ WaitForAll(th)
    \/ \E t \in UserTasks : Spawn(th, t) \/ Cancel(th, t) \/ Join(th, t)
    \/ \E t \in Tasks : Wake(th, t)

LibraryStep(th) ==
    \/ CancelScheduler(th) \/ CancelAllDone(th) \/ Ready(th) \/ PushDirty(th)
    \/ Wakeup(th) \/ Remove(th) \/ RemoveErase(th) \/ RemoveSpin(th)
    \/ Schedule(th) \/ CheckCanceled(th) \/ ShutdownCancel(th) \/ ShutdownDone(th)
    \/ CheckDirtyQueue(th) \/ NoAlarmDue(th) \/ WaitCheck(th)
    \/ WaitBlock(th) \/ EventsDone(th) \/ Woken(th) \/ SwitchTo(th)
    \/ WaitForAllLoop(th) \/ Leave(th)

\* What the clock, the kernel and the C++ library do.
OutsideStep(th) ==
    \/ FireAlarm(th) \/ CvTimeout(th) \/ IoWake(th) \/ CvSpurious(th) \/ IoEvent(th)

Next == \E th \in Threads : TaskStep(th) \/ LibraryStep(th) \/ OutsideStep(th)

Spec == Init /\ [][Next]_vars
-----------------------------------------------------------------------------
(* Fairness: the OS runs every thread that can go on and gives a thread that  *)
(* waits for _mutex its turn; a task blocks or ends at last, whatever calls   *)
(* that do not block it makes before; the clock reaches every alarm;          *)
(* epoll_wait and wait_until report what they wait for.                       *)

BlockOrEnd(th) ==
    /\ \/ Yield(th) \/ Swap(th) \/ SafeSwap(th) \/ SleepUntil(th) \/ Poll(th)
       \/ Finish(th) \/ WaitForAll(th) \/ \E t \in UserTasks : Join(th, t)
    /\ pc'[th] # "run"

Fairness ==
    \A th \in Threads : /\ WF_vars(LibraryStep(th))
                        /\ SF_vars(BlockOrEnd(th))
                        /\ SF_vars(Wakeup(th))
                        /\ SF_vars(FireAlarm(th))
                        /\ WF_vars(CvTimeout(th) \/ IoWake(th))

FairSpec == Spec /\ Fairness
-----------------------------------------------------------------------------
(* Properties. *)

TypeOK ==
    /\ pc \in [Threads -> Places]
    /\ ret \in [Threads -> {"run", "remove", "cancel_all"}]
    /\ arg \in [Threads -> Tasks \cup {None}]
    /\ todo \in [Threads -> SUBSET Tasks]
    /\ current \in [Threads -> Tasks]
    /\ readyq \in [Threads -> Seq(Tasks)] /\ dirtyq \in [Threads -> Seq(Tasks)]
    /\ user_tasks \in [Threads -> SUBSET UserTasks]
    /\ gctasks \in [Threads -> SUBSET UserTasks]
    /\ io \in [Threads -> BOOLEAN] /\ evfd \in [Threads -> BOOLEAN]
    /\ sched_canceled \in [Threads -> BOOLEAN]
    /\ shutdown_initiated \in [Threads -> BOOLEAN]
    /\ looping \in [Threads -> BOOLEAN]
    /\ home \in [Tasks -> Threads \cup {None}]
    /\ state \in [Tasks -> States]
    /\ ready \in [Tasks -> BOOLEAN] /\ canceled \in [Tasks -> BOOLEAN]
    /\ exception \in [Tasks -> BOOLEAN] /\ interrupted \in [Tasks -> BOOLEAN]
    /\ deadlines \subseteq Tasks
    /\ alarms \subseteq Tasks \X {"timer", "deadline"}
    /\ joiner \in [Tasks -> Tasks \cup {None}]

\* The tasks that hold a wake-up token: _ready is true and they wait in a queue.
Queued(th) == Range(readyq[th]) \cup Range(dirtyq[th])

Pushing(t) == {th \in Threads : pc[th] = "push" /\ arg[th] = t}

\* The queues of a scheduler hold each of their tasks once, with its token.
QueuesOK(th) ==
    /\ IsInjective(readyq[th]) /\ IsInjective(dirtyq[th])
    /\ Range(readyq[th]) \cap Range(dirtyq[th]) = {}
    /\ \A t \in Queued(th) : ready[t] /\ home[t] = th /\ state[t] # "gone"

\* The thread that won the exchange of _ready is the only one to push the task.
PushOK(th) ==
    pc[th] = "push" =>
        LET t == arg[th] IN
        /\ ready[t] /\ state[t] # "gone"
        /\ t \notin Queued(home[t]) /\ Pushing(t) = {th}

\* A token is in a queue or on its way to one, or it is the token of a removed
\* task.
TokenOK(t) ==
    ready[t] => state[t] = "gone" \/ t \in Queued(home[t]) \/ Pushing(t) # {}

\* _ready of a task is true exactly while the task is in one slot of one queue
\* of its own scheduler, or a thread is about to push it there, or it was
\* removed: no interleaving of ready, yield, cancel, alarms and remove_task
\* queues a task twice, forgets it or leaves a removed task in a queue
\* (scheduler.cc:174, "found in _readyq while being deleted").
OneToken ==
    /\ \A th \in Threads : QueuesOK(th) /\ PushOK(th)
    /\ \A t \in Tasks : TokenOK(t)

\* The eventfd of the thread is readable, or another thread is about to execute
\* the critical section of wakeup().
WillWake(th) ==
    \/ evfd[th] /\ io[th]
    \/ \E other \in Threads : pc[other] = "wakeup" /\ arg[other] = th

\* A thread that sleeps in scheduler::wait, or has decided to, has no task in its
\* _readyq, and will be woken when its _dirtyq holds one.
NoLostWakeup ==
    \A th \in Threads :
        pc[th] \in {"block", "cvwait", "iowait"} =>
            readyq[th] = <<>> /\ (dirtyq[th] # <<>> => WillWake(th))

\* A canceled task, or one whose deadline has passed, never stays suspended in
\* a call with a cancellation_point: it holds a wake-up token or the thread that
\* canceled it is about to give it one.
NoInterruptedSleeper ==
    \A t \in Tasks :
        state[t] \in Cancelable /\ Throws(t) =>
            ready[t] \/ \E th \in Threads : pc[th] = "ready" /\ arg[th] = t

\* A thread whose last task has exited still executes schedule() on the stack of
\* that task: _gctasks keeps it until another task runs. Nothing else that the
\* scheduler follows (alarms, tasks to cancel) leads to a task that is gone.
NoUseAfterFree ==
    /\ \A th \in Threads :
          /\ state[current[th]] = "gone" => pc[th] \in InSchedule /\ current[th] \in gctasks[th]
          /\ \A t \in user_tasks[th] : state[t] \notin {"gone", "unborn"}
    /\ \A a \in alarms : state[a[1]] \notin Ended \cup {"unborn"}

\* The main thread leaves last, and a thread leaves only when all its tasks are
\* gone (the CHECK in ~scheduler).
MainLeavesLast ==
    \A th \in Threads : pc[th] = "exited" =>
        /\ user_tasks[th] = {} /\ Queued(th) \subseteq {th}
        /\ th = MainThread => ListedThreads = {}

\* join() comes back only when the task it waits for has finished (the DCHECK at
\* the end of task::impl::join; "join isn't interruptable", task.cc:223).
JoinReturnsFinished ==
    [][\A t, j \in Tasks : state[j] = "join" /\ state'[j] = "run" /\ joiner[t] = j
                               => state[t] \in Ended]_vars

-----------------------------------------------------------------------------
(* The scheduler implements Park. *)

\* A task is active while its thread runs its code or a library call it made.
ParkState(t) ==
    CASE state[t] \in {"unborn", "gone"} -> state[t]
      [] state[t] \in Suspended          -> "parked"
      [] OTHER                           -> "active"

Tokens == INSTANCE Park WITH st    <- [t \in Tasks |-> ParkState(t)],
                             token <- [t \in Tasks |-> ready[t] /\ state[t] # "gone"]

\* The queues, the locks and the sleeping of the threads implement the wake-up
\* tokens: a suspended task comes back only with a token, once per token.
ImplementsPark == Tokens!Spec


\* A task in join() runs again after the task it waits for has finished, even
\* when that task belongs to another thread.
JoinWakes ==
    \A j \in Tasks :
        (state[j] = "join" /\ \A t \in Tasks : joiner[t] = j => state[t] \in Ended)
            ~> state[j] # "join"

\* kernel::shutdown reaches every scheduler: it cancels its tasks unless the
\* thread ends.
ShutdownReaches ==
    \A th \in Threads :
        sched_canceled[th] ~> shutdown_initiated[th] \/ pc[th] \in {"leave", "exited"}
-----------------------------------------------------------------------------
(* The inductive invariant: what ties the place of a thread, the state of  *)
(* its tasks and its lists together.                                       *)

\* The thread runs the rest of trampoline for a task that has finished.
Ending(th) ==
    \/ pc[th] \in {"remove", "spin"}
    \/ pc[th] \in {"ready", "push", "wakeup"} /\ ret[th] = "remove"

\* The current task belongs to the thread, and what the thread does agrees with
\* where that task is.
ThreadOK(th) ==
    /\ home[current[th]] = th
    /\ pc[th] \notin InSchedule =>
          state[current[th]] = IF Ending(th) THEN "finished" ELSE "run"
    /\ Ending(th) \/ pc[th] = "finish" => current[th] \in UserTasks
    /\ pc[th] \in {"ready", "push"} => arg[th] \in Tasks /\ state[arg[th]] # "unborn"
    /\ pc[th] = "wakeup" => arg[th] \in Threads
    /\ pc[th] \in {"ready", "push"} => ret[th] # "cancel_all"
    /\ pc[th] = "cancel_all" => todo[th] \subseteq Threads
    /\ pc[th] = "wakeup" /\ ret[th] = "cancel_all" => todo[th] \subseteq Threads
    /\ pc[th] = "cvwait" => ~io[th]
    /\ pc[th] = "iowait" => io[th]

\* The life of a task: it has a scheduler from its birth and runs only as the
\* current task.
TaskOK(t) ==
    /\ state[t] = "unborn" <=> home[t] = None
    /\ state[t] = "unborn" => ~ready[t]
    /\ state[t] = "gone" => ready[t]
    /\ t \in Threads => home[t] = t /\ state[t] \notin Ended \cup {"new"}
    /\ state[t] \in {"run", "finished"} =>
          current[home[t]] = t /\ pc[home[t]] \notin InSchedule

\* A task holds its deadline and its alarms only while it lives, and a timer only
\* inside the call that set it.
WaitOK(t) ==
    /\ joiner[t] # None => state[joiner[t]] # "unborn"
    /\ t \in deadlines => state[t] \notin Ended \cup {"unborn"}
    /\ Timer(t) \in alarms => state[t] \in {"sleep", "poll"}
    /\ Deadline(t) \in alarms => t \in deadlines

\* The lists of a scheduler hold tasks of that scheduler.
ListOK(th) ==
    /\ \A t \in user_tasks[th] : home[t] = th /\ state[t] \notin {"unborn", "gone"}
    /\ pc[th] = "shutdown" => todo[th] \subseteq user_tasks[th] \cup {th}
    /\ state[current[th]] = "gone" => current[th] \in gctasks[th]

\* _user_tasks lists every task of the scheduler until it is removed, and none
\* is left when the thread leaves.
LeaveOK(th) ==
    /\ \A t \in UserTasks : home[t] = th => t \in user_tasks[th] \/ state[t] = "gone"
    /\ pc[th] \in {"leave", "exited"} => user_tasks[th] = {}

\* With the list of the threads, what makes MainLeavesLast inductive.
LeaveInv ==
    /\ \A th \in Threads : LeaveOK(th)
    /\ pc[MainThread] = "exited" => ListedThreads = {}

\* The strengthening under which the properties are inductive: no interleaving
\* of the threads breaks the agreement of places, states, queues and lists.
Inv ==
    /\ TypeOK
    /\ \A th \in Threads : ThreadOK(th) /\ ListOK(th)
    /\ \A t \in Tasks : TaskOK(t) /\ WaitOK(t)
    /\ OneToken
-----------------------------------------------------------------------------
(* What documents and tests of libten say and the code does not do. *)

\* doc/task.rst:38, sleep_until "blocks the execution of the current task until
\* specified sleep_time has been reached": a sleep that is not interrupted ends
\* because its alarm fired.
SleepsUntilAlarm ==
    [][\A t \in Tasks : state[t] = "sleep" /\ state'[t] = "run" /\ ~Throws(t)
                            => Timer(t) \notin alarms]_vars

\* tests/test_task.cc:350, "deadline should be removed at this point": no
\* deadline_reached is pending for a task without a deadline object.
DeadlineRemoved == \A t \in Tasks : exception[t] => t \in deadlines

\* tests/test_task.cc:210, "make sure yield doesn't throw again": a task that
\* has been interrupted is not interrupted by its next yield.
CancelOnlyOnce ==
    [][\A th \in Threads : Yield(th) /\ interrupted[current[th]] => pc'[th] # "run"]_vars

\* doc/internals.rst:50, "schedules them in FIFO order", except for spawned
\* tasks: no other task enters the ready queue before one that waits in it.
FifoOrder ==
    [][\A th \in Threads :
          readyq[th] # <<>> /\ Len(readyq'[th]) > Len(readyq[th]) =>
              Head(readyq'[th]) = Head(readyq[th]) \/ state'[Head(readyq'[th])] = "new"]_vars

\* doc/kernel.rst:47, shutdown is to "cancel all tasks and wait for them to
\* exit": after the shutdown sequence no task of the thread is without its cancel.
ShutdownCancelsAll ==
    \A th \in Threads : shutdown_initiated[th] /\ pc[th] # "shutdown" =>
        \A t \in user_tasks[th] : canceled[t]
=============================================================================
