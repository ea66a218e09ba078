------------------------------- MODULE MCSync -------------------------------
(***************************************************************************)
(* What tasks and threads wait for comes in the end: the qutex, the rendez,*)
(* the replacements of an http_pool and the queues between threads.  A     *)
(* behaviour runs one of them, with the constants of its part, the others  *)
(* keep their initial state, and the state spaces add up.                  *)
(***************************************************************************)
EXTENDS Qutex

CONSTANTS a, b, c, s1, s2, s3, r1, r2, lt, x, y, Stub,
          Parts  \* Parts: what a run checks

VARIABLES part,  \* the component that this behaviour runs
          z_holder, z_items, z_waiting, z_pc, z_popped, z_token, z_canceled,
          z_late,
          h_avail, h_set, h_waiting, h_pc, h_held, h_token, h_canceled, h_now,
          h_born, h_retired, h_mustdie, h_alive,
          m_next, m_head, m_tail, m_producer, m_consumer, m_freed, m_order, m_got,
          l_next, l_value, l_first, l_last, l_producerLock, l_consumerLock,
          l_producer, l_consumer, l_freed, l_taken

Rendezvous == INSTANCE Rendez WITH
    Waiters <- {a, b}, Signalers <- {s1, s2}, MaxItems <- 2, Canceled <- {a},
    Deadlined <- {}, OneThread <- FALSE, holder <- z_holder, items <- z_items,
    waiting <- z_waiting, pc <- z_pc, popped <- z_popped, token <- z_token,
    canceled <- z_canceled, late <- z_late

Clients == INSTANCE HttpPool WITH
    Lt <- lt, Max <- 1, Cancelable <- {a}, Pre <- 1, Life <- 2, MaxNow <- 3,
    Tasks <- {a, lt}, Resources <- {x, y}, MayFail <- TRUE, avail <- h_avail,
    set <- h_set, waiting <- h_waiting, pc <- h_pc, held <- h_held,
    token <- h_token, canceled <- h_canceled, now <- h_now, born <- h_born,
    retired <- h_retired, mustdie <- h_mustdie, alive <- h_alive

Mpsc == INSTANCE MpscQueue WITH
    Producers <- {s1, s2, s3}, MaxItems <- 5, next <- m_next, head <- m_head,
    tail <- m_tail, producer <- m_producer, consumer <- m_consumer,
    freed <- m_freed, order <- m_order, got <- m_got

List == INSTANCE Llqueue WITH
    Producers <- {s1, s2}, Consumers <- {r1, r2}, MaxItems <- 4, next <- l_next,
    value <- l_value, first <- l_first, last <- l_last,
    producerLock <- l_producerLock, consumerLock <- l_consumerLock,
    producer <- l_producer, consumer <- l_consumer, freed <- l_freed,
    taken <- l_taken

qutexVars == <<owner, waiting, pc, token, interrupted>>
rendezVars == <<z_holder, z_items, z_waiting, z_pc, z_popped, z_token, z_canceled,
                z_late>>
httpVars == <<h_avail, h_set, h_waiting, h_pc, h_held, h_token, h_canceled, h_now,
              h_born, h_retired, h_mustdie, h_alive>>
mpscVars == <<m_next, m_head, m_tail, m_producer, m_consumer, m_freed, m_order,
              m_got>>
listVars == <<l_next, l_value, l_first, l_last, l_producerLock, l_consumerLock,
              l_producer, l_consumer, l_freed, l_taken>>
NotQutex == <<part, rendezVars, httpVars, mpscVars, listVars>>
NotRendez == <<part, qutexVars, httpVars, mpscVars, listVars>>
NotHttp == <<part, qutexVars, rendezVars, mpscVars, listVars>>
NotMpsc == <<part, qutexVars, rendezVars, httpVars, listVars>>
NotList == <<part, qutexVars, rendezVars, httpVars, mpscVars>>
allVars == <<part, qutexVars, rendezVars, httpVars, mpscVars, listVars>>

Start ==
    /\ part \in Parts
    /\ Init
    /\ Rendezvous!Init
    /\ Clients!HttpInit
    /\ Mpsc!Init
    /\ List!Init

Steps ==
    \/ part = "qutex" /\ Next /\ UNCHANGED NotQutex
    \/ part = "rendez" /\ Rendezvous!Next /\ UNCHANGED NotRendez
    \/ part = "http_pool" /\ Clients!HttpNext /\ UNCHANGED NotHttp
    \/ part = "mpsc" /\ Mpsc!Next /\ UNCHANGED NotMpsc
    \/ part = "list" /\ List!Next /\ UNCHANGED NotList

Safe == Start /\ [][Steps]_allVars


(* The scheduler runs every task that has its token and every thread; a    *)
(* task that holds a qutex unlocks it, and the qutex is handed over in the *)
(* order of arrival, so that a task that wants it again gets it.           *)
Fair ==
    /\ Safe
    /\ \A t \in {a, b, c} : WF_qutexVars(part = "qutex" /\ Step(t))
    /\ \A t \in {a, b} :
          /\ WF_rendezVars(part = "rendez" /\ Rendezvous!WaiterStep(t))
          /\ SF_rendezVars(part = "rendez" /\ z_pc[t] = "relock" /\ Rendezvous!Lock(t))
    /\ \A t \in {s1, s2} : WF_rendezVars(part = "rendez" /\ Rendezvous!SignalerStep(t))
    /\ \A t \in {a, b, s1, s2} : WF_rendezVars(part = "rendez" /\ Rendezvous!Ready(t))
    /\ WF_httpVars(part = "http_pool" /\ Clients!LtRuns)
    /\ \A t \in {s1, s2, s3} : WF_mpscVars(part = "mpsc" /\ Mpsc!PushLink(t))
    /\ WF_mpscVars(part = "mpsc" /\ Mpsc!Consumer)
-----------------------------------------------------------------------------
(* Properties: those of the modules, of the component that runs.           *)


\* What is waited for comes: a call of lock() gets the qutex or was interrupted, and a
\* task does not sleep in a rendez while an item stays for it.
WaitsEnd ==
    /\ part = "qutex" => LockReturns
    /\ part = "rendez" => Rendezvous!SleeperServed


\* The intrusive queue pops every item in the end, in the order of the exchanges of their
\* pushes, although a pop may find nothing while a push is under way; the list with two
\* locks implements a queue, although producers and consumers hold different locks; and
\* nobody touches a node that a pop has deleted.
QueuesDeliver ==
    /\ [](part = "mpsc" => Mpsc!PopsInOrder /\ Mpsc!NoneFreed)
    /\ part = "mpsc" => Mpsc!AllPopped
    /\ List!IsFifo
    /\ [](part = "list" => List!NoneFreed)
=============================================================================
