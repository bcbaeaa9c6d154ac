------------------------------ MODULE Scheduler ------------------------------
(****************************************************************************)
(* The scheduler of scheduler.cpp: a thread that hands each event to the    *)
(* dispatcher when its time has come.  addEvent() numbers the event and     *)
(* returns the number, stopEvent() revokes it: it takes the number out of   *)
(* m_eventIds and leaves the event in the queue, where the thread finds it  *)
(* when it is due and deletes it.                                           *)
(*                                                                          *)
(* A critical section under m_eventLock is one step.  Handing over is       *)
(* another, after the lock was given back; so are the notification and the  *)
(* return of addEvent(), which reads the number from an event the thread    *)
(* may have disposed of by then.                                            *)
(****************************************************************************)
EXTENDS Naturals, FiniteSets

CONSTANTS
  Client,    \* the threads that call addEvent()
  Stopper,   \* those that keep the id it returns and call stopEvent() with it
  Event,     \* the SchedulerTask objects that are ever created
  NoEvent,
  MaxId,     \* the largest event id: 0xFFFFFFFF in the code
  MaxDelay,  \* bound: the longest delay, in units of SCHEDULER_MINTICKS
  MaxTime    \* bound: the clock stops here

ASSUME SchedulerAssumption ==
  /\ NoEvent \notin Event
  /\ Stopper \subseteq Client
  /\ MaxId \in Nat \ {0}
  /\ MaxDelay \in Nat \ {0}
  /\ MaxTime \in Nat

VARIABLES
  m_eventList,    \* the priority queue, as the set of the events in it
  m_eventIds,     \* the ids of the events that were not stopped
  m_lastEventId,
  s_threadState,  \* Scheduler::m_threadState
  s_pc,           \* where schedulerThread() stands
  s_deadline,     \* the cycle timed_wait() was called with
  s_task,         \* the event the thread took from the queue
  s_runTask,      \* and whether it is to be run
  s_signalled,    \* m_eventSignal was notified while the thread waits on it
  s_call,         \* per client: the event of its addEvent() that left the lock
  s_doSignal,     \* per client: and still has to notify
  heldId,         \* per event: the id its creator keeps to stop it, or 0
  eventId,        \* per event: SchedulerTask::m_eventid
  cycle,          \* per event: when it is due
  fate,           \* per event: what became of it
  stopped,        \* the events a stopEvent() returned true for
  now             \* the clock

s_queue == <<m_eventList, m_eventIds, m_lastEventId, eventId, cycle>>
s_thread == <<s_pc, s_deadline, s_task, s_runTask>>
s_clients == <<s_call, s_doSignal, heldId, stopped>>
s_vars == <<s_queue, s_thread, s_clients, s_threadState, s_signalled, fate, now>>

SchedulerInit ==
  /\ m_eventList = {}
  /\ m_eventIds = {}
  /\ m_lastEventId = 0
  /\ s_threadState = "RUNNING"
  /\ s_pc = "test"
  /\ s_deadline = 0
  /\ s_task = NoEvent
  /\ s_runTask = FALSE
  /\ s_signalled = FALSE
  /\ s_call = [c \in Client |-> NoEvent]
  /\ s_doSignal = [c \in Client |-> FALSE]
  /\ heldId = [e \in Event |-> 0]
  /\ eventId = [e \in Event |-> 0]
  /\ cycle = [e \in Event |-> 0]
  /\ fate = [e \in Event |-> "new"]
  /\ stopped = {}
  /\ now = 0

\* The events m_eventList.top() may be: none is due earlier.
Top == {e \in m_eventList : \A f \in m_eventList : cycle[e] <= cycle[f]}

\* The fates after which the SchedulerTask object no longer exists.
Deleted == {"refused", "discarded", "disposed"}

----------------------------------------------------------------------------
(* addEvent(), stopEvent() *)

NextEventId == IF m_lastEventId >= MaxId THEN 1 ELSE m_lastEventId + 1

\* Mutant: only the first event of an empty queue wakes the thread.
FirstInQueue(due) == m_eventList = {}

\* Mutant: the thread is taken to be awake while the queue is empty.
BeforeAnother(due) ==
  m_eventList # {} /\ \A f \in m_eventList : due < cycle[f]

\* A new top moves the time to wake up: the heap puts a new event above the
\* others only if it is due before them.
BecomesTop(due) == \A f \in m_eventList : due < cycle[f]

\* createSchedulerTask(): at least SCHEDULER_MINTICKS from now.
Delays == {d \in 1..MaxDelay : now + d <= MaxTime}

AddEvent(c, e, d) ==
  /\ s_call[c] = NoEvent
  /\ fate[e] = "new"
  /\ IF s_threadState = "RUNNING"
     THEN /\ m_lastEventId' = NextEventId
          /\ eventId' = [eventId EXCEPT ![e] = NextEventId]
          /\ cycle' = [cycle EXCEPT ![e] = now + d]
          /\ m_eventIds' = m_eventIds \cup {NextEventId}
          /\ m_eventList' = m_eventList \cup {e}
          /\ fate' = [fate EXCEPT ![e] = "queued"]
          /\ s_call' = [s_call EXCEPT ![c] = e]
          /\ s_doSignal' = [s_doSignal EXCEPT ![c] = BecomesTop(now + d)]
     ELSE /\ fate' = [fate EXCEPT ![e] = "refused"]
          /\ UNCHANGED <<s_queue, s_call, s_doSignal>>
  /\ UNCHANGED <<s_thread, s_threadState, s_signalled, heldId, stopped, now>>

NotifyScheduler(c) ==
  /\ s_doSignal[c]
  /\ s_doSignal' = [s_doSignal EXCEPT ![c] = FALSE]
  /\ s_signalled' = (s_signalled \/ s_pc \in {"wait", "timed"})
  /\ UNCHANGED <<s_queue, s_thread, s_threadState, s_call, heldId, stopped,
                 fate, now>>

\* Mutant: the id last given out, which may be another event's by now.
ReturnLastId(c) ==
  /\ s_call[c] # NoEvent
  /\ ~s_doSignal[c]
  /\ s_call' = [s_call EXCEPT ![c] = NoEvent]
  /\ heldId' = IF c \in Stopper
               THEN [heldId EXCEPT ![s_call[c]] = m_lastEventId] ELSE heldId
  /\ UNCHANGED <<s_queue, s_thread, s_threadState, s_signalled, s_doSignal,
                 stopped, fate, now>>

\* return task->getEventId(): if the event has been deleted meanwhile the value
\* is whatever the memory holds by now.
ReturnId(c) ==
  /\ s_call[c] # NoEvent
  /\ ~s_doSignal[c]
  /\ s_call' = [s_call EXCEPT ![c] = NoEvent]
  /\ IF c \notin Stopper
     THEN UNCHANGED heldId
     ELSE \E id \in IF fate[s_call[c]] \in Deleted
                    THEN 0..MaxId ELSE {eventId[s_call[c]]} :
            heldId' = [heldId EXCEPT ![s_call[c]] = id]
  /\ UNCHANGED <<s_queue, s_thread, s_threadState, s_signalled, s_doSignal,
                 stopped, fate, now>>

\* stopEvent() for the event e; its creator forgets the id, whatever the result.
StopEvent(e) ==
  /\ heldId[e] # 0
  /\ heldId' = [heldId EXCEPT ![e] = 0]
  /\ stopped' = IF heldId[e] \in m_eventIds THEN stopped \cup {e} ELSE stopped
  /\ m_eventIds' = m_eventIds \ {heldId[e]}
  /\ UNCHANGED <<m_eventList, m_lastEventId, eventId, cycle, s_thread,
                 s_threadState, s_signalled, s_call, s_doSignal, fate, now>>

----------------------------------------------------------------------------
(* schedulerThread() *)

TestSchedulerState ==
  /\ s_pc = "test"
  /\ s_pc' = IF s_threadState = "TERMINATED" THEN "exit" ELSE "lock"
  /\ UNCHANGED <<s_queue, s_deadline, s_task, s_runTask, s_clients,
                 s_threadState, s_signalled, fate, now>>

WaitForEvent ==
  /\ s_pc = "lock"
  /\ m_eventList = {}
  /\ s_pc' = "wait"
  /\ s_signalled' = FALSE
  /\ UNCHANGED <<s_queue, s_deadline, s_task, s_runTask, s_clients,
                 s_threadState, fate, now>>

WaitForTop ==
  /\ s_pc = "lock"
  /\ m_eventList # {}
  /\ s_pc' = "timed"
  /\ \E e \in Top : s_deadline' = cycle[e]
  /\ s_signalled' = FALSE
  /\ UNCHANGED <<s_queue, s_task, s_runTask, s_clients, s_threadState, fate, now>>

\* Notified, or woken for no reason: nothing is taken from the queue.
WakeScheduler ==
  /\ s_pc \in {"wait", "timed"}
  /\ s_pc' = "test"
  /\ s_signalled' = FALSE
  /\ UNCHANGED <<s_queue, s_deadline, s_task, s_runTask, s_clients,
                 s_threadState, fate, now>>

SchedulerWoken == s_signalled /\ WakeScheduler
SchedulerSpuriousWakeUp == ~s_signalled /\ WakeScheduler

\* Mutant: an event whose id is gone is run all the same.
TimeoutRunsAny ==
  /\ s_pc = "timed"
  /\ now >= s_deadline
  /\ IF s_threadState # "TERMINATED"
     THEN \E e \in Top :
            /\ m_eventList' = m_eventList \ {e}
            /\ m_eventIds' = m_eventIds \ {eventId[e]}
            /\ s_task' = e
            /\ s_runTask' = TRUE
            /\ s_pc' = "handOver"
     ELSE /\ s_pc' = "test"
          /\ UNCHANGED <<m_eventList, m_eventIds, s_task, s_runTask>>
  /\ s_signalled' = FALSE
  /\ UNCHANGED <<m_lastEventId, eventId, cycle, s_deadline, s_clients,
                 s_threadState, fate, now>>

\* timed_wait() gave up at its deadline: take the event that is due and see
\* whether it was stopped.
Timeout ==
  /\ s_pc = "timed"
  /\ now >= s_deadline
  /\ IF s_threadState # "TERMINATED"
     THEN \E e \in Top :
            /\ m_eventList' = m_eventList \ {e}
            /\ m_eventIds' = m_eventIds \ {eventId[e]}
            /\ s_task' = e
            /\ s_runTask' = (eventId[e] \in m_eventIds)
            /\ s_pc' = "handOver"
     ELSE /\ s_pc' = "test"
          /\ UNCHANGED <<m_eventList, m_eventIds, s_task, s_runTask>>
  /\ s_signalled' = FALSE
  /\ UNCHANGED <<m_lastEventId, eventId, cycle, s_deadline, s_clients,
                 s_threadState, fate, now>>

\* The rest of the loop body: the event goes to the dispatcher, which accepts it
\* or not, or it is deleted here.
HandOver(accepted) ==
  /\ s_pc = "handOver"
  /\ fate' = [fate EXCEPT ![s_task] =
                IF ~s_runTask THEN "discarded"
                ELSE IF accepted THEN "handed" ELSE "refused"]
  /\ s_task' = NoEvent
  /\ s_runTask' = FALSE
  /\ s_pc' = "test"
  /\ UNCHANGED <<s_queue, s_deadline, s_clients, s_threadState, s_signalled, now>>

----------------------------------------------------------------------------
(* stop(), shutdown(): neither notifies m_eventSignal. *)

StopScheduler ==
  /\ s_threadState' = "CLOSING"
  /\ UNCHANGED <<s_queue, s_thread, s_clients, s_signalled, fate, now>>

ShutdownScheduler ==
  /\ s_threadState' = "TERMINATED"
  /\ fate' = [e \in Event |-> IF e \in m_eventList THEN "cleared" ELSE fate[e]]
  /\ m_eventList' = {}
  /\ m_eventIds' = {}
  /\ UNCHANGED <<m_lastEventId, eventId, cycle, s_thread, s_clients, s_signalled,
                 now>>

Tick ==
  /\ now < MaxTime
  /\ now' = now + 1
  /\ UNCHANGED <<s_queue, s_thread, s_clients, s_threadState, s_signalled, fate>>

\* The dispatcher has run an event it accepted and deletes it.
Dispose(e) ==
  /\ fate[e] = "handed"
  /\ fate' = [fate EXCEPT ![e] = "disposed"]
  /\ UNCHANGED <<s_queue, s_thread, s_clients, s_threadState, s_signalled, now>>

----------------------------------------------------------------------------
SchedulerThread ==
  TestSchedulerState \/ WaitForEvent \/ WaitForTop \/ SchedulerWoken \/ Timeout

SchedulerCalls ==
  \/ \E c \in Client, e \in Event, d \in Delays : AddEvent(c, e, d)
  \/ \E c \in Client : NotifyScheduler(c) \/ ReturnId(c)
  \/ \E e \in Event : StopEvent(e)

\* The scheduler on its own.  The threads in Stopper stand for the dispatcher's:
\* it accepts what it is given until the server is stopped, and while it is
\* inside an addEvent() it disposes of no event and stops nothing.
StopperIsOutside == \A c \in Stopper : s_call[c] = NoEvent

SchedulerNext ==
  \/ SchedulerThread
  \/ SchedulerSpuriousWakeUp
  \/ SchedulerCalls
  \/ HandOver(TRUE)
  \/ s_threadState # "RUNNING" /\ HandOver(FALSE)
  \/ s_threadState = "RUNNING" /\ StopperIsOutside /\ StopScheduler
  \/ s_threadState = "CLOSING" /\ StopperIsOutside /\ ShutdownScheduler
  \/ Tick
  \/ \E e \in Event : StopperIsOutside /\ Dispose(e)

SchedulerSpec == SchedulerInit /\ [][SchedulerNext]_s_vars
----------------------------------------------------------------------------
Fates == {"new", "queued", "handed", "cleared"} \cup Deleted

\* The type invariant; the thread has an event in hand exactly while it is between
\* taking it from the queue and handing it over.
SchedulerTypeOK ==
  /\ m_eventList \subseteq Event
  /\ m_eventIds \subseteq 0..MaxId
  /\ m_lastEventId \in 0..MaxId
  /\ s_threadState \in {"RUNNING", "CLOSING", "TERMINATED"}
  /\ s_pc \in {"test", "lock", "wait", "timed", "handOver", "exit"}
  /\ s_deadline \in 0..MaxTime
  /\ s_task \in IF s_pc = "handOver" THEN Event ELSE {NoEvent}
  /\ s_runTask \in BOOLEAN
  /\ s_signalled \in BOOLEAN
  /\ s_call \in [Client -> Event \cup {NoEvent}]
  /\ s_doSignal \in [Client -> BOOLEAN]
  /\ heldId \in [Event -> 0..MaxId]
  /\ eventId \in [Event -> 0..MaxId]
  /\ cycle \in [Event -> 0..MaxTime]
  /\ fate \in [Event -> Fates]
  /\ stopped \subseteq Event
  /\ now \in 0..MaxTime

\* "ok we had a timeout, so there has to be an event we have to execute": when
\* the wait times out the queue is not empty, and what it has on top is due.
TimeoutFindsDueEvent ==
  (s_pc = "timed" /\ now >= s_deadline /\ s_threadState # "TERMINATED") =>
    /\ Top # {}
    /\ \A e \in Top : cycle[e] <= now

\* While the thread sleeps longer than until the first event is due, a wake-up
\* is on its way: an earlier event never waits for a later one.
NoLateEvent ==
  \A e \in m_eventList :
    (s_pc = "wait" \/ (s_pc = "timed" /\ cycle[e] < s_deadline)) =>
      (s_signalled \/ \E c \in Client : s_doSignal[c])

\* An event for which stopEvent() returned true never reaches the dispatcher
\* (as long as no two events share an id).
StoppedNeverRuns ==
  \A e \in stopped : fate[e] \notin {"handed", "refused", "disposed"} /\
                     ~(s_task = e /\ s_runTask)

\* m_eventIds holds the ids of the waiting events that were not stopped, and of
\* no other: the set does not grow, and stopEvent() cannot revoke a stranger.
IdsOfTheWaiting ==
  m_eventIds = {eventId[e] : e \in m_eventList \ stopped}

\* The id a creator keeps is that of its own event, even though addEvent() reads
\* it after the lock was given back.
HeldIdIsOwn ==
  \A e \in Event : heldId[e] \in {0, eventId[e]}

\* What the thread and the callers rely on: the ids, and what a timeout finds.
SchedulerInv ==
  /\ SchedulerTypeOK
  /\ IdsOfTheWaiting
  /\ HeldIdIsOwn
  /\ TimeoutFindsDueEvent
=============================================================================
