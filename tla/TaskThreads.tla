----------------------------- MODULE TaskThreads -----------------------------
(****************************************************************************)
(* The dispatcher's and the scheduler's threads together, with the network  *)
(* thread that posts to both, from the start of the server to the joins at  *)
(* the end of main().  An event is a task: the scheduler's thread posts it  *)
(* when it is due.  setGameState(GAME_STATE_SHUTDOWN) posts Game::shutdown, *)
(* stops the scheduler, then the dispatcher; Game::shutdown shuts down the  *)
(* scheduler, then the dispatcher.                                          *)
(****************************************************************************)
EXTENDS Dispatcher, Scheduler

CONSTANT SchedulerSelf  \* the scheduler's own thread

ASSUME ThreadsAssumption ==
  /\ SchedulerSelf \in Caller
  /\ Event \subseteq Task \ (Timed \cup {ShutdownTask})
  /\ Client = Thread \ {SchedulerSelf}
  /\ Stopper = {Self}

vars == <<d_vars, s_vars>>

\* The tasks that are posted directly.
Posted == Ordinary \ Event

\* The dispatcher's thread is not inside an addEvent().
OutsideAddEvent == s_call[Self] = NoEvent

Init == DispatcherInit /\ SchedulerInit

----------------------------------------------------------------------------
(* The dispatcher's thread *)

DispatcherLoop ==
  /\ \/ TestState \/ TakeTask \/ WaitSignal \/ Woken \/ Expire \/ BeginTask
     \/ OutsideAddEvent /\ FinishTask
     \/ FlushTask \/ FlushedTaskReturns \/ FlushedTaskPosts \/ EndFlush
  /\ UNCHANGED s_vars

Request ==
  /\ OutsideAddEvent
  /\ RequestShutdown
  /\ UNCHANGED s_vars

\* Mutant: the dispatcher is stopped before the scheduler.
StopDispatcherFirst ==
  \/ /\ d_pc = "stopping"
     /\ d_threadState = "RUNNING"
     /\ ~d_doSignal[Self]
     /\ d_threadState' = "CLOSING"
     /\ UNCHANGED <<m_taskList, d_pc, d_task, d_flushed, d_signalled,
                    d_doSignal, outcome, s_vars>>
  \/ /\ d_pc = "stopping"
     /\ d_threadState = "CLOSING"
     /\ d_pc' = "run"
     /\ StopScheduler
     /\ UNCHANGED <<m_taskList, d_threadState, d_task, d_flushed, d_signalled,
                    d_doSignal, outcome>>

StopBoth ==
  \/ /\ d_pc = "stopping"
     /\ s_threadState = "RUNNING"
     /\ ~d_doSignal[Self]
     /\ StopScheduler
     /\ UNCHANGED d_vars
  \/ /\ s_threadState = "CLOSING"
     /\ StopDispatcher
     /\ UNCHANGED s_vars

\* Mutant: Game::shutdown leaves the scheduler running.
ShutdownDispatcherOnly == ShutdownDispatcher /\ UNCHANGED s_vars

ShutdownBoth ==
  \/ /\ d_pc = "run"
     /\ d_task = ShutdownTask
     /\ s_threadState = "CLOSING"
     /\ ShutdownScheduler
     /\ UNCHANGED d_vars
  \/ /\ s_threadState = "TERMINATED"
     /\ ShutdownDispatcher
     /\ UNCHANGED s_vars

\* A task posts another, starts an event or stops one.
TaskPosts(t) ==
  /\ OutsideAddEvent
  /\ PostFromTask(t)
  /\ UNCHANGED s_vars

TaskAddsEvent(e, d) ==
  /\ d_pc = "run" /\ d_task # ShutdownTask
  /\ AddEvent(Self, e, d)
  /\ UNCHANGED d_vars

TaskStopsEvent(e) ==
  /\ d_pc = "run" /\ OutsideAddEvent
  /\ StopEvent(e)
  /\ UNCHANGED d_vars

----------------------------------------------------------------------------
(* The scheduler's thread: it finishes its addTask() before it loops. *)

SchedulerLoop ==
  /\ ~d_doSignal[SchedulerSelf]
  /\ SchedulerThread
  /\ UNCHANGED d_vars

HandOverEvent ==
  /\ s_pc = "handOver"
  /\ IF s_runTask
     THEN Post(SchedulerSelf, s_task)
     ELSE UNCHANGED d_vars
  /\ HandOver(d_threadState = "RUNNING")

----------------------------------------------------------------------------
(* The network thread, the notifications and the clock. *)

NetworkPosts ==
  \E p \in Caller \ {SchedulerSelf} :
    \/ \E t \in Posted : Post(p, t) /\ UNCHANGED s_vars
    \/ \E e \in Event, d \in Delays : AddEvent(p, e, d) /\ UNCHANGED d_vars

Notifications ==
  \/ \E p \in Thread : Notify(p) /\ UNCHANGED s_vars
  \/ \E c \in Client : (NotifyScheduler(c) \/ ReturnId(c)) /\ UNCHANGED d_vars

Clock == Tick /\ UNCHANGED d_vars

SpuriousWakeUps ==
  \/ SpuriousWakeUp /\ UNCHANGED s_vars
  \/ SchedulerSpuriousWakeUp /\ UNCHANGED d_vars

Next ==
  \/ DispatcherLoop
  \/ Request \/ StopBoth \/ ShutdownBoth
  \/ \E t \in Posted : TaskPosts(t)
  \/ \E e \in Event, d \in Delays : TaskAddsEvent(e, d)
  \/ \E e \in Event : TaskStopsEvent(e)
  \/ SchedulerLoop
  \/ HandOverEvent
  \/ NetworkPosts
  \/ Notifications
  \/ Clock
  \/ SpuriousWakeUps

Spec == Init /\ [][Next]_vars

\* Threads that can run do run, task bodies return, time passes, and a wait whose
\* deadline lies in the past is not cut short by wake-ups for ever.
FairSpec ==
  /\ Spec
  /\ WF_vars(DispatcherLoop \/ StopBoth \/ ShutdownBoth)
  /\ WF_vars(SchedulerLoop)
  /\ SF_vars(SchedulerLoop /\ Timeout)
  /\ WF_vars(HandOverEvent)
  /\ WF_vars(Notifications)
  /\ WF_vars(Clock)

----------------------------------------------------------------------------
\* The SchedulerTask object of an event has been deleted.
EventDeleted(e) ==
  \/ fate[e] \in Deleted
  \/ outcome[e] \in {"executed", "expired", "refused"}

\* addEvent() reads the id of the event after it gave the lock back.  When the
\* dispatcher's thread calls it, the only one to use the id, the event still
\* exists: that thread, busy in the call, is the one that would delete it, and no
\* event is refused before it has stopped the scheduler itself.
IdReadFromLiveEvent ==
  s_call[Self] # NoEvent => ~EventDeleted(s_call[Self])

\* As long as addEvent() accepts events, the dispatcher accepts them when they are
\* due: the order of the two stop() calls loses no event behind a valid id.
RefusedOnlyAfterStop ==
  (\E e \in Event : fate[e] = "refused") => s_threadState # "RUNNING"

\* What the two threads rely on when they touch the same event.
ThreadsInv == IdReadFromLiveEvent /\ RefusedOnlyAfterStop

\* An event that was added runs, unless it is stopped or the server shuts down.
EventRuns ==
  \A e \in Event :
    fate[e] = "queued" ~>
      (outcome[e] = "executed" \/ e \in stopped \/ outcome[ShutdownTask] # "new")

\* After a shutdown request both threads reach their end, unless flush() has
\* locked the dispatcher's out (the scheduler's may then hang in its addTask()), or
\* the scheduler's thread sleeps on an empty queue: nobody wakes it, and main()
\* waits in g_scheduler.join() for ever.
BothThreadsEnd ==
  d_pc = "stopping" ~>
    \/ d_pc = "selfLock"
    \/ /\ d_pc = "exit" /\ s_threadState = "TERMINATED"
       /\ s_pc \in {"exit", "wait"}
=============================================================================
