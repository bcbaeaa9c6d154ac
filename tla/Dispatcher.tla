------------------------------ MODULE Dispatcher ------------------------------
(****************************************************************************)
(* The dispatcher of tasks.cpp: one thread that runs, one after the other,  *)
(* the tasks any thread posts with addTask().  Everything the game does     *)
(* happens in such a task, so what is promised here (a task that was        *)
(* accepted runs once, in posting order, and the server can still shut      *)
(* down) is what every other part of the server stands on.                  *)
(*                                                                          *)
(* A critical section under m_taskLock is one step, except flush(): it runs *)
(* task bodies while shutdown() holds the lock, so its steps are separate   *)
(* and no other thread takes the lock meanwhile (LockFree).                 *)
(****************************************************************************)
EXTENDS Naturals, Sequences, FiniteSets

CONSTANTS
  Caller,        \* the threads other than the dispatcher's that call addTask()
  Task,          \* the Task objects that are ever created
  Timed,         \* those made with an expiration (createTask(ms, f))
  ShutdownTask,  \* the one bound to Game::shutdown
  Self,          \* the dispatcher's own thread
  NoTask

ASSUME DispatcherAssumption ==
  /\ ShutdownTask \in Task
  /\ NoTask \notin Task
  /\ Timed \subseteq Task \ {ShutdownTask}
  /\ Self \notin Caller

VARIABLES
  m_taskList,      \* the queue
  d_threadState,   \* Dispatcher::m_threadState
  d_pc,            \* where dispatcherThread() stands
  d_task,          \* the task the loop took from the queue
  d_flushed,       \* the task flush() is running
  d_signalled,     \* m_taskSignal was notified while the thread waits on it
  d_doSignal,      \* per thread: addTask() left the lock and still has to notify
  outcome          \* per task: what became of it

d_vars == <<m_taskList, d_threadState, d_pc, d_task, d_flushed, d_signalled,
            d_doSignal, outcome>>

Thread == Caller \cup {Self}

\* The task bodies a thread other than the shutdown request posts.
Ordinary == Task \ {ShutdownTask}

\* The program points of dispatcherThread() at which m_taskLock is held.
HoldingLock == {"flush", "flushRun", "selfLock"}
LockFree == d_pc \notin HoldingLock

DispatcherInit ==
  /\ m_taskList = <<>>
  /\ d_threadState = "RUNNING"
  /\ d_pc = "test"
  /\ d_task = NoTask
  /\ d_flushed = NoTask
  /\ d_signalled = FALSE
  /\ d_doSignal = [p \in Thread |-> FALSE]
  /\ outcome = [t \in Task |-> "new"]

----------------------------------------------------------------------------
(* addTask(): thread p posts t.  The notification comes after the unlock.   *)

\* Mutant: the state of the thread is not looked at.
AddTaskAnyState(p, t) ==
  /\ LockFree
  /\ ~d_doSignal[p]
  /\ outcome[t] = "new"
  /\ m_taskList' = Append(m_taskList, t)
  /\ outcome' = [outcome EXCEPT ![t] = "queued"]
  /\ d_doSignal' = [d_doSignal EXCEPT ![p] = (m_taskList = <<>>)]

\* Mutant: an empty queue is taken for one that somebody is serving.
AddTaskNoSignal(p, t) ==
  /\ LockFree
  /\ ~d_doSignal[p]
  /\ outcome[t] = "new"
  /\ IF d_threadState = "RUNNING"
     THEN /\ m_taskList' = Append(m_taskList, t)
          /\ outcome' = [outcome EXCEPT ![t] = "queued"]
          /\ d_doSignal' = [d_doSignal EXCEPT ![p] = Len(m_taskList) > 0]
     ELSE /\ outcome' = [outcome EXCEPT ![t] = "refused"]
          /\ UNCHANGED <<m_taskList, d_doSignal>>

AddTask(p, t) ==
  /\ LockFree
  /\ ~d_doSignal[p]
  /\ outcome[t] = "new"
  /\ IF d_threadState = "RUNNING"
     THEN /\ m_taskList' = Append(m_taskList, t)
          /\ outcome' = [outcome EXCEPT ![t] = "queued"]
          /\ d_doSignal' = [d_doSignal EXCEPT ![p] = (m_taskList = <<>>)]
     ELSE /\ outcome' = [outcome EXCEPT ![t] = "refused"]
          /\ UNCHANGED <<m_taskList, d_doSignal>>

\* notify_one(): lost unless the dispatcher's thread is waiting.
Notify(p) ==
  /\ d_doSignal[p]
  /\ d_doSignal' = [d_doSignal EXCEPT ![p] = FALSE]
  /\ d_signalled' = (d_signalled \/ d_pc = "wait")
  /\ UNCHANGED <<m_taskList, d_threadState, d_pc, d_task, d_flushed, outcome>>

Post(p, t) ==
  /\ AddTask(p, t)
  /\ UNCHANGED <<d_threadState, d_pc, d_task, d_flushed, d_signalled>>

----------------------------------------------------------------------------
(* dispatcherThread() *)

\* while(m_threadState != STATE_TERMINATED), read without the lock.
TestState ==
  /\ d_pc = "test"
  /\ d_pc' = IF d_threadState = "TERMINATED" THEN "exit" ELSE "lock"
  /\ UNCHANGED <<m_taskList, d_threadState, d_task, d_flushed, d_signalled,
                 d_doSignal, outcome>>

\* Mutant: the newest task first.
PopFrontIsBack ==
  IF m_taskList # <<>> /\ d_threadState # "TERMINATED"
  THEN LET last == m_taskList[Len(m_taskList)]
       IN  /\ d_task' = last
           /\ m_taskList' = SubSeq(m_taskList, 1, Len(m_taskList) - 1)
           /\ outcome' = [outcome EXCEPT ![last] = "taken"]
           /\ d_pc' = "begin"
  ELSE /\ d_pc' = "test"
       /\ UNCHANGED <<d_task, m_taskList, outcome>>

\* Take the first task, or none (the queue was empty at a spurious wake-up).
PopFront ==
  IF m_taskList # <<>> /\ d_threadState # "TERMINATED"
  THEN /\ d_task' = Head(m_taskList)
       /\ m_taskList' = Tail(m_taskList)
       /\ outcome' = [outcome EXCEPT ![Head(m_taskList)] = "taken"]
       /\ d_pc' = "begin"
  ELSE /\ d_pc' = "test"
       /\ UNCHANGED <<d_task, m_taskList, outcome>>

TakeTask ==
  /\ d_pc = "lock"
  /\ m_taskList # <<>>
  /\ PopFront
  /\ UNCHANGED <<d_threadState, d_flushed, d_signalled, d_doSignal>>

WaitSignal ==
  /\ d_pc = "lock"
  /\ m_taskList = <<>>
  /\ d_pc' = "wait"
  /\ d_signalled' = FALSE
  /\ UNCHANGED <<m_taskList, d_threadState, d_task, d_flushed, d_doSignal,
                 outcome>>

\* The wait returns with the lock held again; the queue is not tested in a loop.
WakeUp ==
  /\ d_pc = "wait"
  /\ d_signalled' = FALSE
  /\ PopFront
  /\ UNCHANGED <<d_threadState, d_flushed, d_doSignal>>

Woken == d_signalled /\ WakeUp
SpuriousWakeUp == ~d_signalled /\ WakeUp

\* hasExpired(): the clock decides, for a task that has an expiration.
Expire ==
  /\ d_pc = "begin"
  /\ d_task \in Timed
  /\ outcome' = [outcome EXCEPT ![d_task] = "expired"]
  /\ d_task' = NoTask
  /\ d_pc' = "test"
  /\ UNCHANGED <<m_taskList, d_threadState, d_flushed, d_signalled, d_doSignal>>

BeginTask ==
  /\ d_pc = "begin"
  /\ d_pc' = "run"
  /\ UNCHANGED <<m_taskList, d_threadState, d_task, d_flushed, d_signalled,
                 d_doSignal, outcome>>

\* The body of the running task posts another one.
PostFromTask(t) ==
  /\ d_pc = "run"
  /\ d_task # ShutdownTask
  /\ t \in Ordinary
  /\ Post(Self, t)

FinishTask ==
  /\ d_pc = "run"
  /\ ~d_doSignal[Self]
  /\ d_task = ShutdownTask => d_threadState = "TERMINATED"
  /\ outcome' = [outcome EXCEPT ![d_task] = "executed"]
  /\ d_task' = NoTask
  /\ d_pc' = "test"
  /\ UNCHANGED <<m_taskList, d_threadState, d_flushed, d_signalled, d_doSignal>>

----------------------------------------------------------------------------
(* Shutting down: a task runs setGameState(GAME_STATE_SHUTDOWN), which posts *)
(* Game::shutdown and then calls stop(); Game::shutdown calls shutdown().    *)
(* Any other thread may post between the two.                                *)

RequestShutdown ==
  /\ d_pc = "run"
  /\ AddTask(Self, ShutdownTask)
  /\ d_pc' = "stopping"
  /\ UNCHANGED <<d_threadState, d_task, d_flushed, d_signalled>>

StopDispatcher ==
  /\ d_pc = "stopping"
  /\ ~d_doSignal[Self]
  /\ d_threadState' = "CLOSING"
  /\ d_pc' = "run"
  /\ UNCHANGED <<m_taskList, d_task, d_flushed, d_signalled, d_doSignal, outcome>>

ShutdownDispatcher ==
  /\ d_pc = "run"
  /\ d_task = ShutdownTask
  /\ d_threadState # "TERMINATED"
  /\ d_threadState' = "TERMINATED"
  /\ d_pc' = "flush"
  /\ UNCHANGED <<m_taskList, d_task, d_flushed, d_signalled, d_doSignal, outcome>>

\* flush() takes the rest of the queue, task by task, and asks none whether it
\* has expired.
FlushTask ==
  /\ d_pc = "flush"
  /\ m_taskList # <<>>
  /\ d_flushed' = Head(m_taskList)
  /\ m_taskList' = Tail(m_taskList)
  /\ outcome' = [outcome EXCEPT ![Head(m_taskList)] = "taken"]
  /\ d_pc' = "flushRun"
  /\ UNCHANGED <<d_threadState, d_task, d_signalled, d_doSignal>>

FlushedTaskReturns ==
  /\ d_pc = "flushRun"
  /\ outcome' = [outcome EXCEPT ![d_flushed] = "executed"]
  /\ d_flushed' = NoTask
  /\ d_pc' = "flush"
  /\ UNCHANGED <<m_taskList, d_threadState, d_task, d_signalled, d_doSignal>>

\* A flushed task that calls addTask() locks m_taskLock, a plain mutex, which
\* its own thread already holds: it never gets any further.
FlushedTaskPosts ==
  /\ d_pc = "flushRun"
  /\ d_pc' = "selfLock"
  /\ UNCHANGED <<m_taskList, d_threadState, d_task, d_flushed, d_signalled,
                 d_doSignal, outcome>>

EndFlush ==
  /\ d_pc = "flush"
  /\ m_taskList = <<>>
  /\ d_pc' = "run"
  /\ UNCHANGED <<m_taskList, d_threadState, d_task, d_flushed, d_signalled,
                 d_doSignal, outcome>>

----------------------------------------------------------------------------
DispatcherThread ==
  \/ TestState \/ TakeTask \/ WaitSignal \/ Woken
  \/ Expire \/ BeginTask \/ FinishTask
  \/ StopDispatcher \/ ShutdownDispatcher
  \/ FlushTask \/ FlushedTaskReturns \/ FlushedTaskPosts \/ EndFlush

DispatcherNext ==
  \/ DispatcherThread
  \/ SpuriousWakeUp
  \/ RequestShutdown
  \/ \E t \in Ordinary : PostFromTask(t)
  \/ \E p \in Caller, t \in Ordinary : Post(p, t)
  \/ \E p \in Thread : Notify(p)

DispatcherSpec == DispatcherInit /\ [][DispatcherNext]_d_vars

\* The operating system runs every thread that can run; a task body returns.
DispatcherFairSpec ==
  /\ DispatcherSpec
  /\ WF_d_vars(DispatcherThread)
  /\ \A p \in Thread : WF_d_vars(Notify(p))

----------------------------------------------------------------------------
ProgramPoints == {"test", "lock", "wait", "begin", "run", "stopping", "flush",
                  "flushRun", "selfLock", "exit"}

\* The type invariant; the thread has a task in hand exactly while it is between
\* taking and deleting one.
DispatcherTypeOK ==
  /\ m_taskList \in Seq(Task)
  /\ d_threadState \in {"RUNNING", "CLOSING", "TERMINATED"}
  /\ d_pc \in ProgramPoints
  /\ d_task \in IF d_pc \in {"test", "lock", "wait", "exit"} THEN {NoTask} ELSE Task
  /\ d_flushed \in IF d_pc \in {"flushRun", "selfLock"} THEN Task ELSE {NoTask}
  /\ d_signalled \in BOOLEAN
  /\ d_doSignal \in [Thread -> BOOLEAN]
  /\ outcome \in [Task -> {"new", "queued", "taken", "executed", "expired",
                           "refused"}]

\* A thread that sleeps on m_taskSignal while there is work has a wake-up on its
\* way: addTask() only notifies when it found the queue empty, and does so after
\* it gave the lock back.
NoLostWakeUp ==
  (d_pc = "wait" /\ m_taskList # <<>>) =>
    (d_signalled \/ \E p \in Thread : d_doSignal[p])

\* The queue holds the accepted tasks that were not taken yet, each once: no
\* Task object is lost (leaked), run twice or deleted twice.
QueueHoldsTheAccepted ==
  /\ \A t \in Task : outcome[t] = "queued" <=>
       \E i \in 1..Len(m_taskList) : m_taskList[i] = t
  /\ \A i, j \in 1..Len(m_taskList) : m_taskList[i] = m_taskList[j] => i = j

\* Once shutdown() has given the lock back nothing is left in the queue and
\* nothing can enter it: no accepted task is abandoned by the exit of the thread.
NothingAbandoned ==
  (d_threadState = "TERMINATED" /\ LockFree) => m_taskList = <<>>

\* What the dispatcher's thread rests on, in one: the types, a queue that holds what
\* was accepted, no sleep on work, nothing left behind.
DispatcherInv ==
  /\ DispatcherTypeOK
  /\ QueueHoldsTheAccepted
  /\ NoLostWakeUp
  /\ NothingAbandoned

\* The dispatcher keeps the promise of TaskQueue: what the rest of the server
\* relies on when it touches game state without a lock.
Promise == INSTANCE TaskQueue WITH pending <- m_taskList, status <- outcome

\* Accepted tasks are taken in posting order, once, and never two at a time.
TasksInOrderOneAtATime == Promise!TQSpec

\* A task that was accepted is executed, or dropped because it had expired,
\* unless flush() has locked its own thread out.
AcceptedTaskRuns ==
  \A t \in Task :
    outcome[t] = "queued" ~>
      (outcome[t] \in {"executed", "expired"} \/ d_pc = "selfLock")

=============================================================================
