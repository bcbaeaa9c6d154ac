------------------------- MODULE TaskThreads_proofs -------------------------
(****************************************************************************)
(* The two threads, for any number of posting threads, clients, tasks and   *)
(* events.                                                                  *)
(*                                                                          *)
(* The dispatcher: its type, that no task is lost or run twice, that it     *)
(* never sleeps on work, that it leaves nothing behind when it ends, and    *)
(* that it implements TaskQueue.                                            *)
(*                                                                          *)
(* The scheduler: its types, that it sleeps past no event, that a timed     *)
(* wait ends with an event that is due, and, as long as the ids do not wrap *)
(* around, that stopEvent() stops the event it is called for and no other.  *)
(*                                                                          *)
(* The two together: each keeps to its own specification, so that what is   *)
(* shown of either holds of the server; and what they rely on where they    *)
(* touch the same event.                                                    *)
(****************************************************************************)
EXTENDS TaskThreads, FiniteSetTheorems, WellFoundedInduction, TLAPS

----------------------------------------------------------------------------
(* The dispatcher *)


\* The tasks under way are the one the loop has in hand and the one flush() runs.
TakenInHand ==
  \A t \in Task : outcome[t] = "taken" <=> t \in {d_task, d_flushed}

\* Only Game::shutdown flushes the queue, and it is not the task it flushes.
FlushInShutdown ==
  /\ d_pc \in HoldingLock => d_threadState = "TERMINATED" /\ d_task = ShutdownTask
  /\ d_flushed # NoTask => d_flushed # d_task

\* The inductive invariant.
IInv == /\ DispatcherTypeOK
        /\ QueueHoldsTheAccepted
        /\ NoLostWakeUp
        /\ NothingAbandoned
        /\ TakenInHand
        /\ FlushInShutdown

\* What Append and Tail do to a queue in which every task stands once.
LEMMA AppendKeeps ==
  ASSUME NEW s \in Seq(Task), NEW t \in Task,
         \A i \in 1..Len(s) : s[i] # t,
         \A i, j \in 1..Len(s) : s[i] = s[j] => i = j
  PROVE  /\ Append(s, t) \in Seq(Task)
         /\ Append(s, t) # <<>>
         /\ \A u \in Task : (\E i \in 1..Len(Append(s, t)) : Append(s, t)[i] = u) <=>
              (u = t \/ \E i \in 1..Len(s) : s[i] = u)
         /\ \A i, j \in 1..Len(Append(s, t)) :
              Append(s, t)[i] = Append(s, t)[j] => i = j
<1>1. /\ Append(s, t) \in Seq(Task)
      /\ Len(Append(s, t)) = Len(s) + 1
      /\ \A i \in 1..Len(s) : Append(s, t)[i] = s[i]
      /\ Append(s, t)[Len(s) + 1] = t
  OBVIOUS
<1>2. Append(s, t) # <<>>
  BY <1>1
<1>3. ASSUME NEW u \in Task
      PROVE  (\E i \in 1..Len(Append(s, t)) : Append(s, t)[i] = u) <=>
               (u = t \/ \E i \in 1..Len(s) : s[i] = u)
  BY <1>1
<1>4. \A i, j \in 1..Len(Append(s, t)) :
         Append(s, t)[i] = Append(s, t)[j] => i = j
  BY <1>1
<1>5. QED
  BY <1>1, <1>2, <1>3, <1>4

LEMMA TailKeeps ==
  ASSUME NEW s \in Seq(Task), s # <<>>,
         \A i, j \in 1..Len(s) : s[i] = s[j] => i = j
  PROVE  /\ Tail(s) \in Seq(Task)
         /\ Head(s) \in Task
         /\ \E i \in 1..Len(s) : s[i] = Head(s)
         /\ \A u \in Task : (\E i \in 1..Len(Tail(s)) : Tail(s)[i] = u) <=>
              (u # Head(s) /\ \E i \in 1..Len(s) : s[i] = u)
         /\ \A i, j \in 1..Len(Tail(s)) : Tail(s)[i] = Tail(s)[j] => i = j
<1>1. /\ Tail(s) \in Seq(Task)
      /\ Len(s) \in Nat \ {0}
      /\ Len(Tail(s)) = Len(s) - 1
      /\ \A i \in 1..Len(Tail(s)) : Tail(s)[i] = s[i + 1]
      /\ Head(s) = s[1]
      /\ Head(s) \in Task
  OBVIOUS
<1>2. \E i \in 1..Len(s) : s[i] = Head(s)
  BY <1>1
<1>3. ASSUME NEW u \in Task
      PROVE  (\E i \in 1..Len(Tail(s)) : Tail(s)[i] = u) <=>
               (u # Head(s) /\ \E i \in 1..Len(s) : s[i] = u)
  <2>1. ASSUME NEW i \in 1..Len(Tail(s)), Tail(s)[i] = u
        PROVE  u # Head(s) /\ \E j \in 1..Len(s) : s[j] = u
    <3>1. i + 1 \in 1..Len(s) /\ 1 \in 1..Len(s) /\ s[i + 1] = u
      BY <1>1, <2>1
    <3>2. QED
      BY <1>1, <3>1
  <2>2. ASSUME u # Head(s), NEW i \in 1..Len(s), s[i] = u
        PROVE  \E j \in 1..Len(Tail(s)) : Tail(s)[j] = u
    <3>1. i # 1 /\ i - 1 \in 1..Len(Tail(s)) /\ (i - 1) + 1 = i
      BY <1>1, <2>2
    <3>2. Tail(s)[i - 1] = u
      BY <1>1, <2>2, <3>1
    <3>3. QED
      BY <3>1, <3>2
  <2>3. QED
    BY <2>1, <2>2
<1>4. ASSUME NEW i \in 1..Len(Tail(s)), NEW j \in 1..Len(Tail(s)),
             Tail(s)[i] = Tail(s)[j]
      PROVE  i = j
  <2>1. i + 1 \in 1..Len(s) /\ j + 1 \in 1..Len(s) /\ s[i + 1] = s[j + 1]
    BY <1>1, <1>4
  <2>2. i + 1 = j + 1
    BY <2>1
  <2>3. QED
    BY <2>2
<1>5. QED
  BY <1>1, <1>2, <1>3, <1>4

----------------------------------------------------------------------------
\* addTask() keeps the invariant, whoever calls it.
LEMMA AddTaskKeeps ==
  ASSUME IInv, NEW p \in Thread, NEW t \in Task, AddTask(p, t),
         UNCHANGED <<d_threadState, d_task, d_flushed, d_signalled>>,
         d_pc' = d_pc \/ (d_pc = "run" /\ d_pc' = "stopping")
  PROVE  IInv'
<1> USE DEF IInv
<1>1. CASE d_threadState # "RUNNING"
  <2>1. UNCHANGED <<m_taskList, d_doSignal>> /\ outcome' = [outcome EXCEPT ![t] = "refused"]
        /\ outcome[t] = "new"
    BY <1>1 DEF AddTask
  <2>2. DispatcherTypeOK'
    BY <2>1 DEF DispatcherTypeOK, ProgramPoints, Thread
  <2>3. QueueHoldsTheAccepted'
    <3>1. \A u \in Task : outcome'[u] = "queued" <=> outcome[u] = "queued"
      BY <2>1 DEF DispatcherTypeOK
    <3>2. m_taskList' = m_taskList
      BY <2>1
    <3>3. QED
      BY <3>1, <3>2 DEF QueueHoldsTheAccepted
  <2>4. NoLostWakeUp' /\ NothingAbandoned'
    BY <2>1 DEF NoLostWakeUp, NothingAbandoned, LockFree, HoldingLock
  <2>5. TakenInHand' /\ FlushInShutdown'
    BY <2>1 DEF TakenInHand, FlushInShutdown, DispatcherTypeOK, HoldingLock
  <2>6. QED
    BY <2>2, <2>3, <2>4, <2>5
<1>2. CASE d_threadState = "RUNNING"
  <2>1. /\ m_taskList' = Append(m_taskList, t)
        /\ outcome' = [outcome EXCEPT ![t] = "queued"]
        /\ d_doSignal' = [d_doSignal EXCEPT ![p] = (m_taskList = <<>>)]
        /\ outcome[t] = "new"
        /\ ~d_doSignal[p]
    BY <1>2 DEF AddTask
  <2>2. m_taskList \in Seq(Task) /\ \A i \in 1..Len(m_taskList) : m_taskList[i] # t
    BY <2>1 DEF QueueHoldsTheAccepted, DispatcherTypeOK
  <2>3. /\ m_taskList' \in Seq(Task)
        /\ m_taskList' # <<>>
        /\ \A u \in Task : (\E i \in 1..Len(m_taskList') : m_taskList'[i] = u) <=>
              (u = t \/ \E i \in 1..Len(m_taskList) : m_taskList[i] = u)
        /\ \A i, j \in 1..Len(m_taskList') :
              m_taskList'[i] = m_taskList'[j] => i = j
    BY <2>1, <2>2, AppendKeeps DEF QueueHoldsTheAccepted
  <2>4. DispatcherTypeOK'
    BY <2>1, <2>3 DEF DispatcherTypeOK, ProgramPoints, Thread
  <2>5. QueueHoldsTheAccepted'
    BY <2>1, <2>3 DEF QueueHoldsTheAccepted, DispatcherTypeOK
  <2>6. NoLostWakeUp'
    BY <2>1 DEF NoLostWakeUp, DispatcherTypeOK
  <2>7. NothingAbandoned'
    BY <1>2 DEF NothingAbandoned
  <2>8. TakenInHand' /\ FlushInShutdown'
    BY <1>2, <2>1 DEF TakenInHand, FlushInShutdown, DispatcherTypeOK, HoldingLock
  <2>9. QED
    BY <2>4, <2>5, <2>6, <2>7, <2>8
<1>3. QED
  BY <1>1, <1>2

\* Taking the first task keeps what is said of the queue, for the loop and for
\* flush() alike.
LEMMA TakeKeepsQueue ==
  ASSUME DispatcherTypeOK, QueueHoldsTheAccepted, m_taskList # <<>>,
         m_taskList' = Tail(m_taskList),
         outcome' = [outcome EXCEPT ![Head(m_taskList)] = "taken"]
  PROVE  /\ m_taskList' \in Seq(Task)
         /\ Head(m_taskList) \in Task
         /\ outcome[Head(m_taskList)] = "queued"
         /\ outcome' \in [Task -> {"new", "queued", "taken", "executed", "expired",
                                   "refused"}]
         /\ QueueHoldsTheAccepted'
<1>1. /\ Tail(m_taskList) \in Seq(Task)
      /\ Head(m_taskList) \in Task
      /\ \E i \in 1..Len(m_taskList) : m_taskList[i] = Head(m_taskList)
      /\ \A u \in Task : (\E i \in 1..Len(Tail(m_taskList)) : Tail(m_taskList)[i] = u) <=>
            (u # Head(m_taskList) /\ \E i \in 1..Len(m_taskList) : m_taskList[i] = u)
      /\ \A i, j \in 1..Len(Tail(m_taskList)) :
            Tail(m_taskList)[i] = Tail(m_taskList)[j] => i = j
  BY TailKeeps DEF DispatcherTypeOK, QueueHoldsTheAccepted
<1>2. outcome[Head(m_taskList)] = "queued"
  BY <1>1 DEF QueueHoldsTheAccepted
<1>3. QueueHoldsTheAccepted'
  BY <1>1 DEF QueueHoldsTheAccepted, DispatcherTypeOK
<1>4. QED
  BY <1>1, <1>2, <1>3 DEF DispatcherTypeOK

LEMMA PopFrontKeepsInv ==
  ASSUME IInv, d_pc \in {"lock", "wait"}, PopFront,
         UNCHANGED <<d_threadState, d_flushed, d_doSignal>>, d_signalled' \in BOOLEAN
  PROVE  IInv'
<1> USE DEF IInv
<1>1. d_task = NoTask /\ d_flushed = NoTask
  BY DEF DispatcherTypeOK
<1>2. CASE m_taskList # <<>> /\ d_threadState # "TERMINATED"
  <2>1. /\ d_task' = Head(m_taskList)
        /\ m_taskList' = Tail(m_taskList)
        /\ outcome' = [outcome EXCEPT ![Head(m_taskList)] = "taken"]
        /\ d_pc' = "begin"
    BY <1>2 DEF PopFront
  <2>2. /\ m_taskList' \in Seq(Task)
        /\ Head(m_taskList) \in Task
        /\ outcome[Head(m_taskList)] = "queued"
        /\ outcome' \in [Task -> {"new", "queued", "taken", "executed", "expired",
                                  "refused"}]
        /\ QueueHoldsTheAccepted'
    BY <1>2, <2>1, TakeKeepsQueue
  <2>3. DispatcherTypeOK'
    BY <1>1, <2>1, <2>2 DEF DispatcherTypeOK, ProgramPoints
  <2>4. NoLostWakeUp' /\ NothingAbandoned'
    BY <1>2, <2>1 DEF NoLostWakeUp, NothingAbandoned
  <2>5. TakenInHand'
    BY <1>1, <2>1, <2>2, DispatcherAssumption DEF TakenInHand, DispatcherTypeOK
  <2>6. FlushInShutdown'
    BY <1>1, <2>1 DEF FlushInShutdown, HoldingLock
  <2>7. QED
    BY <2>2, <2>3, <2>4, <2>5, <2>6
<1>3. CASE ~(m_taskList # <<>> /\ d_threadState # "TERMINATED")
  <2>1. d_pc' = "test" /\ UNCHANGED <<d_task, m_taskList, outcome>>
    BY <1>3 DEF PopFront
  <2>2. DispatcherTypeOK'
    BY <1>1, <2>1 DEF DispatcherTypeOK, ProgramPoints
  <2>3. QueueHoldsTheAccepted' /\ TakenInHand'
    BY <2>1 DEF QueueHoldsTheAccepted, TakenInHand
  <2>4. NoLostWakeUp' /\ NothingAbandoned' /\ FlushInShutdown'
    BY <1>1, <2>1 DEF NoLostWakeUp, NothingAbandoned, FlushInShutdown, LockFree,
                      HoldingLock
  <2>5. QED
    BY <2>2, <2>3, <2>4
<1>4. QED
  BY <1>2, <1>3

----------------------------------------------------------------------------
\* No step breaks the invariant.
LEMMA NextKeeps == IInv /\ [DispatcherNext]_d_vars => IInv'
<1> SUFFICES ASSUME IInv, [DispatcherNext]_d_vars
             PROVE  IInv'
  OBVIOUS
<1> USE DEF IInv
<1>1. CASE UNCHANGED d_vars
  BY <1>1 DEF d_vars, DispatcherTypeOK, QueueHoldsTheAccepted, NoLostWakeUp,
              NothingAbandoned, LockFree, TakenInHand, FlushInShutdown
<1>2. ASSUME NEW p \in Thread, Notify(p)
      PROVE  IInv'
  <2>1. UNCHANGED <<m_taskList, d_threadState, d_pc, d_task, d_flushed, outcome>>
    BY <1>2 DEF Notify
  <2>2. DispatcherTypeOK'
    BY <1>2, <2>1 DEF Notify, DispatcherTypeOK
  <2>3. NoLostWakeUp'
    BY <1>2, <2>1 DEF Notify, NoLostWakeUp
  <2>4. /\ QueueHoldsTheAccepted' /\ NothingAbandoned'
        /\ TakenInHand' /\ FlushInShutdown'
    BY <2>1 DEF QueueHoldsTheAccepted, NothingAbandoned, LockFree, TakenInHand,
                FlushInShutdown
  <2>5. QED
    BY <2>2, <2>3, <2>4
<1>3. ASSUME NEW p \in Caller, NEW t \in Ordinary, Post(p, t)
      PROVE  IInv'
  BY <1>3, AddTaskKeeps DEF Post, Ordinary, Thread
<1>4. ASSUME NEW t \in Ordinary, PostFromTask(t)
      PROVE  IInv'
  BY <1>4, AddTaskKeeps DEF PostFromTask, Post, Ordinary, Thread
<1>5. CASE RequestShutdown
  BY <1>5, AddTaskKeeps, DispatcherAssumption DEF RequestShutdown, Thread
<1>6. CASE TakeTask
  BY <1>6, PopFrontKeepsInv DEF TakeTask, DispatcherTypeOK
<1>7. CASE Woken \/ SpuriousWakeUp
  BY <1>7, PopFrontKeepsInv DEF Woken, SpuriousWakeUp, WakeUp
<1>8. CASE TestState
  <2>1. DispatcherTypeOK'
    BY <1>8 DEF TestState, DispatcherTypeOK, ProgramPoints
  <2>2. QueueHoldsTheAccepted' /\ TakenInHand'
    BY <1>8 DEF TestState, QueueHoldsTheAccepted, TakenInHand
  <2>3. NoLostWakeUp' /\ NothingAbandoned' /\ FlushInShutdown'
    BY <1>8 DEF TestState, NoLostWakeUp, NothingAbandoned, FlushInShutdown,
                LockFree, HoldingLock
  <2>4. QED
    BY <2>1, <2>2, <2>3
<1>9. CASE WaitSignal
  <2>1. DispatcherTypeOK'
    BY <1>9 DEF WaitSignal, DispatcherTypeOK, ProgramPoints
  <2>2. QueueHoldsTheAccepted' /\ TakenInHand'
    BY <1>9 DEF WaitSignal, QueueHoldsTheAccepted, TakenInHand
  <2>3. NoLostWakeUp' /\ NothingAbandoned' /\ FlushInShutdown'
    BY <1>9 DEF WaitSignal, NoLostWakeUp, NothingAbandoned, FlushInShutdown,
                LockFree, HoldingLock
  <2>4. QED
    BY <2>1, <2>2, <2>3
<1>10. ASSUME d_pc \in {"begin", "run"}, d_pc' = "test", d_task' = NoTask,
              NEW o \in {"expired", "executed"},
              outcome' = [outcome EXCEPT ![d_task] = o],
              UNCHANGED <<m_taskList, d_threadState, d_flushed, d_signalled,
                          d_doSignal>>
       PROVE  IInv'
  <2>1. d_task \in Task /\ d_flushed = NoTask /\ outcome[d_task] = "taken"
    BY <1>10, DispatcherAssumption DEF DispatcherTypeOK, TakenInHand
  <2>2. DispatcherTypeOK'
    BY <1>10, <2>1 DEF DispatcherTypeOK, ProgramPoints
  <2>3. \A t \in Task : outcome'[t] = "queued" <=> outcome[t] = "queued"
    BY <1>10, <2>1 DEF DispatcherTypeOK
  <2>4. QueueHoldsTheAccepted'
    BY <1>10, <2>3 DEF QueueHoldsTheAccepted
  <2>5. TakenInHand'
    BY <1>10, <2>1, DispatcherAssumption DEF TakenInHand, DispatcherTypeOK
  <2>6. NoLostWakeUp' /\ NothingAbandoned' /\ FlushInShutdown'
    BY <1>10, <2>1 DEF NoLostWakeUp, NothingAbandoned, FlushInShutdown, LockFree,
                       HoldingLock
  <2>7. QED
    BY <2>2, <2>4, <2>5, <2>6
<1>11. CASE Expire
  BY <1>10, <1>11 DEF Expire
<1>12. CASE FinishTask
  BY <1>10, <1>12 DEF FinishTask
<1>13. CASE BeginTask \/ StopDispatcher \/ ShutdownDispatcher
  <2>1. /\ d_pc \in {"begin", "run", "stopping"} /\ d_pc' \in {"run", "flush"}
        /\ d_pc' = "flush" => d_threadState' = "TERMINATED" /\ d_task = ShutdownTask
        /\ d_threadState' = "TERMINATED" => d_pc' = "flush" \/ d_threadState' = d_threadState
        /\ UNCHANGED <<m_taskList, d_task, d_flushed, d_signalled, d_doSignal,
                       outcome>>
    BY <1>13 DEF BeginTask, StopDispatcher, ShutdownDispatcher
  <2>2. DispatcherTypeOK'
    BY <1>13, <2>1 DEF BeginTask, StopDispatcher, ShutdownDispatcher,
                       DispatcherTypeOK, ProgramPoints
  <2>3. QueueHoldsTheAccepted' /\ TakenInHand'
    BY <2>1 DEF QueueHoldsTheAccepted, TakenInHand
  <2>4. NoLostWakeUp' /\ NothingAbandoned' /\ FlushInShutdown'
    BY <2>1 DEF NoLostWakeUp, NothingAbandoned, FlushInShutdown, LockFree,
                HoldingLock
  <2>5. QED
    BY <2>2, <2>3, <2>4
<1>14. CASE FlushTask
  <2>1. /\ m_taskList # <<>> /\ m_taskList' = Tail(m_taskList)
        /\ outcome' = [outcome EXCEPT ![Head(m_taskList)] = "taken"]
        /\ d_pc = "flush" /\ d_pc' = "flushRun" /\ d_flushed' = Head(m_taskList)
        /\ UNCHANGED <<d_threadState, d_task, d_signalled, d_doSignal>>
    BY <1>14 DEF FlushTask
  <2>2. /\ m_taskList' \in Seq(Task)
        /\ Head(m_taskList) \in Task
        /\ outcome[Head(m_taskList)] = "queued"
        /\ outcome' \in [Task -> {"new", "queued", "taken", "executed", "expired",
                                  "refused"}]
        /\ QueueHoldsTheAccepted'
    BY <2>1, TakeKeepsQueue
  <2>3. d_task \in Task /\ d_flushed = NoTask /\ outcome[d_task] = "taken"
    BY <2>1, DispatcherAssumption DEF DispatcherTypeOK, TakenInHand
  <2>4. DispatcherTypeOK'
    BY <2>1, <2>2 DEF DispatcherTypeOK, ProgramPoints
  <2>5. TakenInHand'
    BY <2>1, <2>2, <2>3, DispatcherAssumption DEF TakenInHand, DispatcherTypeOK
  <2>6. NoLostWakeUp' /\ NothingAbandoned' /\ FlushInShutdown'
    BY <2>1, <2>2, <2>3 DEF NoLostWakeUp, NothingAbandoned, FlushInShutdown,
                            LockFree, HoldingLock
  <2>7. QED
    BY <2>2, <2>4, <2>5, <2>6
<1>15. CASE FlushedTaskReturns
  <2>1. /\ d_pc = "flushRun" /\ d_pc' = "flush" /\ d_flushed' = NoTask
        /\ outcome' = [outcome EXCEPT ![d_flushed] = "executed"]
        /\ UNCHANGED <<m_taskList, d_threadState, d_task, d_signalled, d_doSignal>>
    BY <1>15 DEF FlushedTaskReturns
  <2>2. /\ d_task \in Task /\ d_flushed \in Task /\ outcome[d_flushed] = "taken"
        /\ d_flushed # d_task
    BY <2>1, DispatcherAssumption DEF DispatcherTypeOK, TakenInHand, FlushInShutdown
  <2>3. DispatcherTypeOK'
    BY <2>1, <2>2 DEF DispatcherTypeOK, ProgramPoints
  <2>4. \A t \in Task : outcome'[t] = "queued" <=> outcome[t] = "queued"
    BY <2>1, <2>2 DEF DispatcherTypeOK
  <2>5. QueueHoldsTheAccepted'
    BY <2>1, <2>4 DEF QueueHoldsTheAccepted
  <2>6. TakenInHand'
    BY <2>1, <2>2, DispatcherAssumption DEF TakenInHand, DispatcherTypeOK
  <2>7. NoLostWakeUp' /\ NothingAbandoned' /\ FlushInShutdown'
    BY <2>1 DEF NoLostWakeUp, NothingAbandoned, FlushInShutdown, LockFree,
                HoldingLock
  <2>8. QED
    BY <2>3, <2>5, <2>6, <2>7
<1>16. CASE FlushedTaskPosts \/ EndFlush
  <2>1. /\ UNCHANGED <<m_taskList, d_threadState, d_task, d_flushed, d_signalled,
                       d_doSignal, outcome>>
        /\ \/ d_pc = "flushRun" /\ d_pc' = "selfLock"
           \/ d_pc = "flush" /\ d_pc' = "run" /\ m_taskList = <<>>
    BY <1>16 DEF FlushedTaskPosts, EndFlush
  <2>2. DispatcherTypeOK'
    BY <2>1 DEF DispatcherTypeOK, ProgramPoints
  <2>3. QueueHoldsTheAccepted' /\ TakenInHand'
    BY <2>1 DEF QueueHoldsTheAccepted, TakenInHand
  <2>4. NoLostWakeUp' /\ NothingAbandoned' /\ FlushInShutdown'
    BY <2>1 DEF NoLostWakeUp, NothingAbandoned, FlushInShutdown, LockFree,
                HoldingLock
  <2>5. QED
    BY <2>2, <2>3, <2>4
<1>17. QED
  BY <1>1, <1>2, <1>3, <1>4, <1>5, <1>6, <1>7, <1>8, <1>9, <1>11, <1>12, <1>13,
     <1>14, <1>15, <1>16 DEF DispatcherNext, DispatcherThread

\* The initial state has the invariant.
LEMMA InitEstablishes == DispatcherInit => IInv
<1> SUFFICES ASSUME DispatcherInit PROVE IInv
  OBVIOUS
<1>1. DispatcherTypeOK
  <2>1. m_taskList \in Seq(Task)
    BY DEF DispatcherInit
  <2>2. d_doSignal \in [Thread -> BOOLEAN]
    BY DEF DispatcherInit
  <2>3. QED
    BY <2>1, <2>2 DEF DispatcherInit, DispatcherTypeOK, ProgramPoints
<1>2. QueueHoldsTheAccepted
  BY DEF DispatcherInit, QueueHoldsTheAccepted
<1>3. NoLostWakeUp /\ NothingAbandoned /\ FlushInShutdown
  BY DEF DispatcherInit, NoLostWakeUp, NothingAbandoned, FlushInShutdown,
         HoldingLock
<1>4. TakenInHand
  BY DispatcherAssumption DEF DispatcherInit, TakenInHand
<1>5. QED
  BY <1>1, <1>2, <1>3, <1>4 DEF IInv

LEMMA Invariance == DispatcherSpec => []IInv
<1>1. QED
  BY InitEstablishes, NextKeeps, PTL DEF DispatcherSpec

----------------------------------------------------------------------------
\* tasks.cpp as a whole, for any threads and tasks: what the run checks of the
\* dispatcher's queue, sleep and end.
THEOREM DispatcherIsSafe == DispatcherSpec => []DispatcherInv
<1>1. IInv => DispatcherInv
  BY DEF IInv, DispatcherInv
<1>2. QED
  BY <1>1, Invariance, PTL

\* dispatcherThread(), addTask() and flush(): every value stays in its type, and the
\* thread has a task in hand exactly between taking and deleting one.
THEOREM TypeCorrect == DispatcherSpec => []DispatcherTypeOK
<1>1. IInv => DispatcherTypeOK
  BY DEF IInv
<1>2. QED
  BY <1>1, Invariance, PTL

\* addTask() and the loop: every accepted task stands in the queue once until it is
\* taken, so that none is lost or run twice.
THEOREM NoTaskLost == DispatcherSpec => []QueueHoldsTheAccepted
<1>1. IInv => QueueHoldsTheAccepted
  BY DEF IInv
<1>2. QED
  BY <1>1, Invariance, PTL

\* addTask() notifies only if the queue was empty, after the unlock: that is enough.
THEOREM WakeUpOnItsWay == DispatcherSpec => []NoLostWakeUp
<1>1. IInv => NoLostWakeUp
  BY DEF IInv
<1>2. QED
  BY <1>1, Invariance, PTL

\* shutdown(): no accepted task is left behind when the thread ends.
THEOREM ShutdownLeavesNothing == DispatcherSpec => []NothingAbandoned
<1>1. IInv => NothingAbandoned
  BY DEF IInv
<1>2. QED
  BY <1>1, Invariance, PTL

----------------------------------------------------------------------------
\* addTask() by any thread is an Accept or a Refuse of the abstract queue.
LEMMA AddTaskRefines ==
  ASSUME NEW p, NEW t \in Task, AddTask(p, t)
  PROVE  Promise!Accept(t) \/ Promise!Refuse(t)
<1>1. QED
  BY DEF AddTask, Promise!Accept, Promise!Refuse

\* Taking the first task is a Take: no ordinary task is under way then.
LEMMA TakeRefines ==
  ASSUME IInv, d_pc \in {"lock", "wait", "flush"}, m_taskList # <<>>,
         m_taskList' = Tail(m_taskList),
         outcome' = [outcome EXCEPT ![Head(m_taskList)] = "taken"]
  PROVE  \E t \in Task : Promise!Take(t)
<1>1. Head(m_taskList) \in Task
  BY TakeKeepsQueue DEF IInv
<1>2. ASSUME NEW u \in Task, outcome[u] = "taken"
      PROVE  u = ShutdownTask
  <2>1. d_flushed = NoTask /\ u \in {d_task, d_flushed} /\ u # NoTask
    BY <1>2, DispatcherAssumption DEF IInv, DispatcherTypeOK, TakenInHand
  <2>2. d_task # NoTask
    BY <2>1
  <2>3. d_pc = "flush"
    BY <2>2 DEF IInv, DispatcherTypeOK
  <2>4. QED
    BY <2>1, <2>3 DEF IInv, FlushInShutdown, HoldingLock
<1>3. Promise!Take(Head(m_taskList))
  BY <1>2 DEF Promise!Take
<1>4. QED
  BY <1>1, <1>3

LEMMA StepRefines ==
  IInv /\ [DispatcherNext]_d_vars => [Promise!TQNext]_<<m_taskList, outcome>>
<1> SUFFICES ASSUME IInv, [DispatcherNext]_d_vars,
                    ~UNCHANGED <<m_taskList, outcome>>
             PROVE  Promise!TQNext
  OBVIOUS
<1>1. CASE UNCHANGED d_vars
  BY <1>1 DEF d_vars
<1>2. ASSUME NEW p \in Thread, NEW t \in Task, AddTask(p, t)
      PROVE  Promise!TQNext
  BY <1>2, AddTaskRefines DEF Promise!TQNext
<1>3. CASE \/ \E t \in Ordinary : PostFromTask(t)
           \/ \E p \in Caller, t \in Ordinary : Post(p, t)
           \/ RequestShutdown
  BY <1>2, <1>3, DispatcherAssumption DEF PostFromTask, Post, RequestShutdown,
                                          Ordinary, Thread
<1>4. CASE PopFront /\ d_pc \in {"lock", "wait"}
  <2>1. m_taskList # <<>> /\ m_taskList' = Tail(m_taskList)
        /\ outcome' = [outcome EXCEPT ![Head(m_taskList)] = "taken"]
    BY <1>4 DEF PopFront
  <2>2. QED
    BY <1>4, <2>1, TakeRefines DEF Promise!TQNext
<1>5. CASE TakeTask \/ Woken \/ SpuriousWakeUp
  BY <1>4, <1>5 DEF TakeTask, Woken, SpuriousWakeUp, WakeUp
<1>6. CASE FlushTask
  BY <1>6, TakeRefines DEF FlushTask, Promise!TQNext
<1>7. CASE Expire
  <2>1. d_task \in Task /\ outcome[d_task] = "taken"
    BY <1>7, DispatcherAssumption DEF Expire, IInv, DispatcherTypeOK, TakenInHand
  <2>2. Promise!Drop(d_task)
    BY <1>7, <2>1 DEF Expire, Promise!Drop
  <2>3. QED
    BY <2>1, <2>2 DEF Promise!TQNext
<1>8. CASE FinishTask
  <2>1. d_task \in Task /\ outcome[d_task] = "taken"
    BY <1>8, DispatcherAssumption DEF FinishTask, IInv, DispatcherTypeOK, TakenInHand
  <2>2. Promise!Finish(d_task)
    BY <1>8, <2>1 DEF FinishTask, Promise!Finish
  <2>3. QED
    BY <2>1, <2>2 DEF Promise!TQNext
<1>9. CASE FlushedTaskReturns
  <2>1. d_flushed \in Task /\ outcome[d_flushed] = "taken"
    BY <1>9 DEF FlushedTaskReturns, IInv, DispatcherTypeOK, TakenInHand
  <2>2. Promise!Finish(d_flushed)
    BY <1>9, <2>1 DEF FlushedTaskReturns, Promise!Finish
  <2>3. QED
    BY <2>1, <2>2 DEF Promise!TQNext
<1>10. QED
  BY <1>1, <1>3, <1>5, <1>6, <1>7, <1>8, <1>9
     DEF DispatcherNext, DispatcherThread, TestState, WaitSignal, BeginTask,
         StopDispatcher, ShutdownDispatcher, FlushedTaskPosts, EndFlush, Notify

\* The dispatcher implements TaskQueue: tasks are taken in posting order, once, and
\* one at a time but for those flush() runs inside Game::shutdown.
THEOREM DispatcherImplementsTaskQueue == DispatcherSpec => TasksInOrderOneAtATime
<1>1. DispatcherInit => Promise!TQInit
  BY DEF DispatcherInit, Promise!TQInit
<1>2. QED
  BY <1>1, Invariance, StepRefines, PTL
     DEF DispatcherSpec, TasksInOrderOneAtATime, Promise!TQSpec, Promise!tq_vars

----------------------------------------------------------------------------
(* The scheduler *)


\* An event is queued as long as it stands in m_eventList or the thread has it
\* in hand.
WaitingOrInHand ==
  /\ \A e \in Event : fate[e] = "queued" <=> (e \in m_eventList \/ e = s_task)
  /\ s_task \notin m_eventList

\* A client that still has to notify is inside an addEvent().
SignallerIsCalling == \A c \in Client : s_doSignal[c] => s_call[c] # NoEvent

\* The event a timed wait was started for, or one due before it, is still there:
\* stopEvent() takes none out of the queue.
TimedWaitHasEvent ==
  (s_pc = "timed" /\ s_threadState # "TERMINATED") =>
    \E e \in m_eventList : cycle[e] <= s_deadline

\* The inductive invariant of the queue and the thread's sleep.
SleepInv == /\ SchedulerTypeOK
            /\ WaitingOrInHand
            /\ SignallerIsCalling
            /\ NoLateEvent
            /\ TimedWaitHasEvent

----------------------------------------------------------------------------
\* addEvent() keeps it: if the new event is not the top, whoever sleeps too long for
\* it sleeps too long for the top as well.
LEMMA AddEventKeepsSleep ==
  ASSUME SleepInv, NEW c \in Client, NEW e \in Event, NEW d \in Delays,
         AddEvent(c, e, d)
  PROVE  SleepInv'
<1> USE DEF SleepInv
<1>1. CASE s_threadState # "RUNNING"
  <2>1. /\ UNCHANGED <<s_queue, s_thread, s_clients, s_threadState, s_signalled, now>>
        /\ fate[e] = "new" /\ fate' = [fate EXCEPT ![e] = "refused"]
    BY <1>1 DEF AddEvent, s_clients
  <2>2. SchedulerTypeOK'
    BY <2>1 DEF SchedulerTypeOK, Fates, Deleted, s_queue, s_thread, s_clients
  <2>3. WaitingOrInHand'
    BY <2>1 DEF WaitingOrInHand, SchedulerTypeOK, s_queue, s_thread
  <2>4. SignallerIsCalling' /\ NoLateEvent' /\ TimedWaitHasEvent'
    BY <2>1 DEF SignallerIsCalling, NoLateEvent, TimedWaitHasEvent, s_queue,
                s_thread, s_clients
  <2>5. QED
    BY <2>2, <2>3, <2>4
<1>2. CASE s_threadState = "RUNNING"
  <2>1. /\ s_call[c] = NoEvent /\ fate[e] = "new"
        /\ m_lastEventId' = NextEventId
        /\ eventId' = [eventId EXCEPT ![e] = NextEventId]
        /\ cycle' = [cycle EXCEPT ![e] = now + d]
        /\ m_eventIds' = m_eventIds \cup {NextEventId}
        /\ m_eventList' = m_eventList \cup {e}
        /\ fate' = [fate EXCEPT ![e] = "queued"]
        /\ s_call' = [s_call EXCEPT ![c] = e]
        /\ s_doSignal' = [s_doSignal EXCEPT ![c] = BecomesTop(now + d)]
        /\ UNCHANGED <<s_pc, s_deadline, s_task, s_runTask, s_threadState,
                       s_signalled, heldId, stopped, now>>
    BY <1>2 DEF AddEvent, s_thread
  <2>2. NextEventId \in 0..MaxId /\ now + d \in 0..MaxTime
    BY SchedulerAssumption DEF NextEventId, SchedulerTypeOK, Delays
  <2>3. BecomesTop(now + d) \in BOOLEAN
    BY DEF BecomesTop
  <2>4. SchedulerTypeOK'
    BY <2>1, <2>2, <2>3 DEF SchedulerTypeOK, Fates
  <2>5. e \notin m_eventList /\ e # s_task
    BY <2>1 DEF WaitingOrInHand
  <2>6. WaitingOrInHand'
    BY <2>1, <2>5 DEF WaitingOrInHand, SchedulerTypeOK
  <2>7. SignallerIsCalling'
    BY <2>1, SchedulerAssumption DEF SignallerIsCalling, SchedulerTypeOK
  <2>8. \A f \in m_eventList : cycle'[f] = cycle[f]
    BY <2>1, <2>5 DEF SchedulerTypeOK
  <2>9. TimedWaitHasEvent'
    BY <2>1, <2>8 DEF TimedWaitHasEvent
  <2>10. ~ s_doSignal[c]
    BY <2>1 DEF SignallerIsCalling
  <2>11. ASSUME NEW b \in Client, s_doSignal[b]
         PROVE  s_doSignal'[b]
    BY <2>1, <2>10, <2>11 DEF SchedulerTypeOK
  <2>12. ASSUME NEW f \in m_eventList,
                s_pc = "wait" \/ (s_pc = "timed" /\ cycle[f] < s_deadline)
         PROVE  s_signalled \/ \E b \in Client : s_doSignal'[b]
    BY <2>11, <2>12 DEF NoLateEvent
  <2>13. CASE BecomesTop(now + d)
    <3>1. s_doSignal'[c]
      BY <2>1, <2>13 DEF SchedulerTypeOK
    <3>2. QED
      BY <2>1, <2>4, <2>6, <2>7, <2>9, <3>1 DEF NoLateEvent
  <2>14. CASE ~ BecomesTop(now + d)
    <3>1. PICK f \in m_eventList : ~ (now + d < cycle[f])
      BY <2>14 DEF BecomesTop
    <3>2. cycle[f] <= now + d /\ cycle'[e] = now + d
      BY <2>1, <2>2, <3>1 DEF SchedulerTypeOK
    <3>3. ASSUME s_pc = "wait" \/ (s_pc = "timed" /\ now + d < s_deadline)
          PROVE  s_pc = "wait" \/ (s_pc = "timed" /\ cycle[f] < s_deadline)
      BY <2>2, <3>1, <3>2, <3>3 DEF SchedulerTypeOK
    <3>4. NoLateEvent'
      BY <2>1, <2>8, <2>12, <3>2, <3>3 DEF NoLateEvent
    <3>5. QED
      BY <2>4, <2>6, <2>7, <2>9, <3>4
  <2>15. QED
    BY <2>13, <2>14
<1>3. QED
  BY <1>1, <1>2

\* No step breaks it.
LEMMA NextKeepsSleep == SleepInv /\ [SchedulerNext]_s_vars => SleepInv'
<1> SUFFICES ASSUME SleepInv, [SchedulerNext]_s_vars
             PROVE  SleepInv'
  OBVIOUS
<1> USE DEF SleepInv
<1>1. CASE UNCHANGED s_vars
  BY <1>1 DEF s_vars, s_queue, s_thread, s_clients, SchedulerTypeOK,
              WaitingOrInHand, SignallerIsCalling, NoLateEvent, TimedWaitHasEvent
<1>2. ASSUME NEW c \in Client, NEW e \in Event, NEW d \in Delays,
             AddEvent(c, e, d)
      PROVE  SleepInv'
  BY <1>2, AddEventKeepsSleep
<1>3. ASSUME NEW c \in Client, NotifyScheduler(c)
      PROVE  SleepInv'
  <2>1. SchedulerTypeOK' /\ WaitingOrInHand' /\ TimedWaitHasEvent'
    BY <1>3 DEF NotifyScheduler, SchedulerTypeOK, WaitingOrInHand,
                TimedWaitHasEvent, s_queue, s_thread
  <2>2. SignallerIsCalling' /\ NoLateEvent'
    BY <1>3 DEF NotifyScheduler, SignallerIsCalling, NoLateEvent, s_queue,
                s_thread, SchedulerTypeOK
  <2>3. QED
    BY <2>1, <2>2
<1>4. ASSUME NEW c \in Client, ReturnId(c)
      PROVE  SleepInv'
  <2>1. /\ s_call[c] \in Event /\ ~ s_doSignal[c]
        /\ s_call' = [s_call EXCEPT ![c] = NoEvent]
        /\ UNCHANGED <<s_queue, s_thread, s_threadState, s_signalled, s_doSignal,
                       stopped, fate, now>>
    BY <1>4 DEF ReturnId, SchedulerTypeOK
  <2>2. heldId' \in [Event -> 0..MaxId]
    BY <1>4, <2>1 DEF ReturnId, SchedulerTypeOK
  <2>3. SchedulerTypeOK'
    BY <2>1, <2>2 DEF SchedulerTypeOK, s_queue, s_thread
  <2>4. SignallerIsCalling'
    BY <2>1 DEF SignallerIsCalling, SchedulerTypeOK
  <2>5. WaitingOrInHand' /\ NoLateEvent' /\ TimedWaitHasEvent'
    BY <2>1 DEF WaitingOrInHand, NoLateEvent, TimedWaitHasEvent, s_queue, s_thread
  <2>6. QED
    BY <2>3, <2>4, <2>5
<1>5. ASSUME NEW e \in Event, StopEvent(e)
      PROVE  SleepInv'
  <2>1. SchedulerTypeOK'
    <3>1. heldId' \in [Event -> 0..MaxId]
      BY <1>5, SchedulerAssumption DEF StopEvent, SchedulerTypeOK
    <3>2. stopped' \subseteq Event
      BY <1>5 DEF StopEvent, SchedulerTypeOK
    <3>3. m_eventIds' \subseteq 0..MaxId
      BY <1>5 DEF StopEvent, SchedulerTypeOK
    <3>4. UNCHANGED <<m_eventList, m_lastEventId, eventId, cycle, s_pc, s_deadline,
                      s_task, s_runTask, s_threadState, s_signalled, s_call,
                      s_doSignal, fate, now>>
      BY <1>5 DEF StopEvent, s_thread
    <3>5. QED
      BY <3>1, <3>2, <3>3, <3>4 DEF SchedulerTypeOK
  <2>2. /\ WaitingOrInHand' /\ SignallerIsCalling' /\ NoLateEvent'
        /\ TimedWaitHasEvent'
    BY <1>5 DEF StopEvent, WaitingOrInHand, SignallerIsCalling, NoLateEvent,
                TimedWaitHasEvent, s_thread
  <2>3. QED
    BY <2>1, <2>2
<1>6. CASE TestSchedulerState \/ WaitForEvent \/ WakeScheduler
  <2>1. SchedulerTypeOK'
    BY <1>6 DEF TestSchedulerState, WaitForEvent, WakeScheduler, SchedulerTypeOK,
                s_queue, s_clients
  <2>2. WaitingOrInHand' /\ SignallerIsCalling'
    BY <1>6 DEF TestSchedulerState, WaitForEvent, WakeScheduler, WaitingOrInHand,
                SignallerIsCalling, s_queue, s_clients
  <2>3. NoLateEvent' /\ TimedWaitHasEvent'
    BY <1>6 DEF TestSchedulerState, WaitForEvent, WakeScheduler, NoLateEvent,
                TimedWaitHasEvent, s_queue
  <2>4. QED
    BY <2>1, <2>2, <2>3
<1>7. CASE WaitForTop
  <2>1. PICK e \in Top : s_deadline' = cycle[e]
    BY <1>7 DEF WaitForTop
  <2>2. /\ e \in m_eventList
        /\ \A f \in m_eventList : cycle[f] \in Nat /\ ~ (cycle[f] < cycle[e])
    BY <2>1 DEF Top, SchedulerTypeOK
  <2>3. SchedulerTypeOK'
    BY <1>7, <2>1, <2>2 DEF WaitForTop, SchedulerTypeOK, s_queue, s_clients
  <2>4. WaitingOrInHand' /\ SignallerIsCalling'
    BY <1>7 DEF WaitForTop, WaitingOrInHand, SignallerIsCalling, s_queue, s_clients
  <2>5. NoLateEvent' /\ TimedWaitHasEvent'
    BY <1>7, <2>1, <2>2 DEF WaitForTop, NoLateEvent, TimedWaitHasEvent, s_queue
  <2>6. QED
    BY <2>3, <2>4, <2>5
<1>8. CASE Timeout
  <2>1. s_task = NoEvent
    BY <1>8 DEF Timeout, SchedulerTypeOK
  <2>2. CASE s_threadState = "TERMINATED"
    <3>1. SchedulerTypeOK'
      BY <1>8, <2>2 DEF Timeout, SchedulerTypeOK, s_clients
    <3>2. WaitingOrInHand' /\ SignallerIsCalling' /\ NoLateEvent' /\ TimedWaitHasEvent'
      BY <1>8, <2>2 DEF Timeout, WaitingOrInHand, SignallerIsCalling, NoLateEvent,
                        TimedWaitHasEvent, s_clients
    <3>3. QED
      BY <3>1, <3>2
  <2>3. CASE s_threadState # "TERMINATED"
    <3>1. PICK e \in m_eventList :
            /\ m_eventList' = m_eventList \ {e}
            /\ m_eventIds' = m_eventIds \ {eventId[e]}
            /\ s_task' = e
            /\ s_runTask' = (eventId[e] \in m_eventIds)
            /\ s_pc' = "handOver"
      BY <1>8, <2>3 DEF Timeout, Top
    <3>2. SchedulerTypeOK'
      <4>1. (eventId[e] \in m_eventIds) \in BOOLEAN
        OBVIOUS
      <4>2. s_runTask' \in BOOLEAN
        BY <3>1, <4>1, Zenon
      <4>3. /\ s_task' \in Event
            /\ m_eventList' \subseteq Event
            /\ m_eventIds' \subseteq 0..MaxId
        BY <3>1 DEF SchedulerTypeOK
      <4>4. s_pc' = "handOver" /\ s_signalled' = FALSE
        BY <1>8, <3>1 DEF Timeout
      <4>5. UNCHANGED <<m_lastEventId, eventId, cycle, s_deadline, s_clients,
                        s_threadState, fate, now>>
        BY <1>8 DEF Timeout
      <4>6. QED
        BY <4>2, <4>3, <4>4, <4>5 DEF SchedulerTypeOK, s_clients
    <3>3. WaitingOrInHand'
      BY <1>8, <2>1, <3>1, SchedulerAssumption
         DEF Timeout, WaitingOrInHand, SchedulerTypeOK
    <3>4. SignallerIsCalling' /\ NoLateEvent' /\ TimedWaitHasEvent'
      BY <1>8, <3>1 DEF Timeout, SignallerIsCalling, NoLateEvent, TimedWaitHasEvent,
                        s_clients
    <3>5. QED
      BY <3>2, <3>3, <3>4
  <2>4. QED
    BY <2>2, <2>3
<1>9. ASSUME NEW accepted \in BOOLEAN, HandOver(accepted)
      PROVE  SleepInv'
  <2>1. s_task \in Event
    BY <1>9 DEF HandOver, SchedulerTypeOK
  <2>2. PICK what \in {"discarded", "handed", "refused"} :
          fate' = [fate EXCEPT ![s_task] = what]
    BY <1>9 DEF HandOver
  <2>3. SchedulerTypeOK'
    BY <1>9, <2>1, <2>2 DEF HandOver, SchedulerTypeOK, Fates, Deleted, s_queue, s_clients
  <2>4. WaitingOrInHand'
    BY <1>9, <2>1, <2>2, SchedulerAssumption
       DEF HandOver, WaitingOrInHand, SchedulerTypeOK, s_queue
  <2>5. SignallerIsCalling' /\ NoLateEvent' /\ TimedWaitHasEvent'
    BY <1>9 DEF HandOver, SignallerIsCalling, NoLateEvent, TimedWaitHasEvent,
                s_queue, s_clients
  <2>6. QED
    BY <2>3, <2>4, <2>5
<1>10. CASE StopScheduler /\ s_threadState = "RUNNING"
  BY <1>10 DEF StopScheduler, SchedulerTypeOK, WaitingOrInHand, SignallerIsCalling,
               NoLateEvent, TimedWaitHasEvent, s_queue, s_thread, s_clients
<1>11. CASE ShutdownScheduler
  <2>1. SchedulerTypeOK'
    BY <1>11 DEF ShutdownScheduler, SchedulerTypeOK, Fates, s_thread, s_clients
  <2>2. WaitingOrInHand'
    BY <1>11 DEF ShutdownScheduler, WaitingOrInHand, SchedulerTypeOK, s_thread
  <2>3. SignallerIsCalling' /\ NoLateEvent' /\ TimedWaitHasEvent'
    BY <1>11 DEF ShutdownScheduler, SignallerIsCalling, NoLateEvent,
                 TimedWaitHasEvent, s_clients
  <2>4. QED
    BY <2>1, <2>2, <2>3
<1>12. CASE Tick
  <2>1. SchedulerTypeOK'
    BY <1>12, SchedulerAssumption DEF Tick, SchedulerTypeOK, s_queue, s_thread, s_clients
  <2>2. WaitingOrInHand' /\ SignallerIsCalling' /\ NoLateEvent' /\ TimedWaitHasEvent'
    BY <1>12 DEF Tick, WaitingOrInHand, SignallerIsCalling, NoLateEvent,
                 TimedWaitHasEvent, s_queue, s_thread, s_clients
  <2>3. QED
    BY <2>1, <2>2
<1>13. ASSUME NEW e \in Event, Dispose(e)
       PROVE  SleepInv'
  <2>1. SchedulerTypeOK' /\ WaitingOrInHand'
    BY <1>13 DEF Dispose, SchedulerTypeOK, WaitingOrInHand, Fates, Deleted,
                 s_queue, s_thread, s_clients
  <2>2. SignallerIsCalling' /\ NoLateEvent' /\ TimedWaitHasEvent'
    BY <1>13 DEF Dispose, SignallerIsCalling, NoLateEvent, TimedWaitHasEvent,
                 s_queue, s_thread, s_clients
  <2>3. QED
    BY <2>1, <2>2
<1>14. QED
  BY <1>1, <1>2, <1>3, <1>4, <1>5, <1>6, <1>7, <1>8, <1>9, <1>10, <1>11, <1>12,
     <1>13 DEF SchedulerNext, SchedulerThread, SchedulerCalls, SchedulerWoken,
               SchedulerSpuriousWakeUp

\* The initial state has it.
LEMMA InitSleeps == SchedulerInit => SleepInv
<1> SUFFICES ASSUME SchedulerInit PROVE SleepInv
  OBVIOUS
<1>1. SchedulerTypeOK
  <2>1. 0 \in 0..MaxId /\ 0 \in 0..MaxTime /\ "new" \in Fates
    BY SchedulerAssumption DEF Fates
  <2>2. /\ s_call \in [Client -> Event \cup {NoEvent}]
        /\ s_doSignal \in [Client -> BOOLEAN]
    BY DEF SchedulerInit
  <2>3. /\ heldId \in [Event -> 0..MaxId]
        /\ eventId \in [Event -> 0..MaxId]
        /\ cycle \in [Event -> 0..MaxTime]
        /\ fate \in [Event -> Fates]
    BY <2>1 DEF SchedulerInit
  <2>4. QED
    BY <2>1, <2>2, <2>3 DEF SchedulerInit, SchedulerTypeOK
<1>2. WaitingOrInHand
  BY SchedulerAssumption DEF SchedulerInit, WaitingOrInHand
<1>3. SignallerIsCalling /\ NoLateEvent /\ TimedWaitHasEvent
  BY DEF SchedulerInit, SignallerIsCalling, NoLateEvent, TimedWaitHasEvent
<1>4. QED
  BY <1>1, <1>2, <1>3 DEF SleepInv

\* It holds throughout.
LEMMA Sleeps == SchedulerSpec => []SleepInv
<1>1. QED
  BY InitSleeps, NextKeepsSleep, PTL DEF SchedulerSpec

\* Every nonempty set of numbers has a least one.
LEMMA LeastNumber ==
  ASSUME NEW T, T \subseteq Nat, T # {}
  PROVE  \E x \in T : \A y \in T : x <= y
<1> DEFINE Less == OpToRel(<, Nat)
<1>1. IsWellFoundedOn(Less, Nat)
  BY NatLessThanWellFounded
<1>2. \A x, y \in Nat : y < x => <<y, x>> \in Less
  BY DEF OpToRel
<1> HIDE DEF Less
<1>3. PICK x \in T : \A y \in T : ~ (<<y, x>> \in Less)
  BY <1>1, WFMin
<1>4. \A y \in T : ~ (y < x)
  BY <1>2, <1>3, Zenon
<1>5. x \in Nat /\ \A y \in T : y \in Nat
  OBVIOUS
<1>6. \A y \in T : x <= y
  BY <1>4, <1>5
<1>7. QED
  BY <1>6

\* A queue that is not empty has a top.
LEMMA QueueHasTop ==
  ASSUME SchedulerTypeOK, m_eventList # {}
  PROVE  Top # {}
<1> DEFINE Dues == {cycle[e] : e \in m_eventList}
<1>1. Dues \subseteq Nat /\ Dues # {}
  BY DEF SchedulerTypeOK
<1> HIDE DEF Dues
<1>2. PICK x \in Dues : \A y \in Dues : x <= y
  BY <1>1, LeastNumber
<1>3. PICK e \in m_eventList : x = cycle[e]
  BY <1>2 DEF Dues
<1>4. \A f \in m_eventList : cycle[e] <= cycle[f]
  BY <1>2, <1>3 DEF Dues
<1>5. e \in Top
  BY <1>4 DEF Top
<1>6. QED
  BY <1>5

\* What TimeoutFindsDueEvent says follows from the inductive invariant.
LEMMA SleepEndsWithDueEvent == SleepInv => TimeoutFindsDueEvent
<1> SUFFICES ASSUME SleepInv, s_pc = "timed", now >= s_deadline,
                    s_threadState # "TERMINATED"
             PROVE  Top # {} /\ \A e \in Top : cycle[e] <= now
  BY DEF TimeoutFindsDueEvent
<1>1. SchedulerTypeOK
  BY DEF SleepInv
<1>2. PICK e \in m_eventList : cycle[e] <= s_deadline
  BY DEF SleepInv, TimedWaitHasEvent
<1>3. Top # {}
  BY <1>1, <1>2, QueueHasTop
<1>4. ASSUME NEW f \in Top
      PROVE  cycle[f] <= now
  <2>1. cycle[f] <= cycle[e] /\ f \in m_eventList
    BY <1>4 DEF Top
  <2>2. cycle[f] \in Nat /\ cycle[e] \in Nat /\ s_deadline \in Nat /\ now \in Nat
    BY <1>1, <2>1 DEF SchedulerTypeOK
  <2>3. QED
    BY <1>2, <2>1, <2>2
<1>5. QED
  BY <1>3, <1>4

----------------------------------------------------------------------------
\* schedulerThread(), addEvent() and stopEvent(): every value stays in its type, and
\* the thread has an event in hand exactly between taking it from the queue and
\* handing it over.
THEOREM SchedulerTypeCorrect == SchedulerSpec => []SchedulerTypeOK
<1>1. SleepInv => SchedulerTypeOK
  BY DEF SleepInv
<1>2. QED
  BY <1>1, Sleeps, PTL

\* addEvent() notifies only when the new event is due before all others, and after
\* the unlock: the thread still sleeps past no event.
THEOREM SleepsPastNoEvent == SchedulerSpec => []NoLateEvent
<1>1. SleepInv => NoLateEvent
  BY DEF SleepInv
<1>2. QED
  BY <1>1, Sleeps, PTL

\* "ok we had a timeout, so there has to be an event we have to execute": the comment
\* in schedulerThread() is true of any queue and any clients.
THEOREM TimeoutIsJustified == SchedulerSpec => []TimeoutFindsDueEvent
<1>1. QED
  BY Sleeps, SleepEndsWithDueEvent, PTL

----------------------------------------------------------------------------
(* From here on the ids do not wrap around: there are at most 0xFFFFFFFF    *)
(* calls of addEvent() from the start of the server to its end.             *)

IdsSuffice == IsFiniteSet(Event) /\ Cardinality(Event) <= MaxId

\* The events that have got an id.
Numbered == {e \in Event : eventId[e] # 0}

IdsAreDistinct ==
  /\ \A e \in Event : fate[e] = "new" => eventId[e] = 0
  /\ \A e \in Event : fate[e] = "queued" => eventId[e] # 0
  /\ \A e, f \in Numbered : eventId[e] = eventId[f] => e = f
  /\ \A e \in Event : eventId[e] <= m_lastEventId
  /\ m_lastEventId <= Cardinality(Numbered)

\* An event is left out for one reason only, that it was stopped.
OnlyStoppedIsNotRun ==
  /\ stopped \subseteq Numbered
  /\ (s_pc = "handOver" /\ ~s_runTask) => s_task \in stopped

\* While a client is inside addEvent() nobody else has the id of its event; the
\* event of a client that keeps the id still exists then.
CallerOwnsEvent ==
  /\ \A c \in Client : s_call[c] # NoEvent =>
       /\ s_call[c] \in Numbered \ stopped
       /\ heldId[s_call[c]] = 0
       /\ c \in Stopper => /\ s_threadState = "RUNNING"
                           /\ fate[s_call[c]] \in {"queued", "handed"}
  /\ \A b, c \in Client : s_call[b] = s_call[c] /\ s_call[b] # NoEvent => b = c

\* The inductive invariant of the ids.
IdInv == /\ SleepInv
         /\ IdsAreDistinct
         /\ IdsOfTheWaiting
         /\ HeldIdIsOwn
         /\ OnlyStoppedIsNotRun
         /\ StoppedNeverRuns
         /\ CallerOwnsEvent

\* addEvent() never finds m_lastEventId at the end of its range.
LEMMA IdIsFresh ==
  ASSUME IdsSuffice, SchedulerTypeOK, IdsAreDistinct,
         NEW e \in Event, fate[e] = "new"
  PROVE  /\ NextEventId = m_lastEventId + 1
         /\ m_lastEventId + 1 <= Cardinality(Numbered \cup {e})
<1>1. Numbered \in SUBSET (Event \ {e}) /\ e \notin Numbered
  BY DEF Numbered, IdsAreDistinct
<1>2. /\ IsFiniteSet(Event \ {e})
      /\ Cardinality(Event \ {e}) = Cardinality(Event) - 1
      /\ Cardinality(Event) \in Nat
  BY FS_RemoveElement, FS_CardinalityType DEF IdsSuffice
<1>3. /\ IsFiniteSet(Numbered)
      /\ Cardinality(Numbered) <= Cardinality(Event \ {e})
      /\ Cardinality(Numbered) \in Nat
  BY <1>1, <1>2, FS_Subset, FS_CardinalityType
<1>4. Cardinality(Numbered \cup {e}) = Cardinality(Numbered) + 1
  BY <1>1, <1>3, FS_AddElement
<1>5. m_lastEventId \in Nat /\ m_lastEventId <= Cardinality(Numbered)
  BY DEF SchedulerTypeOK, IdsAreDistinct
<1>6. MaxId \in Nat /\ Cardinality(Event) <= MaxId
  BY SchedulerAssumption DEF IdsSuffice
<1>7. ~ (m_lastEventId >= MaxId)
  BY <1>2, <1>3, <1>5, <1>6
<1>8. QED
  BY <1>4, <1>5, <1>7, <1>3 DEF NextEventId

\* addEvent() keeps the ids apart.
LEMMA AddEventKeepsIds ==
  ASSUME IdsSuffice, IdInv, SleepInv', NEW c \in Client, NEW e \in Event,
         NEW d \in Delays, AddEvent(c, e, d)
  PROVE  IdInv'
<1> USE DEF IdInv
<1>1. SchedulerTypeOK /\ WaitingOrInHand
  BY DEF SleepInv
<1>2. /\ s_call[c] = NoEvent /\ fate[e] = "new" /\ eventId[e] = 0
      /\ heldId[e] = 0 /\ e \notin stopped /\ e \notin m_eventList /\ e # s_task
      /\ e \notin Numbered
      /\ UNCHANGED <<s_pc, s_task, s_runTask, s_threadState, heldId, stopped>>
  BY <1>1 DEF AddEvent, IdsAreDistinct, HeldIdIsOwn, OnlyStoppedIsNotRun, Numbered,
              WaitingOrInHand, s_thread
<1>3. CASE s_threadState # "RUNNING"
  <2>1. /\ fate' = [fate EXCEPT ![e] = "refused"]
        /\ UNCHANGED <<m_eventList, m_eventIds, m_lastEventId, eventId, s_call>>
    BY <1>3 DEF AddEvent, s_queue
  <2>2. Numbered' = Numbered
    BY <2>1 DEF Numbered
  <2>3. IdsAreDistinct'
    BY <1>1, <1>2, <2>1, <2>2 DEF IdsAreDistinct, SchedulerTypeOK
  <2>4. IdsOfTheWaiting' /\ HeldIdIsOwn' /\ OnlyStoppedIsNotRun'
    BY <1>2, <2>1, <2>2 DEF IdsOfTheWaiting, HeldIdIsOwn, OnlyStoppedIsNotRun
  <2>5. StoppedNeverRuns'
    BY <1>1, <1>2, <2>1 DEF StoppedNeverRuns, SchedulerTypeOK
  <2>6. CallerOwnsEvent'
    BY <1>1, <1>2, <2>1, <2>2 DEF CallerOwnsEvent, SchedulerTypeOK
  <2>7. QED
    BY <2>3, <2>4, <2>5, <2>6
<1>4. CASE s_threadState = "RUNNING"
  <2>1. /\ m_lastEventId' = NextEventId
        /\ eventId' = [eventId EXCEPT ![e] = NextEventId]
        /\ m_eventIds' = m_eventIds \cup {NextEventId}
        /\ m_eventList' = m_eventList \cup {e}
        /\ fate' = [fate EXCEPT ![e] = "queued"]
        /\ s_call' = [s_call EXCEPT ![c] = e]
    BY <1>4 DEF AddEvent
  <2>2. /\ NextEventId = m_lastEventId + 1
        /\ m_lastEventId + 1 <= Cardinality(Numbered \cup {e})
        /\ m_lastEventId \in Nat
    BY <1>1, <1>2, IdIsFresh DEF SchedulerTypeOK
  <2>3. /\ eventId'[e] = m_lastEventId + 1
        /\ \A f \in Event \ {e} : eventId'[f] = eventId[f]
        /\ \A f \in Event : eventId[f] \in Nat /\ eventId[f] <= m_lastEventId
    BY <1>1, <2>1, <2>2 DEF SchedulerTypeOK, IdsAreDistinct
  <2>4. Numbered' = Numbered \cup {e}
    BY <2>2, <2>3 DEF Numbered
  <2>5. \A f \in Event \ {e} : fate'[f] = fate[f]
    BY <1>1, <2>1 DEF SchedulerTypeOK
  <2>6. fate'[e] = "queued"
    BY <1>1, <2>1 DEF SchedulerTypeOK
  <2>7. IdsAreDistinct'
    <3>1. \A f \in Event : fate'[f] = "new" => eventId'[f] = 0
      BY <2>3, <2>5, <2>6 DEF IdsAreDistinct
    <3>2. \A f \in Event : fate'[f] = "queued" => eventId'[f] # 0
      BY <2>2, <2>3, <2>5 DEF IdsAreDistinct
    <3>3. \A f, g \in Numbered' : eventId'[f] = eventId'[g] => f = g
      BY <2>2, <2>3, <2>4, <1>2 DEF IdsAreDistinct, Numbered
    <3>4. \A f \in Event : eventId'[f] <= m_lastEventId'
      BY <2>1, <2>2, <2>3
    <3>5. m_lastEventId' <= Cardinality(Numbered)'
      BY <2>1, <2>2, <2>4
    <3>6. QED
      BY <3>1, <3>2, <3>3, <3>4, <3>5 DEF IdsAreDistinct
  <2>8. IdsOfTheWaiting'
    <3>1. m_eventList' \ stopped' = (m_eventList \ stopped) \cup {e}
      BY <1>2, <2>1
    <3>2. \A f \in m_eventList \ stopped : eventId'[f] = eventId[f]
      BY <1>1, <1>2, <2>3 DEF SchedulerTypeOK
    <3>3. m_eventIds' = {eventId[f] : f \in m_eventList \ stopped} \cup {eventId'[e]}
      BY <2>1, <2>2, <2>3 DEF IdsOfTheWaiting
    <3>4. QED
      BY <3>1, <3>2, <3>3 DEF IdsOfTheWaiting
  <2>9. HeldIdIsOwn' /\ OnlyStoppedIsNotRun'
    BY <1>2, <2>3, <2>4 DEF HeldIdIsOwn, OnlyStoppedIsNotRun
  <2>10. StoppedNeverRuns'
    BY <1>1, <1>2, <2>5 DEF StoppedNeverRuns, SchedulerTypeOK
  <2>11. CallerOwnsEvent'
    <3>1. \A b \in Client : s_call[b] # e
      BY <1>2, SchedulerAssumption DEF CallerOwnsEvent
    <3>2. s_call'[c] = e /\ \A b \in Client \ {c} : s_call'[b] = s_call[b]
      BY <1>1, <2>1 DEF SchedulerTypeOK
    <3>3. \A b \in Client : s_call[b] # NoEvent => s_call[b] \in Event
      BY <1>1 DEF SchedulerTypeOK
    <3>4. QED
      BY <1>2, <1>4, <2>4, <2>5, <2>6, <3>1, <3>2, <3>3 DEF CallerOwnsEvent
  <2>12. QED
    BY <2>7, <2>8, <2>9, <2>10, <2>11
<1>5. QED
  BY <1>3, <1>4

\* Taking an id out revokes the one event that has it.
LEMMA IdNamesOneEvent ==
  ASSUME IdInv, NEW e \in Numbered
  PROVE  /\ eventId[e] \in m_eventIds <=> e \in m_eventList \ stopped
         /\ m_eventIds \ {eventId[e]} = {eventId[f] : f \in (m_eventList \ stopped) \ {e}}
<1>1. m_eventList \subseteq Numbered
  BY DEF IdInv, SleepInv, SchedulerTypeOK, WaitingOrInHand, IdsAreDistinct, Numbered
<1>2. \A f \in m_eventList : eventId[f] = eventId[e] => f = e
  BY <1>1 DEF IdInv, IdsAreDistinct
<1>3. m_eventIds = {eventId[f] : f \in m_eventList \ stopped}
  BY DEF IdInv, IdsOfTheWaiting
<1>4. QED
  BY <1>2, <1>3

\* stopEvent() revokes the event it is called for.
LEMMA StopEventKeepsIds ==
  ASSUME IdInv, SleepInv', NEW e \in Event, StopEvent(e)
  PROVE  IdInv'
<1> USE DEF IdInv
<1>1. SchedulerTypeOK /\ WaitingOrInHand
  BY DEF SleepInv
<1>2. heldId[e] = eventId[e] /\ e \in Numbered
  BY DEF StopEvent, HeldIdIsOwn, Numbered
<1>3. /\ heldId' = [heldId EXCEPT ![e] = 0]
      /\ stopped' = IF eventId[e] \in m_eventIds THEN stopped \cup {e} ELSE stopped
      /\ m_eventIds' = m_eventIds \ {eventId[e]}
      /\ UNCHANGED <<m_eventList, m_lastEventId, eventId, s_pc, s_task, s_runTask,
                     s_threadState, s_call, fate>>
  BY <1>2 DEF StopEvent, s_thread
<1>4. /\ eventId[e] \in m_eventIds <=> e \in m_eventList \ stopped
      /\ m_eventIds \ {eventId[e]} = {eventId[f] : f \in (m_eventList \ stopped) \ {e}}
  BY <1>2, IdNamesOneEvent
<1>5. /\ stopped \subseteq stopped' /\ stopped' \subseteq stopped \cup {e}
      /\ m_eventList \ stopped' = (m_eventList \ stopped) \ {e}
      /\ e \in stopped' \ stopped => e \in m_eventList
  BY <1>3, <1>4
<1>6. Numbered' = Numbered
  BY <1>3 DEF Numbered
<1>7. IdsAreDistinct'
  BY <1>3, <1>6 DEF IdsAreDistinct
<1>8. IdsOfTheWaiting'
  BY <1>3, <1>4, <1>5 DEF IdsOfTheWaiting
<1>9. HeldIdIsOwn'
  BY <1>1, <1>3 DEF HeldIdIsOwn, SchedulerTypeOK
<1>10. OnlyStoppedIsNotRun'
  BY <1>2, <1>3, <1>5, <1>6 DEF OnlyStoppedIsNotRun
<1>11. StoppedNeverRuns'
  BY <1>1, <1>3, <1>5 DEF StoppedNeverRuns, WaitingOrInHand
<1>12. CallerOwnsEvent'
  <2>1. \A c \in Client : s_call[c] # e
    BY <1>2, SchedulerAssumption DEF CallerOwnsEvent, StopEvent
  <2>2. ASSUME NEW c \in Client, s_call[c] # NoEvent
        PROVE  s_call[c] \in Numbered \ stopped' /\ heldId'[s_call[c]] = 0
    BY <1>1, <1>3, <1>5, <2>1, <2>2 DEF CallerOwnsEvent, SchedulerTypeOK
  <2>3. QED
    BY <1>3, <1>6, <2>2 DEF CallerOwnsEvent
<1>13. QED
  BY <1>7, <1>8, <1>9, <1>10, <1>11, <1>12

\* The thread leaves out the event whose id is gone, which is one that was stopped.
LEMMA TimeoutKeepsIds ==
  ASSUME IdInv, SleepInv', Timeout
  PROVE  IdInv'
<1> USE DEF IdInv
<1>1. SchedulerTypeOK /\ WaitingOrInHand /\ s_task = NoEvent
  BY DEF SleepInv, Timeout, SchedulerTypeOK
<1>2. UNCHANGED <<m_lastEventId, eventId, s_threadState, fate, s_call, heldId, stopped>>
  BY DEF Timeout, s_clients
<1>3. Numbered' = Numbered
  BY <1>2 DEF Numbered
<1>4. IdsAreDistinct' /\ HeldIdIsOwn' /\ CallerOwnsEvent'
  BY <1>2, <1>3 DEF IdsAreDistinct, HeldIdIsOwn, CallerOwnsEvent
<1>5. CASE s_threadState = "TERMINATED"
  <2>1. s_pc' = "test" /\ UNCHANGED <<m_eventList, m_eventIds, s_task, s_runTask>>
    BY <1>5 DEF Timeout
  <2>2. IdsOfTheWaiting' /\ OnlyStoppedIsNotRun' /\ StoppedNeverRuns'
    BY <1>2, <1>3, <2>1 DEF IdsOfTheWaiting, OnlyStoppedIsNotRun, StoppedNeverRuns
  <2>3. QED
    BY <1>4, <2>2
<1>6. CASE s_threadState # "TERMINATED"
  <2>1. PICK e \in m_eventList :
          /\ m_eventList' = m_eventList \ {e}
          /\ m_eventIds' = m_eventIds \ {eventId[e]}
          /\ s_task' = e
          /\ s_runTask' = (eventId[e] \in m_eventIds)
    BY <1>6 DEF Timeout, Top
  <2>2. e \in Numbered
    BY <1>1 DEF Numbered, SchedulerTypeOK, WaitingOrInHand, IdsAreDistinct
  <2>3. /\ eventId[e] \in m_eventIds <=> e \in m_eventList \ stopped
        /\ m_eventIds \ {eventId[e]} = {eventId[f] : f \in (m_eventList \ stopped) \ {e}}
    BY <2>2, IdNamesOneEvent
  <2>4. s_runTask' <=> e \notin stopped
    BY <2>1, <2>3, Zenon
  <2>5. IdsOfTheWaiting'
    <3>1. m_eventList' \ stopped' = (m_eventList \ stopped) \ {e}
      BY <1>2, <2>1
    <3>2. QED
      BY <1>2, <2>1, <2>3, <3>1 DEF IdsOfTheWaiting
  <2>6. OnlyStoppedIsNotRun' /\ StoppedNeverRuns'
    BY <1>2, <1>3, <2>1, <2>4 DEF OnlyStoppedIsNotRun, StoppedNeverRuns
  <2>7. QED
    BY <1>4, <2>5, <2>6
<1>7. QED
  BY <1>5, <1>6

\* No step breaks the invariant of the ids.
LEMMA NextKeepsIds ==
  ASSUME IdsSuffice
  PROVE  IdInv /\ [SchedulerNext]_s_vars => IdInv'
<1> SUFFICES ASSUME IdInv, [SchedulerNext]_s_vars
             PROVE  IdInv'
  OBVIOUS
<1> USE DEF IdInv
<1>1. SleepInv'
  BY NextKeepsSleep
<1>2. SchedulerTypeOK /\ WaitingOrInHand
  BY DEF SleepInv
<1>3. ASSUME UNCHANGED <<s_queue, s_task, s_runTask, s_threadState, heldId, stopped,
                         fate, s_call>>,
             s_pc' = "handOver" => s_pc = "handOver"
      PROVE  IdInv'
  <2>1. Numbered' = Numbered
    BY <1>3 DEF Numbered, s_queue
  <2>2. IdsAreDistinct' /\ IdsOfTheWaiting' /\ HeldIdIsOwn'
    BY <1>3, <2>1 DEF IdsAreDistinct, IdsOfTheWaiting, HeldIdIsOwn, s_queue
  <2>3. OnlyStoppedIsNotRun' /\ StoppedNeverRuns' /\ CallerOwnsEvent'
    BY <1>3, <2>1 DEF OnlyStoppedIsNotRun, StoppedNeverRuns, CallerOwnsEvent
  <2>4. QED
    BY <1>1, <2>2, <2>3
<1>4. CASE UNCHANGED s_vars
  BY <1>3, <1>4 DEF s_vars, s_thread, s_clients
<1>5. ASSUME NEW c \in Client, NEW e \in Event, NEW d \in Delays,
             AddEvent(c, e, d)
      PROVE  IdInv'
  BY <1>1, <1>5, AddEventKeepsIds
<1>6. ASSUME NEW c \in Client, NotifyScheduler(c)
      PROVE  IdInv'
  BY <1>3, <1>6 DEF NotifyScheduler, s_thread
<1>7. ASSUME NEW c \in Client, ReturnId(c)
      PROVE  IdInv'
  <2>1. /\ s_call[c] # NoEvent /\ s_call[c] \in Event
        /\ s_call' = [s_call EXCEPT ![c] = NoEvent]
        /\ UNCHANGED <<s_queue, s_thread, s_threadState, stopped, fate>>
    BY <1>2, <1>7 DEF ReturnId, SchedulerTypeOK
  <2>2. c \in Stopper => fate[s_call[c]] \notin Deleted
    BY <1>7, <2>1 DEF CallerOwnsEvent, Deleted
  <2>3. /\ heldId'[s_call[c]] \in {0, eventId[s_call[c]]}
        /\ \A e \in Event : e # s_call[c] => heldId'[e] = heldId[e]
    BY <1>2, <1>7, <2>1, <2>2 DEF ReturnId, SchedulerTypeOK, CallerOwnsEvent
  <2>4. Numbered' = Numbered
    BY <2>1 DEF Numbered, s_queue
  <2>5. HeldIdIsOwn'
    BY <2>1, <2>3 DEF HeldIdIsOwn, s_queue
  <2>6. IdsAreDistinct' /\ IdsOfTheWaiting' /\ OnlyStoppedIsNotRun' /\ StoppedNeverRuns'
    BY <2>1, <2>4 DEF IdsAreDistinct, IdsOfTheWaiting, OnlyStoppedIsNotRun,
                      StoppedNeverRuns, s_queue, s_thread
  <2>7. s_call'[c] = NoEvent /\ \A b \in Client \ {c} : s_call'[b] = s_call[b]
    BY <1>2, <2>1 DEF SchedulerTypeOK
  <2>8. \A b \in Client \ {c} :
          s_call[b] # NoEvent => s_call[b] # s_call[c] /\ s_call[b] \in Event
    BY <1>2 DEF CallerOwnsEvent, SchedulerTypeOK
  <2>9. CallerOwnsEvent'
    BY <2>1, <2>3, <2>4, <2>7, <2>8 DEF CallerOwnsEvent
  <2>10. QED
    BY <1>1, <2>5, <2>6, <2>9
<1>8. ASSUME NEW e \in Event, StopEvent(e)
      PROVE  IdInv'
  BY <1>1, <1>8, StopEventKeepsIds
<1>9. CASE TestSchedulerState \/ WaitForEvent \/ WakeScheduler \/ WaitForTop \/ Tick
  BY <1>3, <1>9 DEF TestSchedulerState, WaitForEvent, WakeScheduler, WaitForTop, Tick,
                    s_thread, s_clients
<1>10. CASE Timeout
  BY <1>1, <1>10, TimeoutKeepsIds
<1>11. ASSUME NEW accepted \in BOOLEAN, HandOver(accepted),
              accepted \/ s_threadState # "RUNNING"
       PROVE  IdInv'
  <2>1. /\ s_pc = "handOver" /\ s_pc' = "test" /\ s_task \in Event
        /\ s_task' = NoEvent
        /\ s_runTask' = FALSE
        /\ UNCHANGED <<s_queue, s_threadState, s_call, heldId, stopped>>
    BY <1>2, <1>11 DEF HandOver, SchedulerTypeOK, s_clients
  <2>2. PICK what \in {"discarded", "handed", "refused"} :
          /\ fate' = [fate EXCEPT ![s_task] = what]
          /\ what = "discarded" <=> ~s_runTask
          /\ what = "refused" => s_threadState # "RUNNING"
    BY <1>11 DEF HandOver
  <2>3. /\ fate'[s_task] = what
        /\ \A e \in Event \ {s_task} : fate'[e] = fate[e]
    BY <1>2, <2>1, <2>2 DEF SchedulerTypeOK
  <2>4. s_task \in stopped <=> what = "discarded"
    BY <2>1, <2>2 DEF OnlyStoppedIsNotRun, StoppedNeverRuns
  <2>5. Numbered' = Numbered
    BY <2>1 DEF Numbered, s_queue
  <2>6. IdsAreDistinct'
    BY <2>1, <2>2, <2>3, <2>5 DEF IdsAreDistinct, s_queue
  <2>7. IdsOfTheWaiting' /\ HeldIdIsOwn' /\ OnlyStoppedIsNotRun'
    BY <2>1, <2>5 DEF IdsOfTheWaiting, HeldIdIsOwn, OnlyStoppedIsNotRun, s_queue
  <2>8. StoppedNeverRuns'
    BY <1>2, <2>1, <2>3, <2>4, SchedulerAssumption DEF StoppedNeverRuns, SchedulerTypeOK
  <2>9. CallerOwnsEvent'
    <3>1. \A c \in Client : s_call[c] # NoEvent => s_call[c] \in Event
      BY <1>2 DEF SchedulerTypeOK
    <3>2. ASSUME NEW c \in Stopper, c \in Client, s_call[c] # NoEvent
          PROVE  fate'[s_call[c]] \in {"queued", "handed"}
      <4>1. /\ s_threadState = "RUNNING" /\ s_call[c] \notin stopped
            /\ fate[s_call[c]] \in {"queued", "handed"}
        BY <3>2 DEF CallerOwnsEvent
      <4>2. QED
        BY <2>2, <2>3, <2>4, <3>1, <3>2, <4>1
    <3>3. QED
      BY <2>1, <2>5, <3>2 DEF CallerOwnsEvent
  <2>10. QED
    BY <1>1, <2>6, <2>7, <2>8, <2>9
<1>12. CASE StopperIsOutside /\ (StopScheduler \/ ShutdownScheduler)
  <2>1. UNCHANGED <<m_lastEventId, eventId, s_pc, s_task, s_runTask, s_call, heldId,
                    stopped>>
    BY <1>12 DEF StopScheduler, ShutdownScheduler, s_queue, s_thread, s_clients
  <2>2. \A e \in Event : \/ fate'[e] = fate[e]
                         \/ fate'[e] = "cleared"
    BY <1>12 DEF StopScheduler, ShutdownScheduler
  <2>3. Numbered' = Numbered
    BY <2>1 DEF Numbered
  <2>4. IdsAreDistinct'
    BY <2>1, <2>2, <2>3 DEF IdsAreDistinct
  <2>5. IdsOfTheWaiting'
    BY <1>12, <2>1 DEF StopScheduler, ShutdownScheduler, IdsOfTheWaiting, s_queue
  <2>6. HeldIdIsOwn' /\ OnlyStoppedIsNotRun'
    BY <2>1, <2>3 DEF HeldIdIsOwn, OnlyStoppedIsNotRun
  <2>7. StoppedNeverRuns'
    BY <1>2, <2>1, <2>2 DEF StoppedNeverRuns, SchedulerTypeOK
  <2>8. CallerOwnsEvent'
    BY <1>12, <2>1, <2>3 DEF CallerOwnsEvent, StopperIsOutside
  <2>9. QED
    BY <1>1, <2>4, <2>5, <2>6, <2>7, <2>8
<1>13. ASSUME NEW e \in Event, StopperIsOutside, Dispose(e)
       PROVE  IdInv'
  <2>1. /\ fate[e] = "handed"
        /\ UNCHANGED <<s_queue, s_pc, s_task, s_runTask, s_threadState, s_call,
                       heldId, stopped>>
    BY <1>13 DEF Dispose, s_thread, s_clients
  <2>2. fate'[e] = "disposed" /\ \A f \in Event \ {e} : fate'[f] = fate[f]
    BY <1>2, <1>13 DEF Dispose, SchedulerTypeOK
  <2>3. Numbered' = Numbered
    BY <2>1 DEF Numbered, s_queue
  <2>4. IdsAreDistinct'
    BY <2>1, <2>2, <2>3 DEF IdsAreDistinct, s_queue
  <2>5. IdsOfTheWaiting' /\ HeldIdIsOwn' /\ OnlyStoppedIsNotRun'
    BY <2>1, <2>3 DEF IdsOfTheWaiting, HeldIdIsOwn, OnlyStoppedIsNotRun, s_queue
  <2>6. StoppedNeverRuns'
    BY <1>2, <2>1, <2>2 DEF StoppedNeverRuns, SchedulerTypeOK
  <2>7. CallerOwnsEvent'
    BY <1>13, <2>1, <2>3 DEF CallerOwnsEvent, StopperIsOutside
  <2>8. QED
    BY <1>1, <2>4, <2>5, <2>6, <2>7
<1>14. QED
  BY <1>4, <1>5, <1>6, <1>7, <1>8, <1>9, <1>10, <1>11, <1>12, <1>13
     DEF SchedulerNext, SchedulerThread, SchedulerCalls, SchedulerWoken,
         SchedulerSpuriousWakeUp

\* The initial state has it.
LEMMA InitNumbersNone ==
  ASSUME IdsSuffice
  PROVE  SchedulerInit => IdInv
<1> SUFFICES ASSUME SchedulerInit PROVE IdInv
  OBVIOUS
<1>1. Numbered = {}
  BY DEF SchedulerInit, Numbered
<1>2. IdsAreDistinct
  <2>1. Cardinality(Numbered) = 0
    BY <1>1, FS_EmptySet
  <2>2. QED
    BY <1>1, <2>1 DEF SchedulerInit, IdsAreDistinct
<1>3. /\ IdsOfTheWaiting /\ HeldIdIsOwn /\ OnlyStoppedIsNotRun /\ StoppedNeverRuns
      /\ CallerOwnsEvent
  BY DEF SchedulerInit, IdsOfTheWaiting, HeldIdIsOwn, OnlyStoppedIsNotRun,
         StoppedNeverRuns, CallerOwnsEvent
<1>4. QED
  BY <1>2, <1>3, InitSleeps DEF IdInv

\* It holds throughout.
LEMMA IdsHold ==
  ASSUME IdsSuffice
  PROVE  SchedulerSpec => []IdInv
<1>1. SchedulerInit => IdInv
  BY InitNumbersNone
<1>2. IdInv /\ [SchedulerNext]_s_vars => IdInv'
  BY NextKeepsIds
<1>3. QED
  BY <1>1, <1>2, PTL DEF SchedulerSpec

\* stopEvent(): the event it returned true for never reaches the dispatcher, whatever
\* the order of the calls and the thread's steps, while the ids do not wrap around.
THEOREM StoppedEventNeverRuns ==
  ASSUME IdsSuffice
  PROVE  SchedulerSpec => []StoppedNeverRuns
<1>1. IdInv => StoppedNeverRuns
  BY DEF IdInv
<1>2. SchedulerSpec => []IdInv
  BY IdsHold
<1>3. QED
  BY <1>1, <1>2, PTL

\* addEvent() and stopEvent(): the id a client keeps is that of its own event, although
\* it is read after the unlock, and m_eventIds holds the ids of the waiting events that
\* were not stopped and no other, while the ids do not wrap around.
THEOREM SchedulerIsSafe ==
  ASSUME IdsSuffice
  PROVE  SchedulerSpec => []SchedulerInv
<1>1. IdInv => SchedulerInv
  BY SleepEndsWithDueEvent DEF IdInv, SleepInv, SchedulerInv
<1>2. SchedulerSpec => []IdInv
  BY IdsHold
<1>3. QED
  BY <1>1, <1>2, PTL

----------------------------------------------------------------------------
(* The two together *)


\* The dispatcher's thread calls addEvent() in a task other than Game::shutdown, before
\* it has stopped the scheduler; the event of that call was not run meanwhile.
CallsInTask ==
  s_call[Self] # NoEvent =>
    /\ d_pc = "run" /\ d_task # ShutdownTask
    /\ s_threadState = "RUNNING"
    /\ outcome[s_call[Self]] \in {"new", "queued"}

\* An event gets into the dispatcher's queue by being handed over and in no other way.
EventsArePosted ==
  \A e \in Event : outcome[e] # "new" => fate[e] \in {"handed", "refused"}

\* The scheduler is stopped before the dispatcher.
StopOrder == d_threadState # "RUNNING" => s_threadState # "RUNNING"

\* The inductive invariant of the two: that of each, and what joins them.
Joint ==
  /\ IInv /\ SleepInv
  /\ CallsInTask
  /\ EventsArePosted
  /\ StopOrder
  /\ RefusedOnlyAfterStop

----------------------------------------------------------------------------
(* Each thread keeps to its own specification *)

LEMMA Members ==
  /\ Self \in Client /\ Self \notin Caller /\ SchedulerSelf \in Caller
  /\ Caller \ {SchedulerSelf} \subseteq Client
  /\ Event \subseteq Ordinary /\ Event \subseteq Task
  /\ Posted \subseteq Ordinary /\ Posted \cap Event = {}
  /\ ShutdownTask \notin Event
BY DispatcherAssumption, ThreadsAssumption DEF Thread, Ordinary, Posted

LEMMA DispatcherKeepsTo ==
  ASSUME Joint, Next
  PROVE  [DispatcherNext]_d_vars
<1>1. CASE UNCHANGED d_vars
  BY <1>1
<1>2. CASE DispatcherLoop \/ Request \/ StopBoth \/ ShutdownBoth
  BY <1>2 DEF DispatcherLoop, Request, StopBoth, ShutdownBoth, DispatcherNext,
     DispatcherThread
<1>3. CASE \E t \in Posted : TaskPosts(t)
  BY <1>3, Members DEF TaskPosts, DispatcherNext
<1>4. CASE HandOverEvent
  <2>1. s_task \in Event
    BY <1>4 DEF HandOverEvent, Joint, SleepInv, SchedulerTypeOK
  <2>2. Post(SchedulerSelf, s_task) \/ UNCHANGED d_vars
    BY <1>4 DEF HandOverEvent
  <2>3. QED
    BY <2>1, <2>2, Members DEF DispatcherNext
<1>5. CASE NetworkPosts
  BY <1>5, Members DEF NetworkPosts, DispatcherNext
<1>6. CASE Notifications \/ SpuriousWakeUps
  BY <1>6 DEF Notifications, SpuriousWakeUps, DispatcherNext
<1>7. CASE \/ \E e \in Event, d \in Delays : TaskAddsEvent(e, d)
           \/ \E e \in Event : TaskStopsEvent(e)
           \/ SchedulerLoop \/ Clock
  BY <1>1, <1>7 DEF TaskAddsEvent, TaskStopsEvent, SchedulerLoop, Clock
<1>8. QED
  BY <1>2, <1>3, <1>4, <1>5, <1>6, <1>7 DEF Next

LEMMA SchedulerKeepsTo ==
  ASSUME Joint, Next
  PROVE  [SchedulerNext]_s_vars
<1>1. CASE UNCHANGED s_vars
  BY <1>1
<1>2. CASE \/ DispatcherLoop \/ Request
           \/ \E t \in Posted : TaskPosts(t)
  BY <1>1, <1>2 DEF DispatcherLoop, Request, TaskPosts
<1>3. CASE StopBoth \/ ShutdownBoth
  <2>1. ASSUME d_pc = "stopping" \/ d_task = ShutdownTask PROVE StopperIsOutside
    BY <2>1, ThreadsAssumption DEF Joint, CallsInTask, StopperIsOutside
  <2>2. CASE UNCHANGED d_vars
    BY <1>3, <2>1, <2>2 DEF StopBoth, ShutdownBoth, SchedulerNext, StopDispatcher,
       ShutdownDispatcher, d_vars
  <2>3. QED
    BY <1>1, <1>3, <2>2 DEF StopBoth, ShutdownBoth
<1>4. CASE \/ \E e \in Event, d \in Delays : TaskAddsEvent(e, d)
           \/ \E e \in Event : TaskStopsEvent(e)
           \/ SchedulerLoop \/ Clock
  BY <1>4, Members DEF TaskAddsEvent, TaskStopsEvent, SchedulerLoop, Clock, SchedulerCalls,
     SchedulerNext
<1>5. CASE HandOverEvent
  <2>1. CASE d_threadState = "RUNNING"
    <3>1. (d_threadState = "RUNNING") = TRUE
      BY <2>1
    <3>2. HandOver(TRUE)
      BY <1>5, <3>1 DEF HandOverEvent
    <3>3. QED
      BY <3>2 DEF SchedulerNext
  <2>2. CASE d_threadState # "RUNNING"
    <3>1. (d_threadState = "RUNNING") = FALSE /\ s_threadState # "RUNNING"
      BY <2>2 DEF Joint, StopOrder
    <3>2. HandOver(FALSE)
      BY <1>5, <3>1 DEF HandOverEvent
    <3>3. QED
      BY <3>1, <3>2 DEF SchedulerNext
  <2>3. QED
    BY <2>1, <2>2
<1>6. CASE NetworkPosts
  BY <1>1, <1>6, Members DEF NetworkPosts, SchedulerCalls, SchedulerNext
<1>7. CASE Notifications \/ SpuriousWakeUps
  BY <1>1, <1>7 DEF Notifications, SpuriousWakeUps, SchedulerCalls, SchedulerNext
<1>8. QED
  BY <1>2, <1>3, <1>4, <1>5, <1>6, <1>7 DEF Next

----------------------------------------------------------------------------
(* What joins them *)

\* A step in which the dispatcher's thread neither posts nor begins to call addEvent(),
\* and the events go on as they are.
LEMMA JoinedStill ==
  ASSUME Joint, s_call' = s_call,
         s_call[Self] # NoEvent => UNCHANGED <<d_pc, d_task, outcome, s_threadState>>,
         \A e \in Event : outcome'[e] # "new" => fate'[e] \in {"handed", "refused"},
         d_threadState' # "RUNNING" => s_threadState' # "RUNNING",
         s_threadState # "RUNNING" => s_threadState' # "RUNNING",
         \A e \in Event : fate'[e] = "refused" => fate[e] = "refused"
  PROVE  CallsInTask' /\ EventsArePosted' /\ StopOrder' /\ RefusedOnlyAfterStop'
<1>1. CallsInTask'
  BY DEF Joint, CallsInTask
<1>2. RefusedOnlyAfterStop'
  BY DEF Joint, RefusedOnlyAfterStop
<1>3. QED
  BY <1>1, <1>2 DEF EventsArePosted, StopOrder

\* What the dispatcher's thread does to tasks is not done to new ones.
LEMMA LoopKeeps ==
  ASSUME Joint, DispatcherLoop
  PROVE  CallsInTask' /\ EventsArePosted' /\ StopOrder' /\ RefusedOnlyAfterStop'
<1>1. UNCHANGED <<s_call, s_threadState, fate, d_threadState>>
  BY DEF DispatcherLoop, s_vars, s_clients, TestState, TakeTask, WaitSignal, Woken, WakeUp,
     Expire, BeginTask, FinishTask, FlushTask, FlushedTaskReturns, FlushedTaskPosts, EndFlush
<1>2. s_call[Self] # NoEvent => FALSE
  BY DEF DispatcherLoop, OutsideAddEvent, Joint, CallsInTask, TestState, TakeTask, WaitSignal,
     Woken, WakeUp, Expire, BeginTask, FlushTask, FlushedTaskReturns, FlushedTaskPosts,
     EndFlush
<1>3. DispatcherTypeOK /\ QueueHoldsTheAccepted /\ TakenInHand
  BY DEF Joint, IInv
<1>4. \A t \in Task : outcome'[t] # "new" => outcome[t] # "new"
  <2>1. outcome \in [Task -> {"new", "queued", "taken", "executed", "expired", "refused"}]
    BY <1>3 DEF DispatcherTypeOK
  <2>2. ASSUME NEW t \in Task, NEW o, outcome' = [outcome EXCEPT ![t] = o], outcome[t] # "new"
        PROVE  \A u \in Task : outcome'[u] # "new" => outcome[u] # "new"
    BY <2>1, <2>2
  <2>3. CASE outcome' = outcome
    BY <2>3
  <2>4. ASSUME m_taskList # <<>>
        PROVE  Head(m_taskList) \in Task /\ outcome[Head(m_taskList)] # "new"
    <3>1. Len(m_taskList) \in Nat /\ Len(m_taskList) # 0 /\ Head(m_taskList) = m_taskList[1]
          /\ Head(m_taskList) \in Task
      BY <1>3, <2>4 DEF DispatcherTypeOK
    <3>2. 1 \in 1..Len(m_taskList)
      BY <3>1
    <3>3. QED
      BY <1>3, <3>1, <3>2 DEF QueueHoldsTheAccepted
  <2>5. CASE TakeTask \/ Woken \/ FlushTask
    <3>1. \/ outcome' = outcome
          \/ /\ m_taskList # <<>>
             /\ outcome' = [outcome EXCEPT ![Head(m_taskList)] = "taken"]
      BY <2>5 DEF TakeTask, Woken, WakeUp, FlushTask, PopFront
    <3>2. QED
      BY <2>2, <2>3, <2>4, <3>1
  <2>6. CASE Expire \/ FinishTask
    <3>1. d_task \in Task /\ \E o : outcome' = [outcome EXCEPT ![d_task] = o]
      BY <1>3, <2>6 DEF Expire, FinishTask, DispatcherTypeOK
    <3>2. outcome[d_task] = "taken"
      BY <1>3, <3>1 DEF TakenInHand
    <3>3. QED
      BY <2>2, <3>1, <3>2
  <2>7. CASE FlushedTaskReturns
    <3>1. d_flushed \in Task /\ outcome' = [outcome EXCEPT ![d_flushed] = "executed"]
      BY <1>3, <2>7 DEF FlushedTaskReturns, DispatcherTypeOK
    <3>2. outcome[d_flushed] = "taken"
      BY <1>3, <3>1 DEF TakenInHand
    <3>3. QED
      BY <2>2, <3>1, <3>2
  <2>8. CASE TestState \/ WaitSignal \/ BeginTask \/ FlushedTaskPosts \/ EndFlush
    BY <2>8 DEF TestState, WaitSignal, BeginTask, FlushedTaskPosts, EndFlush
  <2>9. QED
    BY <2>5, <2>6, <2>7, <2>8 DEF DispatcherLoop
<1>5. \A e \in Event : outcome'[e] # "new" => fate'[e] \in {"handed", "refused"}
  BY <1>1, <1>4, Members DEF Joint, EventsArePosted
<1>6. QED
  BY <1>1, <1>2, <1>5, JoinedStill DEF Joint, StopOrder

\* What is posted directly is no event.
LEMMA PostKeeps ==
  ASSUME Joint, NEW p \in Thread, NEW t \in Task \ Event, AddTask(p, t), UNCHANGED s_vars,
         UNCHANGED d_threadState,
         s_call[Self] # NoEvent => UNCHANGED <<d_pc, d_task>>
  PROVE  CallsInTask' /\ EventsArePosted' /\ StopOrder' /\ RefusedOnlyAfterStop'
<1>1. UNCHANGED <<s_call, s_threadState, fate>>
  BY DEF s_vars, s_clients
<1>2. outcome \in [Task -> {"new", "queued", "taken", "executed", "expired", "refused"}]
      /\ s_call \in [Client -> Event \cup {NoEvent}]
  BY DEF Joint, IInv, DispatcherTypeOK, SleepInv, SchedulerTypeOK
<1>3. \E o : outcome' = [outcome EXCEPT ![t] = o]
  BY DEF AddTask
<1>4. \A e \in Event : outcome'[e] = outcome[e]
  BY <1>2, <1>3, Members
<1>5. CallsInTask'
  BY <1>1, <1>2, <1>4, Members DEF Joint, CallsInTask
<1>6. QED
  BY <1>1, <1>4, <1>5 DEF Joint, EventsArePosted, StopOrder, RefusedOnlyAfterStop

\* An event is added: it was in no queue before.
LEMMA AddingKeeps ==
  ASSUME Joint, NEW c \in Client, NEW e \in Event, NEW d \in Delays, AddEvent(c, e, d),
         c = Self => d_pc = "run" /\ d_task # ShutdownTask, UNCHANGED d_vars
  PROVE  CallsInTask' /\ EventsArePosted' /\ StopOrder' /\ RefusedOnlyAfterStop'
<1>1. UNCHANGED <<d_pc, d_task, d_threadState, outcome>>
  BY DEF d_vars
<1>2. fate \in [Event -> Fates] /\ s_call \in [Client -> Event \cup {NoEvent}]
  BY DEF Joint, SleepInv, SchedulerTypeOK
<1>3. fate[e] = "new" /\ outcome[e] = "new" /\ s_threadState' = s_threadState
  <2>1. fate[e] = "new" /\ s_threadState' = s_threadState
    BY DEF AddEvent
  <2>2. QED
    BY <2>1 DEF Joint, EventsArePosted
<1>4. CASE s_threadState = "RUNNING"
  <2>1. fate' = [fate EXCEPT ![e] = "queued"] /\ s_call' = [s_call EXCEPT ![c] = e]
    BY <1>4 DEF AddEvent
  <2>2. CallsInTask'
    BY <1>1, <1>2, <1>3, <1>4, <2>1, Members DEF Joint, CallsInTask
  <2>3. EventsArePosted' /\ StopOrder' /\ RefusedOnlyAfterStop'
    BY <1>1, <1>2, <1>3, <2>1 DEF Joint, EventsArePosted, StopOrder, RefusedOnlyAfterStop
  <2>4. QED
    BY <2>2, <2>3
<1>5. CASE s_threadState # "RUNNING"
  <2>1. fate' = [fate EXCEPT ![e] = "refused"] /\ s_call' = s_call
    BY <1>5 DEF AddEvent
  <2>2. CallsInTask'
    BY <1>1, <1>3, <2>1 DEF Joint, CallsInTask
  <2>3. EventsArePosted' /\ StopOrder' /\ RefusedOnlyAfterStop'
    BY <1>1, <1>2, <1>3, <1>5, <2>1 DEF Joint, EventsArePosted, StopOrder,
       RefusedOnlyAfterStop
  <2>4. QED
    BY <2>2, <2>3
<1>6. QED
  BY <1>4, <1>5

\* An event is handed over: it has been in the scheduler's queue until now.
LEMMA HandOverKeeps ==
  ASSUME Joint, HandOverEvent
  PROVE  CallsInTask' /\ EventsArePosted' /\ StopOrder' /\ RefusedOnlyAfterStop'
<1>1. /\ s_task \in Event /\ fate \in [Event -> Fates]
      /\ outcome \in [Task -> {"new", "queued", "taken", "executed", "expired", "refused"}]
      /\ s_call \in [Client -> Event \cup {NoEvent}]
  BY DEF HandOverEvent, Joint, SleepInv, SchedulerTypeOK, IInv, DispatcherTypeOK
<1>2. fate[s_task] = "queued" /\ outcome[s_task] = "new"
  <2>1. fate[s_task] = "queued"
    BY <1>1 DEF Joint, SleepInv, WaitingOrInHand
  <2>2. QED
    BY <1>1, <2>1 DEF Joint, EventsArePosted
<1>3. /\ s_call' = s_call /\ s_threadState' = s_threadState
      /\ UNCHANGED <<d_pc, d_task, d_threadState>>
  BY DEF HandOverEvent, HandOver, s_clients, Post, d_vars
<1> DEFINE accepted == d_threadState = "RUNNING"
<1>4. fate' = [fate EXCEPT ![s_task] = IF ~s_runTask THEN "discarded"
                                       ELSE IF accepted THEN "handed" ELSE "refused"]
  BY DEF HandOverEvent, HandOver
<1>5. CASE ~s_runTask
  <2>1. outcome' = outcome
    BY <1>5 DEF HandOverEvent, d_vars
  <2>2. QED
    BY <1>1, <1>2, <1>3, <1>4, <1>5, <2>1 DEF Joint, CallsInTask, EventsArePosted, StopOrder,
       RefusedOnlyAfterStop
<1>6. CASE s_runTask /\ accepted
  <2>1. outcome' = [outcome EXCEPT ![s_task] = "queued"]
    BY <1>6 DEF HandOverEvent, Post, AddTask
  <2>2. \A e \in Event : outcome'[e] = IF e = s_task THEN "queued" ELSE outcome[e]
    BY <1>1, <2>1, Members
  <2>3. CallsInTask'
    BY <1>1, <1>3, <2>2, Members DEF Joint, CallsInTask
  <2>4. EventsArePosted' /\ StopOrder' /\ RefusedOnlyAfterStop'
    BY <1>1, <1>3, <1>4, <1>6, <2>2 DEF Joint, EventsArePosted, StopOrder,
       RefusedOnlyAfterStop
  <2>5. QED
    BY <2>3, <2>4
<1>7. CASE s_runTask /\ ~accepted
  <2>1. outcome' = [outcome EXCEPT ![s_task] = "refused"]
    BY <1>7 DEF HandOverEvent, Post, AddTask
  <2>2. \A e \in Event : outcome'[e] = IF e = s_task THEN "refused" ELSE outcome[e]
    BY <1>1, <2>1, Members
  <2>3. s_threadState # "RUNNING"
    BY <1>7 DEF Joint, StopOrder
  <2>4. s_call[Self] = NoEvent
    BY <2>3 DEF Joint, CallsInTask
  <2>5. CallsInTask'
    BY <1>3, <2>4 DEF CallsInTask
  <2>6. EventsArePosted' /\ StopOrder' /\ RefusedOnlyAfterStop'
    BY <1>1, <1>3, <1>4, <1>7, <2>2, <2>3 DEF Joint, EventsArePosted, StopOrder,
       RefusedOnlyAfterStop
  <2>7. QED
    BY <2>5, <2>6
<1>8. QED
  BY <1>5, <1>6, <1>7

\* stop() and shutdown() of the two, in this order; the events still waiting are cleared,
\* and were not handed over.
LEMMA StoppingKeeps ==
  ASSUME Joint, StopBoth \/ ShutdownBoth
  PROVE  CallsInTask' /\ EventsArePosted' /\ StopOrder' /\ RefusedOnlyAfterStop'
<1>1. s_call[Self] = NoEvent /\ s_call' = s_call /\ outcome' = outcome
  <2>1. d_pc = "stopping" \/ d_task = ShutdownTask
    BY DEF StopBoth, ShutdownBoth, StopDispatcher, ShutdownDispatcher
  <2>2. s_call' = s_call /\ outcome' = outcome
    BY DEF StopBoth, ShutdownBoth, StopDispatcher, ShutdownDispatcher, StopScheduler,
       ShutdownScheduler, s_vars, s_clients, d_vars
  <2>3. QED
    BY <2>1, <2>2 DEF Joint, CallsInTask
<1>2. CASE fate' = fate
  <2>1. /\ d_threadState' # "RUNNING" => s_threadState' # "RUNNING"
        /\ s_threadState # "RUNNING" => s_threadState' # "RUNNING"
    BY DEF StopBoth, ShutdownBoth, StopDispatcher, ShutdownDispatcher, StopScheduler,
       ShutdownScheduler, s_vars, d_vars
  <2>2. QED
    BY <1>1, <1>2, <2>1, JoinedStill DEF Joint, EventsArePosted
<1>3. CASE ShutdownScheduler /\ UNCHANGED d_vars
  <2>1. /\ \A e \in Event : fate'[e] = IF e \in m_eventList THEN "cleared" ELSE fate[e]
        /\ s_threadState' # "RUNNING"
    BY <1>3 DEF ShutdownScheduler
  <2>2. \A e \in Event : e \in m_eventList => outcome[e] = "new"
    BY DEF Joint, EventsArePosted, SleepInv, WaitingOrInHand
  <2>3. \A e \in Event : outcome'[e] # "new" => fate'[e] \in {"handed", "refused"}
    BY <1>1, <2>1, <2>2 DEF Joint, EventsArePosted
  <2>4. QED
    BY <1>1, <2>1, <2>3, JoinedStill
<1>4. QED
  BY <1>2, <1>3 DEF StopBoth, ShutdownBoth, StopScheduler, s_vars

\* Other steps of the scheduler and its callers hand nothing over and add nothing.
LEMMA SchedulerStepKeeps ==
  ASSUME Joint, UNCHANGED <<d_pc, d_task, d_threadState, outcome, fate, s_threadState>>,
         s_call' = s_call \/ \E c \in Client : s_call' = [s_call EXCEPT ![c] = NoEvent]
  PROVE  CallsInTask' /\ EventsArePosted' /\ StopOrder' /\ RefusedOnlyAfterStop'
<1>1. s_call \in [Client -> Event \cup {NoEvent}]
  BY DEF Joint, SleepInv, SchedulerTypeOK
<1>2. s_call'[Self] \in {s_call[Self], NoEvent}
  BY <1>1, Members
<1>3. QED
  BY <1>2 DEF Joint, CallsInTask, EventsArePosted, StopOrder, RefusedOnlyAfterStop

LEMMA JointStep ==
  ASSUME Joint, Next
  PROVE  CallsInTask' /\ EventsArePosted' /\ StopOrder' /\ RefusedOnlyAfterStop'
<1>1. CASE Request
  <2>1. AddTask(Self, ShutdownTask) /\ UNCHANGED s_vars /\ UNCHANGED d_threadState
        /\ s_call[Self] = NoEvent
    BY <1>1 DEF Request, RequestShutdown, OutsideAddEvent
  <2>2. ShutdownTask \in Task \ Event /\ Self \in Thread
    BY DispatcherAssumption, Members DEF Thread
  <2>3. QED
    BY <2>1, <2>2, PostKeeps
<1>2. CASE \E t \in Posted : TaskPosts(t)
  <2>1. PICK t \in Posted : AddTask(Self, t) /\ UNCHANGED s_vars
                            /\ UNCHANGED <<d_threadState, d_pc, d_task>>
    BY <1>2 DEF TaskPosts, PostFromTask, Post
  <2>2. t \in Task \ Event /\ Self \in Thread
    BY DEF Posted, Ordinary, Thread
  <2>3. QED
    BY <2>1, <2>2, PostKeeps
<1>3. CASE NetworkPosts
  <2>1. PICK p \in Caller \ {SchedulerSelf} :
          \/ \E t \in Posted : Post(p, t) /\ UNCHANGED s_vars
          \/ \E e \in Event, d \in Delays : AddEvent(p, e, d) /\ UNCHANGED d_vars
    BY <1>3 DEF NetworkPosts
  <2>2. p \in Thread /\ p \in Client /\ p # Self
    BY Members DEF Thread
  <2>3. CASE \E t \in Posted : Post(p, t) /\ UNCHANGED s_vars
    <3>1. PICK t \in Posted : AddTask(p, t) /\ UNCHANGED s_vars
                              /\ UNCHANGED <<d_threadState, d_pc, d_task>>
      BY <2>3 DEF Post
    <3>2. t \in Task \ Event
      BY DEF Posted, Ordinary
    <3>3. QED
      BY <2>2, <3>1, <3>2, PostKeeps
  <2>4. CASE \E e \in Event, d \in Delays : AddEvent(p, e, d) /\ UNCHANGED d_vars
    BY <2>2, <2>4, AddingKeeps
  <2>5. QED
    BY <2>1, <2>3, <2>4
<1>4. CASE \E e \in Event, d \in Delays : TaskAddsEvent(e, d)
  BY <1>4, Members, AddingKeeps DEF TaskAddsEvent
<1>5. CASE \/ \E e \in Event : TaskStopsEvent(e)
           \/ SchedulerLoop \/ Clock
  <2>1. UNCHANGED <<d_pc, d_task, d_threadState, outcome>>
    BY <1>5 DEF TaskStopsEvent, SchedulerLoop, Clock, d_vars
  <2>2. UNCHANGED <<fate, s_threadState, s_call>>
    BY <1>5 DEF TaskStopsEvent, SchedulerLoop, Clock, StopEvent, Tick, SchedulerThread,
       TestSchedulerState, WaitForEvent, WaitForTop, SchedulerWoken, WakeScheduler, Timeout,
       s_clients
  <2>3. QED
    BY <2>1, <2>2, SchedulerStepKeeps
<1>6. CASE Notifications \/ SpuriousWakeUps
  <2>1. CASE \E p \in Thread : Notify(p) /\ UNCHANGED s_vars
    <3>1. UNCHANGED <<d_pc, d_task, d_threadState, outcome, fate, s_threadState, s_call>>
      BY <2>1 DEF Notify, s_vars, s_clients
    <3>2. QED
      BY <3>1, SchedulerStepKeeps
  <2>2. CASE \E c \in Client : (NotifyScheduler(c) \/ ReturnId(c)) /\ UNCHANGED d_vars
    <3>1. UNCHANGED <<d_pc, d_task, d_threadState, outcome, fate, s_threadState>>
          /\ (s_call' = s_call \/ \E c \in Client : s_call' = [s_call EXCEPT ![c] = NoEvent])
      BY <2>2 DEF NotifyScheduler, ReturnId, d_vars
    <3>2. QED
      BY <3>1, SchedulerStepKeeps
  <2>3. CASE SpuriousWakeUp /\ UNCHANGED s_vars
    \* A step of the loop as well, save for the reason it woke.
    <3>1. UNCHANGED <<fate, s_threadState, s_call, d_threadState>>
          /\ d_pc = "wait" /\ PopFront
      BY <2>3 DEF SpuriousWakeUp, WakeUp, s_vars, s_clients
    <3>2. s_call[Self] = NoEvent
      BY <3>1 DEF Joint, CallsInTask
    <3>3. \A e \in Event : outcome'[e] # "new" => outcome[e] # "new"
      <4>1. outcome \in [Task -> {"new", "queued", "taken", "executed", "expired", "refused"}]
            /\ m_taskList \in Seq(Task) /\ QueueHoldsTheAccepted
        BY DEF Joint, IInv, DispatcherTypeOK
      <4>2. CASE outcome' = outcome
        BY <4>2
      <4>3. CASE m_taskList # <<>> /\ outcome' = [outcome EXCEPT ![Head(m_taskList)] = "taken"]
        <5>1. Len(m_taskList) \in Nat /\ Len(m_taskList) # 0
              /\ Head(m_taskList) = m_taskList[1] /\ Head(m_taskList) \in Task
          BY <4>1, <4>3
        <5>2. outcome[Head(m_taskList)] = "queued"
          BY <4>1, <5>1 DEF QueueHoldsTheAccepted
        <5>3. QED
          BY <4>1, <4>3, <5>1, <5>2, Members
      <4>4. QED
        BY <3>1, <4>2, <4>3 DEF PopFront
    <3>4. QED
      BY <3>1, <3>2, <3>3, JoinedStill DEF Joint, EventsArePosted, StopOrder
  <2>4. CASE SchedulerSpuriousWakeUp /\ UNCHANGED d_vars
    <3>1. UNCHANGED <<d_pc, d_task, d_threadState, outcome, fate, s_threadState, s_call>>
      BY <2>4 DEF SchedulerSpuriousWakeUp, WakeScheduler, s_clients, d_vars
    <3>2. QED
      BY <3>1, SchedulerStepKeeps
  <2>5. QED
    BY <1>6, <2>1, <2>2, <2>3, <2>4 DEF Notifications, SpuriousWakeUps
<1>7. QED
  BY <1>1, <1>2, <1>3, <1>4, <1>5, <1>6, LoopKeeps, StoppingKeeps, HandOverKeeps DEF Next

----------------------------------------------------------------------------
LEMMA JointStepKeeps ==
  Joint /\ [Next]_vars => Joint' /\ [DispatcherNext]_d_vars /\ [SchedulerNext]_s_vars
<1> SUFFICES ASSUME Joint, [Next]_vars
             PROVE  Joint' /\ [DispatcherNext]_d_vars /\ [SchedulerNext]_s_vars
  OBVIOUS
<1>1. [DispatcherNext]_d_vars /\ [SchedulerNext]_s_vars
  <2>1. CASE Next
    BY <2>1, DispatcherKeepsTo, SchedulerKeepsTo
  <2>2. CASE UNCHANGED vars
    BY <2>2 DEF vars
  <2>3. QED
    BY <2>1, <2>2
<1>2. IInv' /\ SleepInv'
  BY <1>1, NextKeeps, NextKeepsSleep DEF Joint
<1>3. CallsInTask' /\ EventsArePosted' /\ StopOrder' /\ RefusedOnlyAfterStop'
  <2>1. CASE Next
    BY <2>1, JointStep
  <2>2. CASE UNCHANGED vars
    <3>1. UNCHANGED <<d_pc, d_task, d_threadState, outcome, fate, s_threadState, s_call>>
      BY <2>2 DEF vars, d_vars, s_vars, s_clients
    <3>2. QED
      BY <3>1, SchedulerStepKeeps
  <2>3. QED
    BY <2>1, <2>2
<1>4. QED
  BY <1>1, <1>2, <1>3 DEF Joint

LEMMA JointInit == Init => Joint
<1> SUFFICES ASSUME Init PROVE Joint
  OBVIOUS
<1>1. IInv /\ SleepInv
  BY InitEstablishes, InitSleeps DEF Init
<1>2. CallsInTask
  BY Members DEF Init, SchedulerInit, CallsInTask
<1>3. EventsArePosted /\ StopOrder /\ RefusedOnlyAfterStop
  BY Members DEF Init, DispatcherInit, SchedulerInit, EventsArePosted, StopOrder,
     RefusedOnlyAfterStop
<1>4. QED
  BY <1>1, <1>2, <1>3 DEF Joint

LEMMA JointHolds == Spec => []Joint
<1>1. QED
  BY JointInit, JointStepKeeps, PTL DEF Spec

\* In the server the dispatcher's thread does what Dispatcher says of it alone: that the
\* scheduler's thread posts to it, and stops before it, is nothing new to it.
THEOREM DispatcherInServer == Spec => DispatcherSpec
<1>1. Init => DispatcherInit
  BY DEF Init
<1>2. QED
  BY <1>1, JointHolds, JointStepKeeps, PTL DEF Spec, DispatcherSpec

\* And the scheduler's thread what Scheduler says: the dispatcher refuses an event only
\* after the scheduler was stopped, and its thread stops neither inside an addEvent().
THEOREM SchedulerInServer == Spec => SchedulerSpec
<1>1. Init => SchedulerInit
  BY DEF Init
<1>2. QED
  BY <1>1, JointHolds, JointStepKeeps, PTL DEF Spec, SchedulerSpec

\* So the dispatcher loses no task and sleeps on none with a scheduler at its side,
THEOREM DispatcherIsSafeInServer == Spec => []DispatcherInv
<1>1. QED
  BY DispatcherInServer, DispatcherIsSafe, PTL

\* takes tasks, events among them, in posting order and one at a time,
THEOREM ServerImplementsTaskQueue == Spec => TasksInOrderOneAtATime
<1>1. QED
  BY DispatcherInServer, DispatcherImplementsTaskQueue

\* and an event for which stopEvent() returned true never runs, nor is another stopped
\* in its place, while the ids do not wrap around.
THEOREM StoppedNeverRunsInServer ==
  ASSUME IdsSuffice
  PROVE  Spec => []StoppedNeverRuns
<1>1. SchedulerSpec => []StoppedNeverRuns
  BY StoppedEventNeverRuns
<1>2. QED
  BY <1>1, SchedulerInServer, PTL

\* The id that addEvent() returns to the dispatcher's thread is read from an event that
\* still exists, and no event is refused by the dispatcher before the scheduler was
\* stopped, while the ids do not wrap around.
THEOREM ThreadsAreSafe ==
  ASSUME IdsSuffice
  PROVE  Spec => []ThreadsInv
<1>1. SchedulerSpec => []IdInv
  BY IdsHold
<1>2. Joint /\ IdInv => ThreadsInv
  <2> SUFFICES ASSUME Joint, IdInv PROVE ThreadsInv
    OBVIOUS
  <2>1. ASSUME s_call[Self] # NoEvent PROVE ~EventDeleted(s_call[Self])
    <3>1. fate[s_call[Self]] \in {"queued", "handed"}
      BY <2>1, Members, ThreadsAssumption DEF IdInv, CallerOwnsEvent
    <3>2. outcome[s_call[Self]] \in {"new", "queued"}
      BY <2>1 DEF Joint, CallsInTask
    <3>3. QED
      BY <3>1, <3>2 DEF EventDeleted, Deleted
  <2>2. QED
    BY <2>1 DEF ThreadsInv, IdReadFromLiveEvent, Joint
<1>3. QED
  BY <1>1, <1>2, SchedulerInServer, JointHolds, PTL

=============================================================================
