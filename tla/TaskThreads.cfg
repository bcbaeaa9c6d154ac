SPECIFICATION FairSpec
CONSTANTS
  network = network
  SchedulerSelf = SchedulerSelf
  Self = Self
  t1 = t1
  t2 = t2
  e1 = e1
  ShutdownTask = ShutdownTask
  NoTask = NoTask
  NoEvent = NoEvent
  MaxId = 2
  MaxDelay = 1
  MaxTime = 2
  Caller <- MCCaller
  Client <- MCClient
  Stopper <- MCStopper
  Task <- MCTask
  Timed <- MCTimed
  Event <- MCEvent
INVARIANTS DispatcherInv ThreadsInv
PROPERTIES TasksInOrderOneAtATime AcceptedTaskRuns EventRuns BothThreadsEnd
CHECK_DEADLOCK FALSE
