SPECIFICATION SchedulerSpec
CONSTANTS
  dispatcher = dispatcher
  network = network
  e1 = e1
  e2 = e2
  e3 = e3
  NoEvent = NoEvent
  MaxId = 3
  MaxDelay = 2
  MaxTime = 3
  Client <- MCClient
  Stopper <- MCStopper
  Event <- MCEvent
SYMMETRY Symmetry
INVARIANTS SchedulerInv NoLateEvent StoppedNeverRuns
CHECK_DEADLOCK FALSE
