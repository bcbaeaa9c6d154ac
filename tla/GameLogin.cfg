SPECIFICATION FairSpec
CONSTANTS
  p1 = p1
  p2 = p2
  p3 = p3
  None = None
  Protocol <- MCProtocol
INVARIANTS Inv OneClientInControl
PROPERTIES RemovedIsFreed TakeOverIsDecided
CHECK_DEADLOCK FALSE
