SPECIFICATION FairSpec
CONSTANTS
  c1 = c1
  m1 = m1
  m2 = m2
  m3 = m3
  Watched = m1
  NoMsg = NoMsg
  NoConn = NoConn
  Conn <- MCConn
  Msg <- MCMsg
  DropAge = 1
INVARIANTS Inv OnlyKnownDeadlocks
PROPERTIES OrderKept EverythingLeaves
CHECK_DEADLOCK FALSE
