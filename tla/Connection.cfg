SPECIFICATION FairSpec
CONSTANTS
  m1 = m1
  m2 = m2
  NoMsg = NoMsg
  Msg <- MCMsg
  MaxTasks = 1
  Races = TRUE
INVARIANTS Inv
CHECK_DEADLOCK FALSE
PROPERTIES LastMessageNotCutOff CloseCompletes
