SPECIFICATION FairWaitListSpec
CONSTANTS
  c1 = c1
  c2 = c2
  c3 = c3
  staff = staff
  Client <- MCClient
  Staff = {staff}
  Patient <- MCPatient
  Account = {TRUE, FALSE}
  MaxPlayers = 2
INVARIANTS WaitListInv
PROPERTIES RoomForThoseAhead NobodyIsOvertaken WaitingGetsIn
