SPECIFICATION WaitListSpec
CONSTANTS
  c1 = c1
  c2 = c2
  c3 = c3
  staff = staff
  Client <- MCThree
  Staff = {}
  Patient = {}
  Account = {TRUE, FALSE}
  MaxPlayers = 1
INVARIANTS RetryInTimeFindsPlace
