SPECIFICATION HousesSpec
CONSTANTS
  p1 = p1
  p2 = p2
  o1 = o1
  o2 = o2
  h1 = h1
  h2 = h2
  None = None
  Gone = Gone
  Player <- MCPlayer
  Id <- MCId
  MaxOffers = 2
  Price = {1, 2}
  Amount = {1, 2}
  FeeDivisor = 2
  MinFee = 1
  MaxFee = 1
  Money = 3
  Goods = 1
  MaxFaults = 1
  House <- MCHouse
  Rent = 2
  MaxWarnings = 1
  Scenes <- MCScenes
SYMMETRY Symmetry
INVARIANTS HousesInv
PROPERTIES FairDealing OfflineKeepsItsWorth
CHECK_DEADLOCK FALSE
