SPECIFICATION Spec
CONSTANTS
  o1 = o1
  o2 = o2
  o3 = o3
  o4 = o4
  o5 = o5
  NoObj = NoObj
  Obj <- MCObj
  StackMax = 3
  RingTime = 8
  CorpseTime = 4
  Scenes <- MCScenes
  Amounts = {2, 3}
  Interval = 2
  Buckets = 2
  Second = 4
INVARIANTS Inv CarriesWhatItMay NothingMadeOrLost WornOut
VIEW View
