SPECIFICATION Spec
CONSTANTS
  p = p
  m1 = m1
  m2 = m2
  Nobody = Nobody
  Players = {p}
  Monsters = {m1, m2}
  Places = {0, 1, 2, 3}
  Sight = 1
  Reach = 2
  Zone = 0
  Roam = 1
  RateSpawn = 1
  Order <- MCOrder
  Scenes <- MCScenes
  Vectors <- MCVectors
INVARIANTS Inv IdleSeesNobody SpawnGoesOnLooking NoneIsForgotten
