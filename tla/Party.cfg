SPECIFICATION Spec
CONSTANTS
  p1 = p1
  p2 = p2
  p3 = p3
  a1 = a1
  a2 = a2
  None = None
  Player <- MCPlayer
  Address <- MCAddress
  Levels = {2, 3, 4}
  here = here
  there = there
  Areas <- MCAreas
  SelfInvites = FALSE
SYMMETRY Symmetry
INVARIANTS Inv SharedExperienceIsDue
