SPECIFICATION Spec
CONSTANTS
  p1 = p1
  p2 = p2
  p3 = p3
  bag = bag
  coins = coins
  letter = letter
  None = None
  Player <- MCPlayer
  Item <- MCItem
  Container = {bag}
  Stackable = {coins}
  Readable = {letter}
SYMMETRY Symmetry
VIEW View
INVARIANTS Inv
PROPERTIES OfferStaysAsItIs SwapOrNothing
