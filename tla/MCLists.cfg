SPECIFICATION Spec
CONSTANTS
  Value = {a, b}
  None = None
  MinListSlots = 2
  MadeBy = {"list"}
  MaxSize = 4
  MaxMade = 2
  MaxBlocks = 3
SYMMETRY ValueSymmetry
INVARIANT BlocksSound
PROPERTIES
  BangInOrder
  ImplementsDeque
