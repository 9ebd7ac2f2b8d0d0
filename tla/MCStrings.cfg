SPECIFICATION OneSpec
CONSTANTS
  Var = {x, y, z}
  Char = {a, b}
  Junk = Junk
  Literal <- Letters
  ssize = 3
  QLSIZE = 2
  IntBits = 8
  MaxLen = 3
  TabInterval = 3
  MaxLong = 31
  MaxRepl = 4
SYMMETRY Symmetry
INVARIANT Made
PROPERTIES
  ImplementsStrings
  Compacted
