SPECIFICATION Spec
CONSTANTS
  Key <- Keys
  HashOf <- Hashes
  HSlots = 2
  HSegs = 3
  Loading <- Factors
  MaxSize = 5
  MaxMake = 5
  MaxCopies = 1
INVARIANTS
  Sound
PROPERTY ImplementsGeneration
