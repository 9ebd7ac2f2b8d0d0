SPECIFICATION Spec
CONSTANTS
  Kinds = {"Strings", "Blocks"}
  FirstSize = 100
  MinAbrSize = 70
  memcushion = 80
  memgrowth = 100
  Request = {50, 120}
  MaxRegions = 3
  MaxMemory = 320
INVARIANTS
  RegionsSound
  AdvanceKept
PROPERTIES
  NoNeedlessCollection
  ImplementsArena
