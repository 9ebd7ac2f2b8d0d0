SPECIFICATION Spec
CONSTANTS
  Main = main
  None = None
  Coexpr = {main, c1, c2}
  ActStkBlkEnts = 2
  MaxPending = 5
INVARIANT StacksSound
PROPERTY ImplementsStacks
