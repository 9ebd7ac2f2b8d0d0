SPECIFICATION FairSpec
CONSTANTS
  Programs <- AllPrograms
  Fuel = 400
  MaxOut = 12
INVARIANTS
  FramesSound
  Agrees
PROPERTY Ends
