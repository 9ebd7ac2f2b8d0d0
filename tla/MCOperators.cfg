SPECIFICATION OneSpec
CONSTANTS
  Main = main
  Coexpr = {main, c1, c2}
  Value = {v1, v2}
  NoValue = NoValue
  MaxSlots = 2
  MaxPending = 2
  NB = 2
  Ten = 3
  BigMantissa = 2
  Operand <- Operands
  MaxValue = 70
  PowerBits = 24
  Name = {"u"}
  Scene <- Scenes
  Start <- Starts
  Literal <- Literals
  Block = {1, 2, 3, 4, 5, 6, 7, 8, 9, 10, 11, 12, 13}
  MaxLen = 4
  MaxDepth = 2
  MaxOps = 2
  BigLong = 1023
  MaxInt = 31
  BigReal = 100
  LogHuge = 4
  Huge = 1797
  Precision = 3
SYMMETRY Interchangeable
INVARIANTS
  SlotsSound
  Exact
  AssignsRightly
  Converted
PROPERTY OutcomeArrives
CHECK_DEADLOCK FALSE
