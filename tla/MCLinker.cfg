SPECIFICATION EitherSpec
CONSTANTS
  File = {"f1", "f2"}
  Name = {"main", "b", "c", "w", "u"}
  Main = "main"
  Builtin = {"w"}
  All = "0"
  Program <- Programs
  Label = {l1, l2}
  IntSize = 4
  WordSize = 8
  BlockWords = 1
  MaxPc = 64
  MaxJumps = 3
  SourceFile = {"main", "f"}
  FileName = {"", "main", "f", "z"}
  Ident = {"a", "b"}
  MaxOpen = 4
SYMMETRY Interchangeable
CHECK_DEADLOCK FALSE
INVARIANTS
  LinkedRightly
  JumpsLand
  Preprocessed
