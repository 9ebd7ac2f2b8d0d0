SPECIFICATION OneSpec
CONSTANTS
  Var = {v, w}
  MaxSpace = 2
  Null = Null
  Bad = Bad
  Subject <- Subjects
  Pattern <- Patterns
  Cset <- Csets
  Place <- Places
  Ranges <- RangesOfCalls
  lparcs = {"("}
  rparcs = {")"}
  MaxCalls = 2
  MaxSteps = 3
  MaxAnalyses = 1
  IntBits = 3
  File = {"f", "g"}
  FILE = {h1, h2}
  Name = {"x", "y"}
  Directory = {"d"}
  Command = {"cmd"}
  Start <- Starts
  Absent = Absent
  Spec2 <- Specs
  Argument <- Arguments
  MaxReadStr = 2
  MaxCvtLen = 1
  MaxIn = 2
  Size = 7
  Amount = {0, 1, 3}
  Offset <- Offsets
  MaxOps = 3
SYMMETRY Interchangeable
INVARIANTS
  KeptTableRight
  Scanned
  Collated
PROPERTIES
  Transfers
CHECK_DEADLOCK FALSE
