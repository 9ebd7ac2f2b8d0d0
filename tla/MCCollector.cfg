SPECIFICATION Spec
CONSTANTS
  Here <- ThreeBlocks
  There <- OneBlock
  ErrorValue = 0
INVARIANT CollectsRightly
CHECK_DEADLOCK FALSE
