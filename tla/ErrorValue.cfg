SPECIFICATION Spec
CONSTANTS
  Here <- ThreeBlocks
  There <- OneBlock
  ErrorValue = 40
CHECK_DEADLOCK FALSE
INVARIANT AccessibleMarked
