SPECIFICATION Spec
CONSTANTS
  BaseSize = 3
  kPreHeadSize = 2
  MaxBytes = 5
  MaxOp = 3
INVARIANT StaysInBounds
PROPERTY IsQueue
CHECK_DEADLOCK FALSE
