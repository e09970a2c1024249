CONSTANTS
  Record <- ThreeRecords
  MaxChanges = 2
  MaxDepth = 8
SPECIFICATION Spec
CHECK_DEADLOCK FALSE
INVARIANT LoopsAreDetected
