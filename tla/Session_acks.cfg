CONSTANTS
  NumSegs = 2
  MaxConSeg = 2

SPECIFICATION Spec

INVARIANT AckHonoured

CHECK_DEADLOCK FALSE
