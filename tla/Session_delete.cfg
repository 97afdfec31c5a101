CONSTANTS
  NumSegs = 2
  MaxConSeg = 2

SPECIFICATION Spec

INVARIANT NoUseAfterDelete

CHECK_DEADLOCK FALSE
