CONSTANTS
  NumPackets = 6
  ResendThreshold = 3
  LastIsEmpty = FALSE

SPECIFICATION Spec

INVARIANT StopsForCause

CHECK_DEADLOCK FALSE
