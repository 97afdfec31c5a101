CONSTANTS
  NumPackets = 3
  ResendThreshold = 3
  LastIsEmpty = FALSE
  NumAcks = 2
  AckWindow = 2
  MaxQueue = 1
  NoPacket = none

SPECIFICATION Spec

INVARIANT GivenUpForCause
INVARIANT SegmentFiled
PROPERTY DeliverySpec

CHECK_DEADLOCK FALSE
