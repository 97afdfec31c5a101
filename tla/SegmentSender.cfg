CONSTANTS
  NumPackets = 6
  ResendThreshold = 3
  LastIsEmpty = FALSE

SPECIFICATION FairSpec

INVARIANT TypeOK
INVARIANT FirstPassFirst
INVARIANT AcksAccepted
INVARIANT StopFlagsSound
INVARIANT EveryPacketSent
INVARIANT QueueBounded
PROPERTY TransmissionSpec
PROPERTY SenderStops
PROPERTY AckedSegmentDies

CHECK_DEADLOCK FALSE
