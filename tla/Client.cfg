CONSTANTS
  Packets = {p1, p2, p3, p4}
  NoPacket = none
  Expected = 4
  NumAcks = 2
  AckWindow = 2
  MaxQueue = 2

SPECIFICATION FairSpec

INVARIANT TypeOK
INVARIANT WrittenOnce
INVARIANT AckedOnce
INVARIANT AcksTruthful
INVARIANT WindowRepeats
INVARIANT CompleteAtExit
PROPERTY AckedIsWritten
PROPERTY WorkersEnd

CHECK_DEADLOCK FALSE
