CONSTANTS
  Packets = {p1, p2, p3}
  NoPacket = none
  Expected = 3
  NumAcks = 2
  AckWindow = 2
  MaxQueue = 2

SPECIFICATION FairSpec


PROPERTY ReceiverEnds

CHECK_DEADLOCK FALSE
