CONSTANTS
  NumSegs = 2
  MaxConSeg = 2

SPECIFICATION FairSpec

PROPERTY LaunchersEnd

CHECK_DEADLOCK FALSE
