CONSTANTS
  NumSegs = 3
  Payload = 4
  Header = 2
  Base = 8
  MinFile = 6
  MaxFile = 36

SPECIFICATION Spec

INVARIANT TypeOK
INVARIANT StreamHolds
INVARIANT LossBounded
INVARIANT CountReached
INVARIANT AcksComeHome
PROPERTY PlacedAfterShorts

CHECK_DEADLOCK FALSE
