CONSTANTS
  NumSegs = 2
  Payload = 4
  Header = 2
  Base = 8
  MinFile = 14
  MaxFile = 14

SPECIFICATION Spec

INVARIANT RightPlace

CHECK_DEADLOCK FALSE
