CONSTANTS
  NumSenders = 3
  Full = 4

SPECIFICATION Spec

INVARIANT TypeOK
INVARIANT ShortOnlyInWindow
INVARIANT RightLengthAlone
