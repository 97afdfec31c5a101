CONSTANTS
  NumSegs = 4
  MaxConSeg = 2

SPECIFICATION Spec

INVARIANT TypeOK
 
INVARIANT AcksRoutable
INVARIANT LockGuardsAlive
INVARIANT UdpOutlivesSenders
INVARIANT SlotNotBehind
INVARIANT SlotDriftBounded
INVARIANT NullReadOnlyAtStart
INVARIANT FewUnserved
INVARIANT StallOnlyByListener

PROPERTY PoolSpec
CHECK_DEADLOCK FALSE
