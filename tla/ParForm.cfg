SPECIFICATION Spec
CONSTANTS
  NumSlaves = 3
  ProcessBucketSize = 2
  RoomInBuffer = 2
  BufferSize = 3
  NumSBufs = 2
  NumKeys = 3
  MaxPrints = 1
  Programs <- MCPrograms
INVARIANTS
  NothingUnexpected
  EachTermOnce
  OutputIsTheSum
  BuffersIntact
  ResultsStoredRight
PROPERTY
  EveryJobEnds
CHECK_DEADLOCK FALSE
