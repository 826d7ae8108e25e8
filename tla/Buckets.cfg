CONSTANTS
  numberofworkers = 2
  NumTerms = 4
  BucketSize = 3
  ggThreadBucketSize = 500
  StatementSizes = {39, 249, 332, 800}
  MaxTer = 40000
SPECIFICATION MCSpec
INVARIANTS
  BucketHasOneUser
  MasterWritesAlone
  NoTermLostOrRepeated
PROPERTIES
  ExpressionFinishes
  StatementMakesRoom
CHECK_DEADLOCK FALSE
