CONSTANTS
  ggThreadBucketSize = 500
  StatementSizes = {0, 1, 39, 40, 89, 90, 249, 250, 332, 499, 500, 501, 800}
  MaxTer = 40000
SPECIFICATION SpecMemory
INVARIANT EveryTermHasItsPosition
CHECK_DEADLOCK FALSE
