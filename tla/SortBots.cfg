SPECIFICATION Spec
CONSTANTS
  NumberOfWorkers = 4
  MasterNumBlocks = 3
  MaxExpressions = 2
  Inputs <- MCInputs
INVARIANTS
  OutputIsTheSum
  NoSortBotMissesInit
PROPERTIES
  EveryTreeEnds
CHECK_DEADLOCK FALSE
