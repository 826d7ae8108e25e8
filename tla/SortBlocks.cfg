CONSTANTS
  MasterNumBlocks = 3
  BlockSize = 6
  MaxTer = 4
  TermSizes = {2, 3}
  Readers = {"MasterMerge", "SortBotMerge"}
  MaxTerms = 9
  MaxRounds = 1
SPECIFICATION Spec
INVARIANTS
  TermIsIntact
  ReadsOnlyHeldBlocks
PROPERTIES
  ImplementsStream
  EveryExpressionEnds
CHECK_DEADLOCK FALSE
