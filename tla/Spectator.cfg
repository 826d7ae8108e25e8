CONSTANTS
  Names = {a, b, c}
  NoName = NoName
  FirstSize = 1
  POsize = 3
  TermSizes = {2, 3}
  MaxTerms = 3
  MaxCopies = 2
SPECIFICATION Spec
INVARIANTS
  NamesMatch
  EveryTermComesBack
CHECK_DEADLOCK FALSE
