SPECIFICATION Spec
CONSTANTS
  Names = {F, G}
  MaxExpressions = 3
  MaxStatements = 5
  MaxModules = 4
SYMMETRY Symmetry
INVARIANTS
  EveryExpressionIsFound
  ReferencesSeeTheOldExpression
  NamesFindTheirExpression
  StoredIsWhole
CHECK_DEADLOCK FALSE
