CONSTANTS
  Modules = 3
  MaxStarts = 3
  MaxFailures = 1
SPECIFICATION Spec
INVARIANT CleanEnd
PROPERTIES SavedPointIsKept BrokenOnlyByCopying
CHECK_DEADLOCK FALSE
