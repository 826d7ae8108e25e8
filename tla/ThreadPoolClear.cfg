CONSTANTS
  NumberOfWorkers = 2
  MaxTasks = 2
  MaxExprs = 0
  MaxSpurious = 0
  MaxClears = 1
SPECIFICATION ClearSpec
INVARIANT BarrierMeansDone
CHECK_DEADLOCK FALSE
