CONSTANTS
  NumberOfWorkers = 2
  MaxTasks = 4
  MaxExprs = 2
  MaxSpurious = 2
SPECIFICATION FairSpec
INVARIANTS
  TypeOK
  NoWorkerListedTwice
  ListedAreIdle
  LoadedWorkerWaits
  BarrierMeansDone
PROPERTIES
  NoSignalOverwritten
  EveryRunEnds
CHECK_DEADLOCK FALSE
