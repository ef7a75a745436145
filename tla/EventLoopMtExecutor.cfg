SPECIFICATION FairSpec
CONSTANTS
  Threads = {t1, t2, t3}
  MaxTasks = 4
INVARIANTS
  TypeOK
  TaskIsNotified
  WatchOutlivesTasks
PROPERTIES
  ImplementsMtExecutor
  EveryTaskRuns
  WatchEnds
\* The loop has nothing left to do once the watch has ended.
CHECK_DEADLOCK FALSE
