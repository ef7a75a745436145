SPECIFICATION FairSpec
CONSTANTS
  MaxTime = 1
  MaxTasks = 2
  NKeys = 2
  MaxWatches = 3
  StaleDisables = TRUE
PROPERTIES
  ImplementsContract
  ReportsReachWatches
  NothingStartsAfterQuit
  QuitEndsRun
  TasksServed
