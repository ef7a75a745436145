SPECIFICATION FairSpec
CONSTANTS
  Threads = {t1}
  MaxTime = 1
  MaxOwnTasks = 1
  MaxExtTasks = 3
  MaxExecutors = 2
  EarlyReacquire = FALSE
PROPERTIES
  ImplementsContract
  ImplementsMtExecutor
  IdleOnlyWhenDone
  ExtTasksServed
