SPECIFICATION Spec
CONSTANTS
  Threads = {t1}
  MaxTime = 0
  MaxOwnTasks = 1
  MaxExtTasks = 1
  MaxExecutors = 2
  EarlyReacquire = TRUE
PROPERTIES
  IdleLeavesNoTask
