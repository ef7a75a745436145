SPECIFICATION FairSpec
CONSTANTS
  Clients = {c1, c2}
  Workers = {w1, w2, w3}
  MaxTasks = 3
INVARIANTS
  TypeOK
  NoLostWakeup
  StartOrder
  WorkersEndLast
PROPERTIES
  EveryTaskFinishes
  WorkersEnd
\* The pool is gone for good when its workers have ended.
CHECK_DEADLOCK FALSE
