SPECIFICATION FairSpec
CONSTANTS
  MaxTime = 2
  MaxRequests = 4
INVARIANTS
  TypeOK
  TimeoutTaskCoversRequests
  EachAnsweredOnce
PROPERTIES
  EachLeaves
\* A destroyed queue has nothing left to do.
CHECK_DEADLOCK FALSE
