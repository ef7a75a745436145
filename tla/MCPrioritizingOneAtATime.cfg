SPECIFICATION Spec
CONSTANTS
  MaxTime = 1
  MaxRequests = 4
  N = 2
  InitValue = 1
  Deadline = 1
  MaxTimeout = 1
  Distance = 1
  MaxCalls = 1
  MaxElements = 1
  DataLen = 1
  Pids = {1}
  IoFaults = FALSE
  Small = {}
  Kinds = {"prioritizing"}
INVARIANTS
  OneAtATime
CHECK_DEADLOCK FALSE
