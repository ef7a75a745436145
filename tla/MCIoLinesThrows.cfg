SPECIFICATION FairSpec
CONSTANTS
  MaxTime = 1
  MaxRequests = 1
  N = 1
  InitValue = 1
  Deadline = 1
  MaxTimeout = 1
  Distance = 1
  MaxCalls = 1
  MaxElements = 1
  DataLen = 1
  Pids = {1}
  IoFaults = TRUE
  Small = {}
  Kinds = {"io_lines"}
PROPERTIES
  EveryRequestAnswered
CHECK_DEADLOCK FALSE
