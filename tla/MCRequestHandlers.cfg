SPECIFICATION FairSpec
CONSTANTS
  MaxTime = 2
  MaxRequests = 3
  N = 2
  InitValue = 2
  Deadline = 1
  MaxTimeout = 1
  Distance = 1
  MaxCalls = 1
  MaxElements = 3
  DataLen = 2
  Pids = {1, 2}
  IoFaults = FALSE
  Small = {"lazy_init", "forwarding", "iterations", "connections", "threaded", "reaper",
           "fd_writer"}
  Kinds = {"sequential", "semaphore", "prioritizing", "grouping", "lazy_init",
           "multi_sequential", "forwarding", "throttling", "iterations", "dispatch",
           "fd_writer", "connections", "reaper", "threaded", "io_lines"}
INVARIANTS
  LimitKept
  NoneForgotten
PROPERTIES
  ServedInOrder
  ImplementsRequestHandler
  EveryRequestAnswered
\* A destroyed handler has nothing left to do, nor one at the bounds.
CHECK_DEADLOCK FALSE
