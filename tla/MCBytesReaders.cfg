SPECIFICATION FairReadersSpec
CONSTANTS
  MaxTime = 1
  MaxRequests = 3
  N = 1
  StreamLen = 4
  ReadSizes = {0, 1, 2}
  Readers = {"buffered", "buffered_alone", "size_limited", "lines", "source", "utils"}
  \* Two reads at the same time, of some bytes and without a timeout, are enough.
  MaxOpen = 2
  OpenSizes = {1, 2}
  OpenDeadlines = {2}
  max_buffer_size = 2
  total_size_limit = 2
  max_line_size = 2
  input_chunk_size = 2
INVARIANTS
  StreamPreserved
  ReadLimitKept
PROPERTIES
  ImplementsBytesReader
  EveryReadAnswered
\* A destroyed reader has nothing left to do, nor one at the bounds.
CHECK_DEADLOCK FALSE
