\* One processor waits for the FIFO while another prints again and again.
SPECIFICATION FairSpec
CONSTANTS
  CPUs = {c1, c2}
  FifoDepth = 2
  Lengths = {2}
  MappedBytes = 0
  LevelsSet = {}
  MaxDepth = 1
PROPERTIES
  WaitsWhileFull
\* A fault stops a processor.
CHECK_DEADLOCK FALSE
