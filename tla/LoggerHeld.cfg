\* One processor prints while another has locked.
SPECIFICATION Spec
CONSTANTS
  CPUs = {c1, c2}
  FifoDepth = 2
  Lengths = {2}
  MappedBytes = 0
  LevelsSet = {}
  MaxDepth = 1
INVARIANTS
  LockKept
\* A fault stops a processor.
CHECK_DEADLOCK FALSE
