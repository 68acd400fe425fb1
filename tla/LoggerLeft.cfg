\* Overlapping calls of Lock and Unlock.
SPECIFICATION Spec
CONSTANTS
  CPUs = {c1, c2}
  FifoDepth = 2
  Lengths = {2}
  MappedBytes = 0
  LevelsSet = {}
  MaxDepth = 1
INVARIANTS
  NothingLeftLocked
\* A fault stops a processor.
CHECK_DEADLOCK FALSE
