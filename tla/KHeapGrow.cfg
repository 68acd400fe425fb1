SPECIFICATION Spec
CONSTANTS
  ALIGNMENT = 2
  BlockHeader = 2
  ChunkHeader = 2
  PageBytes = 20
  MinAllocPages = 1
  RootSize = 26
  BlockIds = {1, 2, 3}
  Requests = {2, 4, 6}
  Counts = {}
  NewSizes = {}
  RangeBytes = 2
  Splits = {TRUE, FALSE}
  Garbage = {0}
INVARIANTS
  Extendable
\* The kernel is dead after it reads through a null pointer.
CHECK_DEADLOCK FALSE
