SPECIFICATION Spec
CONSTANTS
  ALIGNMENT = 2
  BlockHeader = 2
  ChunkHeader = 2
  PageBytes = 16
  MinAllocPages = 1
  RootSize = 18
  BlockIds = {1, 2}
  Requests = {1, 2}
  Counts = {2}
  NewSizes = {1, 3}
  RangeBytes = 2
  Splits = {TRUE, FALSE}
  Garbage = {0, 9}
INVARIANTS
  PaddedSound
\* The kernel is dead after it reads through a null pointer.
CHECK_DEADLOCK FALSE
