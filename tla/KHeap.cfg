SPECIFICATION Spec
CONSTANTS
  ALIGNMENT = 2
  BlockHeader = 2
  ChunkHeader = 2
  PageBytes = 28
  MinAllocPages = 1
  RootSize = 22
  BlockIds = {1, 2, 3}
  Requests = {2, 6}
  Counts = {}
  NewSizes = {}
  RangeBytes = 6
  Splits = {TRUE, FALSE}
  Garbage = {0}
INVARIANTS
  TypeOK
  HeapSound
PROPERTIES
  GrowsOnlyWhenFull
\* The kernel is dead after it reads through a null pointer.
CHECK_DEADLOCK FALSE
