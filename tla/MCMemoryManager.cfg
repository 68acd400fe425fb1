SPECIFICATION Spec
CONSTANTS
  PageSize = 2
  DWord = 32
  AddressSpace = 128
  VirtStart = 2
  VirtPages = 7
  Frame <- MCFrame
  Reserved <- MCReserved
  InitPages = 3
  RefillPages = 2
  HeapPages = 2
  TablePages = 8
  Gaps = {1, 2, 3}
  PhysCounts = {1, 2}
  VirtCounts = {1}
  NoMapCounts = {1}
INVARIANTS
  TypeOK
  MemorySound
\* The kernel panics, reads through a null pointer or halts after its set-up.
CHECK_DEADLOCK FALSE
