SPECIFICATION Spec
CONSTANTS
  Pools = {p1, p2}
  PageSize <- MCPageSize
  DWord <- MCDWord
  AddressSpace <- MCAddressSpace
  Areas <- AreasKernel
  PageCounts = {0, 3, 8}
  FreeBases <- AlignedAddresses
  MaxRanges = 3
  MaxLocks = 1
SYMMETRY PoolSymmetry
INVARIANTS
  TypeOK
  AlignedBases
PROPERTIES
  LedgerSpec
  PoolSteps
\* The kernel is dead after it reads through a null pointer.
CHECK_DEADLOCK FALSE
