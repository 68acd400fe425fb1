SPECIFICATION Spec
CONSTANTS
  Pools = {p1}
  PageSize <- MCPageSize
  DWord <- MCDWord
  AddressSpace <- MCAddressSpace
  Areas <- AreasAdjacent
  PageCounts = {2}
  FreeBases <- AlignedAddresses
  MaxRanges = 4
  MaxLocks = 0
PROPERTIES
  MergesContiguous
CHECK_DEADLOCK FALSE
