SPECIFICATION Spec
CONSTANTS
  Pools = {p1}
  PageSize <- MCPageSize
  DWord <- MCDWord
  AddressSpace <- MCAddressSpace
  Areas <- AreasKernel
  PageCounts = {2, 3}
  FreeBases <- AlignedAddresses
  MaxRanges = 4
  MaxLocks = 0
INVARIANTS
  GrantsDisjoint
CHECK_DEADLOCK FALSE
