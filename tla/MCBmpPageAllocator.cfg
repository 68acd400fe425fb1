SPECIFICATION Spec
CONSTANTS
  W = 4
  BYTE = 2
  PageBytes = 4
  LargeSize = 5
  Window <- MCWindow
  Contents <- MCContents
  Maps <- MCMaps
  LowMem <- MCLowMem
  Kernel <- MCKernel
  Modules = {TRUE, FALSE}
  Sizes = {0, 1, 3, 6}
INVARIANTS
  TypeOK
  BitmapSound
PROPERTIES
  CountFollowsBits
  SinglesServed
\* The kernel is dead after an access to storage that is not mapped.
CHECK_DEADLOCK FALSE
