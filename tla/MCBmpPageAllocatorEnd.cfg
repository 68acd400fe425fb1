SPECIFICATION Spec
CONSTANTS
  W = 4
  BYTE = 2
  PageBytes = 4
  LargeSize = 5
  Window <- MCWindow
  Contents <- MCContents
  Maps <- MCMaps
  LowMem <- MCLowMem
  Kernel <- MCKernel
  Modules = {FALSE}
  Sizes = {1, 3}
PROPERTIES
  SingleInBitmap
\* The kernel is dead after an access to storage that is not mapped.
CHECK_DEADLOCK FALSE
