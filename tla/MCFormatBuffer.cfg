\* A buffer that was used before.
SPECIFICATION Spec
CONSTANTS
  IntSize = 256
  ShortSize = 16
  PointerDigits = 4
  Cells = 16
  Calls <- MCCalls
INVARIANTS
  StoredInBuffer
CHECK_DEADLOCK FALSE
