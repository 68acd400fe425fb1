\* A tag with a width and a precision.
SPECIFICATION Spec
CONSTANTS
  IntSize = 256
  ShortSize = 16
  PointerDigits = 4
  Cells = 16
  Calls <- MCCalls
INVARIANTS
  WidthIgnored
CHECK_DEADLOCK FALSE
