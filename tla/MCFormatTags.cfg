\* Tags as they are documented.
SPECIFICATION Spec
CONSTANTS
  IntSize = 256
  ShortSize = 16
  PointerDigits = 4
  Cells = 16
  Calls <- MCCalls
INVARIANTS
  PrototypeUnderstood
CHECK_DEADLOCK FALSE
