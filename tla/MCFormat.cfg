\* vsprintf on every combination of the parts of a tag.
SPECIFICATION Spec
CONSTANTS
  IntSize = 256
  ShortSize = 16
  PointerDigits = 4
  Cells = 16
  Calls <- MCCalls
INVARIANTS
  TypeOK
  OutputRight
CHECK_DEADLOCK FALSE
