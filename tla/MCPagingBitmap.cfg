SPECIFICATION Spec
CONSTANTS
  Fan = 5
  Ram = 23
  HeapTables = 1
  BitmapPages = 6
  ImageSizes <- MCImageSizes
  Clients <- MCClients
  Targets <- MCTargets
INVARIANTS
  TablesApart
CHECK_DEADLOCK FALSE
