SPECIFICATION Spec
CONSTANTS
  Fan = 5
  Ram = 20
  HeapTables = 1
  BitmapPages = 1
  ImageSizes <- MCImageSizes
  Clients <- MCClients
  Targets <- MCTargets
INVARIANTS
  TypeOK
  TablesMatch
  TLBAgrees
  TablesApart
CHECK_DEADLOCK FALSE
