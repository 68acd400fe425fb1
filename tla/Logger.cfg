\* Two processors print, lock and reconfigure at once and never stop, messages of two bytes
\* into a FIFO of two; the level is set to what it is, for what prints is any message anyway.
SPECIFICATION FairSpec
CONSTANTS
  CPUs = {c1, c2}
  FifoDepth = 2
  Lengths = {2}
  MappedBytes = 0
  LevelsSet = {"Error"}
  MaxDepth = 1
INVARIANTS
  TypeOK
  LockSound
  NoOverrun
PROPERTIES
  CallsEnd
\* A fault stops a processor.
CHECK_DEADLOCK FALSE
