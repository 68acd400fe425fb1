SPECIFICATION FairSpec
CONSTANTS
  CPUs = {c1, c2, c3}
  MaxHolds = 2
INVARIANTS
  TypeOK
  MutexSound
  NeverRefused
PROPERTIES
  EditLockReleased
\* Error() halts a processor for ever by design.
CHECK_DEADLOCK FALSE
