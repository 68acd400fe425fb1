SPECIFICATION FairSpec
CONSTANTS
  FullCount = 3
  TimerMax = 11
  MaxWindows = 1
  Spans <- MCSpans
  Freqs <- MCFreqs
  Modes <- MCModes
  ApicIds <- MCApicIds
INVARIANTS
  TypeOK
  Calibrated
PROPERTIES
  SleptFull
  SleepEnds
CHECK_DEADLOCK FALSE
