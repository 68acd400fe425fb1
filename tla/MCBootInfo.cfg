\* The walk over every list of up to three tags.
SPECIFICATION FairSpec
CONSTANTS
  TagLists <- MCTagLists
  Places <- MCPlaces
INVARIANTS
  TypeOK
  InfoMatches
  GapSuffices
PROPERTIES
  WalkEnds
\* The model ends with the boot.
CHECK_DEADLOCK FALSE
