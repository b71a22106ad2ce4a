\* No losses, one reset.
CONSTANTS
  Multiplexes <- OnTheAir
  Slow = 2
  MaxLost = 0
  MaxTunes = 1
SPECIFICATION Spec
INVARIANTS
  TypeOK
  DoneMeansSeen
  ToldOnce
PROPERTIES
  ToldComplete
  CollectionEnds
