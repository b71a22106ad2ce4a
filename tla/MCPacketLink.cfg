\* Two groups, up to two packets of each damaged or lost, one of them lost.
CONSTANTS
  OwnAddress = 1
  Receptions = {}
  JunkHeaders <- MCJunk
  FecDataSize = 3
  FecMaxFecPkt = 1
  MaxSeq = 10
  OtherAddresses = {}
  Confusions <- OwnAndPadding
  MaxDamage = 2
  MaxLoss = 1
  MaxGroups = 2
SPECIFICATION LinkSpec
INVARIANTS
  GroupDelivered
  FramesIntact
PROPERTIES
  PendingResolved
\* The stream ends after MaxGroups groups.
CHECK_DEADLOCK FALSE
