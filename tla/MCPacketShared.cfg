\* Two components in one subchannel, nothing damaged, nothing lost.
CONSTANTS
  OwnAddress = 1
  Receptions = {}
  JunkHeaders = {}
  FecDataSize = 3
  FecMaxFecPkt = 1
  MaxSeq = 10
  OtherAddresses = {2}
  Confusions <- OwnOnly
  MaxDamage = 0
  MaxLoss = 0
  MaxGroups = 2
SPECIFICATION LinkSpec
INVARIANTS
  OthersDropped
CHECK_DEADLOCK FALSE
