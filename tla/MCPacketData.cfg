\* Any packet at any time, MaxSeq packets long, groups of two data packets.
CONSTANTS
  OwnAddress = 1
  Receptions <- MCReceptions
  JunkHeaders <- MCJunk
  FecDataSize = 2
  FecMaxFecPkt = 1
  MaxSeq = 6
SPECIFICATION Spec
INVARIANTS
  TypeOK
  NothingOvertakesPending
  FrameWellFormed
PROPERTIES
  DeliversInOrder
\* The stream is cut after MaxSeq packets.
CHECK_DEADLOCK FALSE
