CONSTANTS
  FrameSize = 2
  SuperFrameSize = 9
  Header <- MCHeader
  LabelGroups <- MCLabelGroups
  MotGroups <- MCMotGroups
  Stations <- MCStations
  Labels <- MCLabels
  Objects <- MCObjects
  ChunkSize = 9
  FaultAt = {1, 8}
  FalseHeaders <- MCFalseHeaders
  MaxFaults = 2
  SuperFrameMargin = 2
  LabelMargin = 2
SPECIFICATION Spec
INVARIANTS
  SyncRegained
  LabelsRight
  SlidesRight
  SlidesWhole
  RoomLeft
PROPERTIES
  PadsDelivered
\* The stream ends.
CHECK_DEADLOCK FALSE
