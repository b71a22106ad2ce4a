SPECIFICATION Spec
CONSTANTS
  Services <- MCServices
  OnAir = {1, 3}
  HalfLocked = {0}
  NumChannels = 4
  NFrequencies = {1, 2}
  WaitLoops = 4
  FicLoops = 1
  MaxRequests = 3
  MaxFailures = 1
  MaxQueued = 2
  Restarts = FALSE
INVARIANTS TypeOK ScanExclusive SettledPlays
PROPERTIES ScanCovers ServiceStarts ScanEnds
