SPECIFICATION Spec
CONSTANTS
  Tuned <- MCTuned
  Subchannels = {5}
  Sharing = TRUE
  MaxCalls = 3
PROPERTIES OwnAnswer
CHECK_DEADLOCK FALSE
