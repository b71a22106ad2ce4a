SPECIFICATION Spec
CONSTANTS
  Tuned <- MCTuned
  Subchannels = {5}
  Sharing = FALSE
  MaxCalls = 3
INVARIANTS TypeOK TunedRegisters ReceptionSetUp
PROPERTIES Served
