\* Four frames, up to four troubles with the caster.
CONSTANTS
  MaxFrames = 4
  MaxTrouble = 4
SPECIFICATION Spec
INVARIANTS
  WholeChunks
  RefusedGetsNothing
PROPERTIES
  ShutdownCompletes
  QueueDrains
\* The server may be shut down.
CHECK_DEADLOCK FALSE
