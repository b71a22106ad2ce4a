SPECIFICATION Spec
CONSTANTS
  Figs <- MCFigs
  MaxFigs = 2
  Junk = {1000, 2000}
INVARIANTS ReadAsMeant AllRead RepeatRecognized
CHECK_DEADLOCK FALSE
