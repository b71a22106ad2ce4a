\* Messages whose length carries into an odd first length byte.
CONSTANTS
  Base = 8
  Preamble = 5
  Payloads <- CarryPayloads
  MaxMessages = 2
  MaxLost = 0
SPECIFICATION Spec
INVARIANTS
  MessagesPassedOn
\* The sender stops after MaxMessages messages.
CHECK_DEADLOCK FALSE
