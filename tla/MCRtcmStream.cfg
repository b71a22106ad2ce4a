\* Four messages, cut anywhere, or whole with one lost.
CONSTANTS
  Base = 8
  Preamble = 5
  Payloads <- GoodPayloads
  MaxMessages = 4
  MaxLost = 1
SPECIFICATION Spec
INVARIANTS
  MessagesPassedOn
\* The sender stops after MaxMessages messages.
CHECK_DEADLOCK FALSE
