CONSTANTS
  Magic = Magic
  Payloads <- MCPayloads
  Cap = 4
  Word = 8
  MaxMessages = 3
SPECIFICATION Spec
CHECK_DEADLOCK FALSE
INVARIANT SplitMessagesAreNotRefused
