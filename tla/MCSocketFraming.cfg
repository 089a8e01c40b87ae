CONSTANTS
  Magic = Magic
  Payloads <- MCPayloads
  Cap = 4
  Word = 8
  MaxMessages = 3
SPECIFICATION FairSpec
CHECK_DEADLOCK FALSE
INVARIANT WithinBuffer
INVARIANT StreamConserved
INVARIANT RefusedOnlyIfTooLong
PROPERTY WholeMessagesDispatched
