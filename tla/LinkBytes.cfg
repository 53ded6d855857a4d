SPECIFICATION FairSpec
CONSTANTS
  MSG_SIZE = 3
  TxSize = 4
  RxSize = 4
  MSG_MAXMSGS = 2
  Messages = 4
  Resets = 1
CHECK_DEADLOCK FALSE
INVARIANTS InStep InTurn
PROPERTIES ImplementsStream AllRead
