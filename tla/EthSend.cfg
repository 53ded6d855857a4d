SPECIFICATION Spec
CONSTANTS
  ETH_NUM_RX_DESCRIPTORS = 3
  ETH_NUM_TX_DESCRIPTORS = 1
  NumBuffers = 3
  EventQueueLength = 2
  FramesMayBeBad = FALSE
  RxBudget = 2
  TxBudget = 2
CHECK_DEADLOCK FALSE
INVARIANT SentIntact
