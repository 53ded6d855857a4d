SPECIFICATION FairSpec
CONSTANTS
  ETH_NUM_RX_DESCRIPTORS = 3
  ETH_NUM_TX_DESCRIPTORS = 1
  NumBuffers = 3
  EventQueueLength = 2
  FramesMayBeBad = TRUE
  RxBudget = 5
  TxBudget = 2
CHECK_DEADLOCK FALSE
INVARIANTS TypeOK RingAgrees BuffersBalance DeafOnlyOver OthersIntact SentInTurn
PROPERTIES ImplementsQueue Sent Recovers
