SPECIFICATION FairSpec
CONSTANTS
  LENGTH = 4
  MSG_SIZE = 2
  lMaxLength = 2
  SeqSpace = 32
  ulFirstSequenceNumber = 0
  KeepAliveTries = 1
  FirstIndex = 3
  EventQueueLength = 1
  Messages = 2
  InFlight = 1
CHECK_DEADLOCK FALSE
INVARIANTS WindowAgrees NothingForgotten NoLostWakeUp
PROPERTIES ImplementsStream Arrived
