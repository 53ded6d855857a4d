SPECIFICATION FairSpec
CONSTANTS
  MSG_MAXMSGS = 2
  configTIMER_QUEUE_LENGTH = 4
  TEMP_HEARTBEAT_MS = 1
  TIVA_HEARTBEAT_PERIOD = 2
  TEMP_PER = 5
  SendTimeout = 2
  timeOut = 5
  ApiMsgs <- Kill
  ApiBudget = 4
  StallCap = 2
INVARIANTS NeverWaitsForTimer ReloadsFit
PROPERTIES GivenUpOnlyWhenStuck NoFalseAlarm TasksGoOn
