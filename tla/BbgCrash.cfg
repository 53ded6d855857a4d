SPECIFICATION Spec
CONSTANTS
  MSG_MAXMSGS = 4
  PeerBudget = 2
  PeerMsgs <- Lines
  MaxRestarts = 1
  PeerMayClose = FALSE
  FopenMayFail = FALSE
  Paths = {"log", "other"}
  LogPath = "log"
  TimerLimit = 2
CHECK_DEADLOCK FALSE
PROPERTY ImplementsBus
