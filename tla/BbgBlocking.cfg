SPECIFICATION Spec
CONSTANTS
  MSG_MAXMSGS = 3
  PeerBudget = 5
  PeerMsgs <- Inits
  MaxRestarts = 0
  PeerMayClose = FALSE
  FopenMayFail = FALSE
  Paths = {"log", "other"}
  LogPath = "log"
  TimerLimit = 2
CHECK_DEADLOCK FALSE
INVARIANTS StartupHasRoom NoEarlyCircularWait
