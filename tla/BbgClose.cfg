SPECIFICATION Spec
CONSTANTS
  MSG_MAXMSGS = 3
  PeerBudget = 2
  PeerMsgs <- Commands
  MaxRestarts = 0
  PeerMayClose = TRUE
  FopenMayFail = TRUE
  Paths = {"log", "other"}
  LogPath = "log"
  TimerLimit = 2
CHECK_DEADLOCK FALSE
INVARIANTS TypeOK NeverOvertaken NothingLost
