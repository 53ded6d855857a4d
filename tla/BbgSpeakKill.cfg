SPECIFICATION Spec
CONSTANTS
  MSG_MAXMSGS = 3
  PeerBudget = 1
  PeerMsgs <- KillSpeak
  MaxRestarts = 0
  PeerMayClose = FALSE
  FopenMayFail = FALSE
  Paths = {"log", "other"}
  LogPath = "log"
  TimerLimit = 2
CHECK_DEADLOCK FALSE
PROPERTIES SpeakKillStops
