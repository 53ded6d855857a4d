SPECIFICATION FairSpec
CONSTANTS
  MSG_MAXMSGS = 4
  PeerBudget = 3
  PeerMsgs <- TivaMsgs
  MaxRestarts = 0
  PeerMayClose = FALSE
  FopenMayFail = FALSE
  Paths = {"log", "other"}
  LogPath = "log"
  TimerLimit = 2
CHECK_DEADLOCK FALSE
INVARIANTS InOrder LogComplete
PROPERTIES ImplementsBus MainStarts Delivered
