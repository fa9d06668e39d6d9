SPECIFICATION FairSpec
CONSTANTS
  Connections = {1, 2, 3, 4, 5}
  Keys = {"board", "notes"}
  Board = "board"
  Notes = "notes"
  None = 0
  MaxErrors = 2
  MaxMissed = 1
  MaxFaults = 2
  MaxClicks = 2
CHECK_DEADLOCK FALSE
INVARIANTS
  AskedIsDelivered
  SurplusOnlyIfOvertaken
PROPERTIES
  NotificationsComeBack
