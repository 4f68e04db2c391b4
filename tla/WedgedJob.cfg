SPECIFICATION MCTakingTurns
CONSTANTS
  LastJob = 1
  MutexGroup = {}
  Schedule <- MCSchedule
  Day = 2
  Jitter = {0}
  MaxWall = 4
  MaxRequests = 2
  MaxDeaths = 0
PROPERTIES
  OccurrenceIsOpen
CHECK_DEADLOCK FALSE
