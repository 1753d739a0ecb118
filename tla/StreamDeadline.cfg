SPECIFICATION FairSpec
CONSTANTS
  RequestTimeout = 3
  IdleTimeout = 2
  MaxLifetime = 7
  ReadTimeout = 5
  LeaveTimeout = 1
  Horizon = 10
PROPERTIES EndsInTime TimersJustified StreamEnds
CHECK_DEADLOCK FALSE
