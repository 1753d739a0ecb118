SPECIFICATION FairSpec
CONSTANTS
  MaxMessages = 1
  ChanCap = 1
  LinkCap = 1
INVARIANTS NothingLeftBehind CompletedMeansClosed
PROPERTIES CleanCloseIsComplete RelayEnds
CHECK_DEADLOCK FALSE
