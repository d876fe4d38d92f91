SPECIFICATION FairSpec
CONSTANTS
  MaxPts = 4
  Counts = {0, 1, 2}
  RunLimit = 20
  MaxRare = 1
INVARIANTS TypeOK AppliedOnceInOrder PendingWaitsForAGap WaitingUpdatesHaveTimer
PROPERTIES CatchesUp
CHECK_DEADLOCK FALSE
