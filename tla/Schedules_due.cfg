SPECIFICATION FairSpec
CONSTANTS
  Ids = {s1}
  NoId = NoId
  Grace = 1
  Ahead = 2
  MaxClock = 3
  MaxAsks = 2
  MaxIncidents = 1
  MaxCrashes = 1
  TornRow = TRUE
INVARIANTS SentOnce IndexAgrees
PROPERTIES BusyWaitKept DueSettles
CHECK_DEADLOCK FALSE
