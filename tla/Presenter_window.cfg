SPECIFICATION PresenterSpec
CONSTANTS
  Turns = {t1, t2}
  Blocks = {b1}
  Tools = {c1}
  Jobs = {j1}
  Requests = {r1}
  Queue = {q1}
  Plans = {p1}
  TaskTypes = {"local_bash", "local_agent"}
  SnapshotItems = 1
  PageItems = 1
  MaxEvents = 5
  MaxAside = 1
  MaxWire = 1
  MaxSnapshots = 1
  Unseen = FALSE
SYMMETRY TurnSymmetry
INVARIANTS FoldsAgree IdleIsQuiet
CHECK_DEADLOCK FALSE
