SPECIFICATION FairSpec
CONSTANTS
  Subs = {s1, s2}
  NoSub = NoSub
  QueueCap = 1
  MaxReplayGap = 2
  MaxWire = 2
  MaxSeq = 3
  MaxDrops = 1
  MaxExits = 1
  MaxSelects = 1
INVARIANTS ReaderHonest
PROPERTIES ReaderSpec CaughtUp
CHECK_DEADLOCK FALSE
