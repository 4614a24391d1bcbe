SPECIFICATION FairSpec
CONSTANTS
  i1 = i1
  i2 = i2
  i3 = i3
  Instances = {i1, i2}
  Home = i1
  Looked = {i1}
  Looks = {1, 2}
  Switches = {1, 2}
  Limits <- MCLimits
  MaxBusy = 2
  MaxRechecks = 1
  Faults = {}
CHECK_DEADLOCK FALSE
INVARIANTS  ConversationFollowsThread
PROPERTIES RecheckIsEnough
