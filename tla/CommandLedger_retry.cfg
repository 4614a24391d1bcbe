SPECIFICATION FairSpec
CONSTANTS
  Ops = {prompt, delete}
  Delete = delete
  NoRunner = NoRunner
  MaxConns = 2
  MaxCrashes = 1
  MaxStops = 1
PROPERTIES TakesEffectOnce Settles RunOnce
CHECK_DEADLOCK FALSE
