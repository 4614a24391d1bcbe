SPECIFICATION FairSpec
CONSTANTS
  Prompts = {t1}
  Steers = {q1}
  None = None
  Room = 1
  MaxOuts = 2
  MaxSelf = 1
  MaxCancels = 1
INVARIANTS NoTurnAbandoned 
PROPERTIES TurnsPaired TornDown
CHECK_DEADLOCK FALSE
