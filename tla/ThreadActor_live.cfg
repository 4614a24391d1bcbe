SPECIFICATION FairSpec
CONSTANTS
  Prompts = {p1, p2}
  NoPrompt = NoPrompt
  Features <- Living
  MaxTurns = 1
  MaxAttempts = 2
  MaxGets = 1
  MaxStops = 1
  MaxEvents = 1
PROPERTIES ThreadGoesOn 
