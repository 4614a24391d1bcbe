SPECIFICATION Spec
CONSTANTS
  Prompts = {p1, p2}
  NoPrompt = NoPrompt
  Features <- Steering
  MaxTurns = 2
  MaxAttempts = 2
  MaxGets = 1
  MaxStops = 1
  MaxEvents = 1
SYMMETRY PromptSymmetry
INVARIANTS NothingLost WaitsOnce GuardMatchesWork
PROPERTIES ReadAtMostOnce
