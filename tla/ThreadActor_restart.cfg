SPECIFICATION Spec
CONSTANTS
  Prompts = {p1, p2}
  NoPrompt = NoPrompt
  Features <- Restarting
  MaxTurns = 4
  MaxAttempts = 1
  MaxGets = 2
  MaxStops = 2
  MaxEvents = 2
INVARIANTS PhaseAgrees InterruptedIsFound RecoveryInOrder
