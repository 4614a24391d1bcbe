SPECIFICATION Spec
CONSTANTS
  Managed = {"own"}
  Borrowed = {"guest"}
  MaxActors = 4
  MaxWork = 2
  MaxTrouble = 1
INVARIANTS TeardownIsAlone DeadIsForgotten
PROPERTIES ClosedIsFinal OthersKept
CHECK_DEADLOCK FALSE
