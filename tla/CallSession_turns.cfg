SPECIFICATION FairSessions
CONSTANTS
  t1 = t1
  a1 = a1
  q1 = q1
  None = None
  Kinds = {"codex", "pi"}
  Prompts = {t1}
  Actions = {a1}
  Steers = {q1}
  Menus <- MCMenus
  Room = 1
  MaxExtras = 2
  MaxCancels = 1
INVARIANTS NoTurnStuck SubagentStays StopStaysArmed
PROPERTIES TurnsPaired TornDown
CHECK_DEADLOCK FALSE
