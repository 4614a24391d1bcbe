SPECIFICATION Spec
CONSTANTS
  Asks = {r1}
  Cards = {c1}
  Clients = {p1, p2}
  NoReq = NoReq
  MaxFails = 1
  MaxExits = 2
  MaxCrashes = 1
SYMMETRY ClientSymmetry
INVARIANTS SettledAlike NobodyStranded CardsHonest
CHECK_DEADLOCK FALSE
