SPECIFICATION Spec
CONSTANTS
  Dispatches = {d1, d2}
  Workers = {w1, w2}
  MaxAgents = 1
  Budget <- Troubled
  NoOne = NoOne
SYMMETRY Symmetry
INVARIANTS SpawnTypeOK SpawnInv LaunchedOnce CancelledNeverStarts WithinLimit
CHECK_DEADLOCK FALSE
