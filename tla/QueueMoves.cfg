SPECIFICATION FairSpec
CONSTANTS
  Dispatches = {d1, d2}
  Workers = {w1, w2}
  MaxAgents = 1
  Budget <- Loaded
  NoOne = NoOne
INVARIANTS QueueInv
PROPERTIES InOrder QueueMoves
CHECK_DEADLOCK FALSE
