SPECIFICATION FairSpec
CONSTANTS
  Msgs = {m1, m2}
  Sent = {m1}
  Procs = {p1, p2}
  Budget <- Renewed
  NoOne = NoOne
PROPERTIES DrainEnds QueuedGoesOn ShownGoesOut
CHECK_DEADLOCK FALSE
