SPECIFICATION Spec
CONSTANTS
  Msgs = {m1, m2}
  Sent = {m1}
  Procs = {p1, p2}
  Budget <- Rushed
  NoOne = NoOne
SYMMETRY Symmetry
INVARIANTS OneTurnEach
CHECK_DEADLOCK FALSE
