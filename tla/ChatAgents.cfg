SPECIFICATION Spec
CONSTANTS
  Msgs = {m1, m2}
  Sent = {m1, m2}
  Procs = {p1, p2}
  Budget <- CutShort
  NoOne = NoOne
SYMMETRY Symmetry
CONSTRAINTS OneStart ResumesAlone
INVARIANTS ChatTypeOK OneAgent
PROPERTIES KeepsPromise
CHECK_DEADLOCK FALSE
