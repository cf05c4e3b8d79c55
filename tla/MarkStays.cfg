SPECIFICATION Spec
CONSTANTS
  Procs = {p1, p2}
  Suites = {p1, p2}
  Dockers = {}
  MaxSuites = 1
  Budget <- Cancels
  Reaper = Reaper
  NoOne = NoOne
PROPERTIES MarkStays
CHECK_DEADLOCK FALSE
