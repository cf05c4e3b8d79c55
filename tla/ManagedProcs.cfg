SPECIFICATION FairSpec
CONSTANTS
  Procs = {p1, p2}
  Suites = {p1, p2}
  Dockers = {p1, p2}
  MaxSuites = 1
  Budget <- Mishaps
  Reaper = Reaper
  NoOne = NoOne
INVARIANTS ProcTypeOK HoldInv DockerHeld
PROPERTIES QueueOrder WaitersEnd DockerIsStopped
CHECK_DEADLOCK FALSE
