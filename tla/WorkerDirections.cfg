SPECIFICATION WorkerSpec
CONSTANTS
  Consumers = {"parent", "child"}
  Generations = {1}
  Holders = {1, 2}
  Keys = {}
  Transports = {"checked", "tried"}
  Mail = {}
  LeaseTerm = 1
  MaxSeq = 2
  NoOne = NoOne
  Reach <- TypedReach
  TypedTries = 1
  Faults = {"crash", "sleep", "doubt"}
  MaxFaults = 1
  MaxFallbacks = 0
CHECK_DEADLOCK FALSE
PROPERTIES
  CancelledStaysQuiet
